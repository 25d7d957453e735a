-------------------- MODULE HandleProtocolCount_proofs --------------------
(***************************************************************************)
(* What HandleProtocol counts: the use count of a chunk is exactly what    *)
(* handles hold and threads will still unset, a chunk in RAM is in use     *)
(* exactly if its count says so, and a pointer that was given out stays    *)
(* valid.  The structure of the operations is that of                      *)
(* HandleProtocol_proofs.                                                  *)
(***************************************************************************)
EXTENDS HandleProtocol_proofs

\* A chunk in RAM is in use exactly if its count says so.
InUse == \A b \in Block : status[b] \in Present => (status[b] = "INUSE" <=> useCnt[b] > 0)
-----------------------------------------------------------------------------
(* The uses that are held, and those that will be unset.                   *)

\* There is a step in s that sets a use for this flag.
SetStep(s, flag) == \E i \in 1..Len(s) : s[i].op = "set" /\ s[i].flag = flag

Sets(t, h, flag) == SetStep(todo[t], flag) /\ on[t][1] = h

Holds(h, flag, b) ==
    data[h] # None /\ Chunk(h) = b /\ flag \in loaded[h] /\ ~ Pending(h, flag)

\* The i-th step of s unsets uses that are set.
Due(s, i, b) ==
    /\ s[i].op = "unset" /\ s[i].b = b
    /\ i = 1 \/ s[i - 1].op # "set"

\* What a thread with these steps owes.
Owes(t, s, b) == {u \in {t} \X (1..Len(s)) \X {1, 2} :
    Due(s, Len(s) + 1 - u[2], b) /\ u[3] <= s[Len(s) + 1 - u[2]].n}

LEMMA PendingIs ==
    ASSUME NEW h, NEW flag
    PROVE  /\ Pending(h, flag) <=> \E t \in Thread : Sets(t, h, flag)
           /\ Pending(h, flag)' <=> \E t \in Thread : Sets(t, h, flag)'
<1>1. Pending(h, flag) <=> \E t \in Thread : Sets(t, h, flag)
  BY DEF Pending, Sets, SetStep
<1>2. Pending(h, flag)' <=> \E t \in Thread : Sets(t, h, flag)'
  BY DEF Pending, Sets, SetStep
<1> QED BY <1>1, <1>2

LEMMA HeldIs ==
    ASSUME NEW b
    PROVE  /\ \A u \in Held(b) : \E h \in Handle, f \in Flags : u = <<h, f>> /\ Holds(h, f, b)
           /\ \A h \in Handle, f \in Flags : <<h, f>> \in Held(b) <=> Holds(h, f, b)
           /\ \A u \in Held(b)' : \E h \in Handle, f \in Flags : u = <<h, f>> /\ Holds(h, f, b)'
           /\ \A h \in Handle, f \in Flags : <<h, f>> \in Held(b)' <=> Holds(h, f, b)'
<1>1. /\ \A u \in Held(b) : \E h \in Handle, f \in Flags : u = <<h, f>> /\ Holds(h, f, b)
      /\ \A h \in Handle, f \in Flags : <<h, f>> \in Held(b) <=> Holds(h, f, b)
  BY DEF Held, Holds
<1>2. /\ \A u \in Held(b)' : \E h \in Handle, f \in Flags : u = <<h, f>> /\ Holds(h, f, b)'
      /\ \A h \in Handle, f \in Flags : <<h, f>> \in Held(b)' <=> Holds(h, f, b)'
  BY DEF Held, Holds
<1> QED BY <1>1, <1>2

LEMMA OwedByIs ==
    ASSUME NEW t, NEW b
    PROVE  OwedBy(t, b) = Owes(t, todo[t], b) /\ OwedBy(t, b)' = Owes(t, todo'[t], b)
<1>1. OwedBy(t, b) = Owes(t, todo[t], b)
  BY DEF OwedBy, Owes, Due
<1>2. OwedBy(t, b)' = Owes(t, todo'[t], b)
  BY DEF OwedBy, Owes, Due
<1> QED BY <1>1, <1>2

LEMMA OwesIs ==
    ASSUME NEW t, NEW s, NEW b
    PROVE  /\ \A u \in Owes(t, s, b) : \E k \in 1..Len(s), m \in {1, 2} :
                  u = <<t, k, m>> /\ Due(s, Len(s) + 1 - k, b) /\ m <= s[Len(s) + 1 - k].n
           /\ \A k \in 1..Len(s), m \in {1, 2} :
                  <<t, k, m>> \in Owes(t, s, b) <=>
                      Due(s, Len(s) + 1 - k, b) /\ m <= s[Len(s) + 1 - k].n
           /\ \A k, m : <<t, k, m>> \in Owes(t, s, b) => k \in 1..Len(s) /\ m \in {1, 2}
<1> DEFINE n == Len(s)
           T == {t} \X (1..n) \X {1, 2}
<1>1. \A u \in T : \E k \in 1..n, m \in {1, 2} : u = <<t, k, m>>
  OBVIOUS
<1>2. \A k, m : <<t, k, m>> \in T <=> k \in 1..n /\ m \in {1, 2}
  OBVIOUS
<1>3. \A k, m : <<t, k, m>>[2] = k /\ <<t, k, m>>[3] = m
  OBVIOUS
<1>4. \A u : u \in Owes(t, s, b) <=> u \in T /\ Due(s, n + 1 - u[2], b) /\ u[3] <= s[n + 1 - u[2]].n
  BY DEF Owes
<1> HIDE DEF n, T
<1>5. ASSUME NEW u \in Owes(t, s, b)
      PROVE  \E k \in 1..n, m \in {1, 2} :
                 u = <<t, k, m>> /\ Due(s, n + 1 - k, b) /\ m <= s[n + 1 - k].n
  <2>1. PICK k \in 1..n, m \in {1, 2} : u = <<t, k, m>>
    BY <1>1, <1>4
  <2>2. u[2] = k /\ u[3] = m
    BY <1>3, <2>1
  <2>3. Due(s, n + 1 - k, b) /\ m <= s[n + 1 - k].n
    BY <1>4, <2>2
  <2> QED BY <2>1, <2>3
<1>6. ASSUME NEW k \in 1..n, NEW m \in {1, 2}
      PROVE  <<t, k, m>> \in Owes(t, s, b) <=> Due(s, n + 1 - k, b) /\ m <= s[n + 1 - k].n
  BY <1>2, <1>3, <1>4
<1>7. \A k, m : <<t, k, m>> \in Owes(t, s, b) => k \in 1..n /\ m \in {1, 2}
  BY <1>2, <1>4
<1> QED BY <1>5, <1>6, <1>7 DEF n

\* None, one or two of them.
LEMMA Pairs ==
    ASSUME NEW x, NEW y, x # y
    PROVE  /\ IsFiniteSet({}) /\ Cardinality({}) = 0
           /\ IsFiniteSet({x}) /\ Cardinality({x}) = 1
           /\ IsFiniteSet({x, y}) /\ Cardinality({x, y}) = 2
<1>1. IsFiniteSet({}) /\ Cardinality({}) = 0 /\ IsFiniteSet({x}) /\ Cardinality({x}) = 1
  BY FS_EmptySet, FS_Singleton
<1>2. {x, y} = {x} \cup {y} /\ y \notin {x}
  OBVIOUS
<1>3. IsFiniteSet({x} \cup {y}) /\ Cardinality({x} \cup {y}) = Cardinality({x}) + 1
  BY <1>1, <1>2, FS_AddElement
<1> QED BY <1>1, <1>2, <1>3

LEMMA HeldFinite ==
    ASSUME NEW b
    PROVE  /\ IsFiniteSet(Held(b)) /\ Cardinality(Held(b)) \in Nat
           /\ IsFiniteSet(Held(b)') /\ Cardinality(Held(b)') \in Nat
<1>1. IsFiniteSet(Handle \X Flags)
  <2>1. IsFiniteSet(Handle)
    BY HandleAssumption
  <2>2. Flags \in SUBSET Flags
    OBVIOUS
  <2>3. IsFiniteSet(Flags)
    BY <2>2, FlagSets
  <2> QED BY <2>1, <2>3, FS_Product
<1>2. Held(b) \subseteq Handle \X Flags /\ Held(b)' \subseteq Handle \X Flags
  BY DEF Held
<1>3. IsFiniteSet(Held(b)) /\ IsFiniteSet(Held(b)')
  BY <1>1, <1>2, FS_Subset
<1> QED BY <1>3, FS_CardinalityType

LEMMA OwesFinite ==
    ASSUME NEW t, NEW s \in Seq(Steps), NEW b
    PROVE  IsFiniteSet(Owes(t, s, b)) /\ Cardinality(Owes(t, s, b)) \in Nat
<1> DEFINE n == Len(s)
           P == (1..n) \X {1, 2}
           T == {t} \X (1..n) \X {1, 2}
           f == [q \in P |-> <<t, q[1], q[2]>>]
<1>1. IsFiniteSet({1, 2})
  <2>1. 1 # 2
    OBVIOUS
  <2> QED BY <2>1, Pairs
<1>2. IsFiniteSet(P)
  <2>1. n \in Int /\ 1 \in Int
    OBVIOUS
  <2>2. IsFiniteSet(1..n)
    BY <2>1, FS_Interval
  <2> QED BY <1>1, <2>2, FS_Product
<1>3. f \in Surjection(P, T)
  <2>1. f \in [P -> T]
    OBVIOUS
  <2>2. ASSUME NEW v \in T PROVE \E q \in P : f[q] = v
    <3>1. PICK k \in 1..n, m \in {1, 2} : v = <<t, k, m>>
      OBVIOUS
    <3>2. <<k, m>> \in P /\ f[<<k, m>>] = <<t, k, m>>
      OBVIOUS
    <3> QED BY <3>1, <3>2
  <2> QED BY <2>1, <2>2 DEF Surjection
<1>4. Owes(t, s, b) \subseteq T
  BY DEF Owes
<1> HIDE DEF P, T, f
<1>5. IsFiniteSet(T)
  BY <1>2, <1>3, FS_Surjection
<1>6. IsFiniteSet(Owes(t, s, b))
  BY <1>4, <1>5, FS_Subset
<1> QED BY <1>6, FS_CardinalityType

\* What the threads other than t will unset.
OthersOwe(t, b) == UNION {OwedBy(u, b) : u \in Thread \ {t}}

LEMMA OthersOweFinite ==
    ASSUME Typed, NEW t, NEW b
    PROVE  IsFiniteSet(OthersOwe(t, b))
<1> DEFINE S == Thread \ {t}
           T == {OwedBy(u, b) : u \in S}
           f == [u \in S |-> OwedBy(u, b)]
<1>1. IsFiniteSet(S)
  <2>1. IsFiniteSet(Thread) /\ S \subseteq Thread
    BY HandleAssumption
  <2> QED BY <2>1, FS_Subset
<1>2. f \in Surjection(S, T)
  BY DEF Surjection
<1>3. \A U \in T : IsFiniteSet(U)
  <2>1. \A u \in Thread : todo[u] \in Seq(Steps)
    BY DEF Typed
  <2> QED BY <2>1, OwedByIs, OwesFinite
<1> HIDE DEF S, T, f
<1>4. IsFiniteSet(T)
  BY <1>1, <1>2, FS_Surjection
<1>5. IsFiniteSet(UNION T)
  BY <1>3, <1>4, FS_UNION
<1> QED BY <1>5 DEF S, T, OthersOwe

\* What changes of what is owed is what thread t owes.
LEMMA OwedMoves ==
    ASSUME Typed, Typed', NEW t \in Thread, Others(t), NEW b
    PROVE  /\ Cardinality(OwedBy(t, b)) \in Nat /\ Cardinality(OwedBy(t, b)') \in Nat
           /\ Cardinality(Owed(b)) \in Nat
           /\ \E r \in Nat : /\ Cardinality(Owed(b)) = r + Cardinality(OwedBy(t, b))
                             /\ Cardinality(Owed(b)') = r + Cardinality(OwedBy(t, b)')
<1> DEFINE R == OthersOwe(t, b)
<1>1. IsFiniteSet(R) /\ Cardinality(R) \in Nat
  BY OthersOweFinite, FS_CardinalityType
<1>2. ASSUME NEW s \in Seq(Steps)
      PROVE  Cardinality(R \cup Owes(t, s, b)) = Cardinality(R) + Cardinality(Owes(t, s, b))
  <2> DEFINE O == Owes(t, s, b)
  <2>1. IsFiniteSet(O) /\ Cardinality(O) \in Nat
    BY OwesFinite
  <2>2. R \cap O = {}
    <3>1. SUFFICES ASSUME NEW v \in O, v \in R PROVE FALSE
      OBVIOUS
    <3>2. PICK u \in Thread \ {t} : v \in OwedBy(u, b)
      BY <3>1 DEF OthersOwe
    <3>3. \E k, m, i, j : v = <<t, k, m>> /\ v = <<u, i, j>>
      BY <3>2, OwedByIs, OwesIs
    <3> QED BY <3>3
  <2> HIDE DEF R, O
  <2>3. Cardinality(R \cup O) = Cardinality(R) + Cardinality(O) - Cardinality(R \cap O)
    BY <1>1, <2>1, FS_Union
  <2>4. Cardinality(R \cap O) = 0
    BY <2>2, FS_EmptySet
  <2>5. Cardinality(R \cup O) = Cardinality(R) + Cardinality(O)
    BY <1>1, <2>1, <2>3, <2>4
  <2> QED BY <2>5 DEF O
<1>3. Owed(b) = R \cup Owes(t, todo[t], b)
  BY OwedByIs DEF Owed, OthersOwe
<1>4. Owed(b)' = R \cup Owes(t, todo'[t], b)
  <2>1. \A u \in Thread \ {t} : OwedBy(u, b)' = OwedBy(u, b)
    BY OwedByIs DEF Others
  <2>2. Owed(b)' = UNION {OwedBy(u, b)' : u \in Thread}
    BY DEF Owed
  <2>3. OwedBy(t, b)' = Owes(t, todo'[t], b)
    BY OwedByIs
  <2> QED BY <2>1, <2>2, <2>3 DEF OthersOwe
<1> HIDE DEF R
<1>5. todo[t] \in Seq(Steps) /\ todo'[t] \in Seq(Steps)
  BY DEF Typed
<1>6. /\ Cardinality(Owes(t, todo[t], b)) \in Nat /\ Cardinality(Owes(t, todo'[t], b)) \in Nat
      /\ Cardinality(Owed(b)) = Cardinality(R) + Cardinality(Owes(t, todo[t], b))
      /\ Cardinality(Owed(b)') = Cardinality(R) + Cardinality(Owes(t, todo'[t], b))
  BY <1>2, <1>3, <1>4, <1>5, OwesFinite
<1> QED BY <1>1, <1>6, OwedByIs

\* The count of a chunk moves as much as its uses do.
LEMMA Balance ==
    ASSUME Typed, Typed', NEW t \in Thread, Others(t), NEW b \in Block, NEW d \in Int,
           useCnt[b] = Cardinality(Held(b)) + Cardinality(Owed(b)),
           useCnt'[b] = useCnt[b] + d,
           Cardinality(Held(b)') + Cardinality(Owes(t, todo'[t], b))
               = Cardinality(Held(b)) + Cardinality(Owes(t, todo[t], b)) + d
    PROVE  useCnt'[b] = Cardinality(Held(b)') + Cardinality(Owed(b)')
<1>1. /\ Cardinality(Owes(t, todo[t], b)) \in Nat /\ Cardinality(Owes(t, todo'[t], b)) \in Nat
      /\ \E r \in Nat : /\ Cardinality(Owed(b)) = r + Cardinality(Owes(t, todo[t], b))
                        /\ Cardinality(Owed(b)') = r + Cardinality(Owes(t, todo'[t], b))
  BY OwedMoves, OwedByIs
<1>2. Cardinality(Held(b)) \in Nat /\ Cardinality(Held(b)') \in Nat
  BY HeldFinite
<1> QED BY <1>1, <1>2
-----------------------------------------------------------------------------
(* A thread makes a step.                                                  *)

\* q are the steps left of s when its first is made, or waits under another name.
Rest(q, s) ==
    \/ Len(q) = Len(s) - 1 /\ \A i \in 1..Len(q) : q[i] = s[i + 1]
    \/ /\ Len(q) = Len(s) /\ q[1].op \in {"await", "pffree"}
       /\ \A i \in 2..Len(q) : q[i] = s[i]

\* That the k-th step from the end unsets what is set, before the first step of s
\* is made, and after it.
Before(s, k, b, m) == \E i \in 1..Len(s) :
    /\ i = Len(s) + 1 - k /\ s[i].op = "unset" /\ s[i].b = b /\ m <= s[i].n
    /\ i = 1 \/ s[i - 1].op # "set"

After(s, k, b, m) == \E i \in 2..Len(s) :
    /\ i = Len(s) + 1 - k /\ s[i].op = "unset" /\ s[i].b = b /\ m <= s[i].n
    /\ i = 2 \/ s[i - 1].op # "set"

SetsLater(s, flag) == \E i \in 2..Len(s) : s[i].op = "set" /\ s[i].flag = flag

LEMMA RestSets ==
    ASSUME NEW s \in Seq(Steps), NEW q \in Seq(Steps), Len(s) > 0, Rest(q, s), NEW f
    PROVE  SetStep(q, f) <=> SetsLater(s, f)
<1> DEFINE n == Len(s)
           l == Len(q)
<1>1. n \in Nat \ {0} /\ l \in Nat
  OBVIOUS
<1>2. SetStep(q, f) <=> \E i \in 1..l : q[i].op = "set" /\ q[i].flag = f
  BY DEF SetStep
<1>3. SetsLater(s, f) <=> \E i \in 2..n : s[i].op = "set" /\ s[i].flag = f
  BY DEF SetsLater
<1>4. \/ l = n - 1 /\ \A i \in 1..l : q[i] = s[i + 1]
      \/ l = n /\ q[1].op \in {"await", "pffree"} /\ \A i \in 2..l : q[i] = s[i]
  BY DEF Rest
<1> HIDE DEF n, l
<1>5. CASE l = n - 1 /\ \A i \in 1..l : q[i] = s[i + 1]
  <2>1. ASSUME NEW i \in 1..l PROVE i + 1 \in 2..n /\ q[i] = s[i + 1]
    BY <1>1, <1>5, <2>1
  <2>2. ASSUME NEW i \in 2..n PROVE i - 1 \in 1..l /\ q[i - 1] = s[i]
    <3>1. i - 1 \in 1..l /\ (i - 1) + 1 = i
      BY <1>1, <1>5, <2>2
    <3> QED BY <1>5, <3>1
  <2> QED BY <1>2, <1>3, <2>1, <2>2
<1>6. CASE l = n /\ q[1].op \in {"await", "pffree"} /\ \A i \in 2..l : q[i] = s[i]
  <2>1. \A i \in 1..l : i = 1 \/ i \in 2..n
    BY <1>1, <1>6
  <2>2. \A i \in 2..n : i \in 1..l /\ q[i] = s[i]
    BY <1>1, <1>6
  <2>3. q[1].op # "set"
    BY <1>6
  <2> QED BY <1>2, <1>3, <2>1, <2>2, <2>3
<1> QED BY <1>4, <1>5, <1>6

\* What a thread owes are tokens, and sets of them are compared by what they hold.
Tokens(A, t, n) == \A u \in A : \E k \in 1..n, m \in {1, 2} : u = <<t, k, m>>

LEMMA SameTokens ==
    ASSUME NEW A, NEW B, NEW t, NEW n, Tokens(A, t, n), Tokens(B, t, n),
           \A k \in 1..n, m \in {1, 2} : <<t, k, m>> \in A <=> <<t, k, m>> \in B
    PROVE  A = B
<1>1. ASSUME NEW u \in A PROVE u \in B
  <2>1. PICK k \in 1..n, m \in {1, 2} : u = <<t, k, m>>
    BY <1>1 DEF Tokens
  <2> QED BY <1>1, <2>1
<1>2. ASSUME NEW u \in B PROVE u \in A
  <2>1. PICK k \in 1..n, m \in {1, 2} : u = <<t, k, m>>
    BY <1>2 DEF Tokens
  <2> QED BY <1>2, <2>1
<1> QED BY <1>1, <1>2

LEMMA BeforeIs ==
    ASSUME NEW s \in Seq(Steps), NEW t, NEW b
    PROVE  /\ Tokens(Owes(t, s, b), t, Len(s))
           /\ \A k \in 1..Len(s), m \in {1, 2} : <<t, k, m>> \in Owes(t, s, b) <=> Before(s, k, b, m)
<1> DEFINE n == Len(s)
<1>1. n \in Nat
  OBVIOUS
<1>2. /\ \A u \in Owes(t, s, b) : \E k \in 1..n, m \in {1, 2} : u = <<t, k, m>>
      /\ \A k \in 1..n, m \in {1, 2} :
             <<t, k, m>> \in Owes(t, s, b) <=> Due(s, n + 1 - k, b) /\ m <= s[n + 1 - k].n
  BY OwesIs
<1>3. \A k, m : Before(s, k, b, m) <=> \E i \in 1..n :
          i = n + 1 - k /\ Due(s, i, b) /\ m <= s[i].n
  BY DEF Before, Due
<1> HIDE DEF n
<1>4. \A k \in 1..n : n + 1 - k \in 1..n
  BY <1>1
<1>5. \A k \in 1..n, m \in {1, 2} : <<t, k, m>> \in Owes(t, s, b) <=> Before(s, k, b, m)
  BY <1>2, <1>3, <1>4
<1> QED BY <1>2, <1>5 DEF n, Tokens

\* What is owed after the step, in terms of the steps before it.
LEMMA RestOwes ==
    ASSUME NEW s \in Seq(Steps), NEW q \in Seq(Steps), Len(s) > 0, Rest(q, s), NEW t, NEW b
    PROVE  /\ Tokens(Owes(t, q, b), t, Len(s))
           /\ \A k \in 1..Len(s), m \in {1, 2} : <<t, k, m>> \in Owes(t, q, b) <=> After(s, k, b, m)
<1> DEFINE n == Len(s)
           l == Len(q)
<1>1. n \in Nat \ {0} /\ l \in Nat
  OBVIOUS
<1>2. \/ l = n - 1 /\ \A i \in 1..l : q[i] = s[i + 1]
      \/ l = n /\ q[1].op \in {"await", "pffree"} /\ \A i \in 2..l : q[i] = s[i]
  BY DEF Rest
<1>3. /\ \A u \in Owes(t, q, b) : \E k \in 1..l, m \in {1, 2} : u = <<t, k, m>>
      /\ \A k \in 1..l, m \in {1, 2} :
             <<t, k, m>> \in Owes(t, q, b) <=> Due(q, l + 1 - k, b) /\ m <= q[l + 1 - k].n
      /\ \A k, m : <<t, k, m>> \in Owes(t, q, b) => k \in 1..l
  BY OwesIs
<1>4. \A k, m : After(s, k, b, m) <=> \E i \in 2..n :
          /\ i = n + 1 - k /\ s[i].op = "unset" /\ s[i].b = b /\ m <= s[i].n
          /\ i = 2 \/ s[i - 1].op # "set"
  BY DEF After
<1> HIDE DEF n, l
<1>5. \A k \in 1..l : k \in 1..n
  BY <1>1, <1>2
<1>6. ASSUME NEW k \in 1..n, NEW m \in {1, 2}
      PROVE  <<t, k, m>> \in Owes(t, q, b) <=> After(s, k, b, m)
  <2> DEFINE i == n + 1 - k
             j == l + 1 - k
  <2>1. i \in 1..n
    BY <1>1, <1>6
  <2>2. After(s, k, b, m) <=> /\ i \in 2..n
                              /\ s[i].op = "unset" /\ s[i].b = b /\ m <= s[i].n
                              /\ i = 2 \/ s[i - 1].op # "set"
    BY <1>4
  <2>3. <<t, k, m>> \in Owes(t, q, b) <=> k \in 1..l /\ Due(q, j, b) /\ m <= q[j].n
    BY <1>3
  <2>4. CASE l = n - 1 /\ \A x \in 1..l : q[x] = s[x + 1]
    <3>1. k \in 1..l <=> i \in 2..n
      BY <1>1, <1>6, <2>4
    <3>2. ASSUME i \in 2..n
          PROVE  /\ q[j] = s[i] /\ (j = 1 <=> i = 2)
                 /\ i # 2 => q[j - 1] = s[i - 1]
      <4>1. j \in 1..l /\ j + 1 = i /\ (j = 1 <=> i = 2)
        BY <1>1, <1>6, <2>4, <3>2
      <4>2. i # 2 => j - 1 \in 1..l /\ (j - 1) + 1 = i - 1
        BY <1>1, <1>6, <2>4, <3>2
      <4> HIDE DEF i, j
      <4>3. q[j] = s[i]
        BY <2>4, <4>1
      <4>4. i # 2 => q[j - 1] = s[i - 1]
        BY <2>4, <4>2
      <4> QED BY <4>1, <4>3, <4>4
    <3> HIDE DEF i, j
    <3> QED BY <2>2, <2>3, <3>1, <3>2 DEF Due
  <2>5. CASE l = n /\ q[1].op \in {"await", "pffree"} /\ \A x \in 2..l : q[x] = s[x]
    <3>1. k \in 1..l /\ j = i
      BY <1>6, <2>5
    <3>2. i = 1 \/ i \in 2..n
      BY <1>1, <2>1
    <3>3. i \in 2..n => q[i] = s[i] /\ i # 1
      BY <2>5
    <3>4. i \in 2..n /\ i # 2 => i - 1 \in 2..n /\ q[i - 1] = s[i - 1]
      <4>1. i \in 2..n /\ i # 2 => i - 1 \in 2..n
        BY <1>1, <2>1
      <4> HIDE DEF i
      <4> QED BY <2>5, <4>1
    <3>5. i = 2 => i - 1 = 1
      OBVIOUS
    <3>6. 1 \notin 2..n
      BY <1>1
    <3>7. q[1].op # "unset" /\ q[1].op # "set"
      BY <2>5
    <3> HIDE DEF i, j
    <3> QED BY <2>2, <2>3, <3>1, <3>2, <3>3, <3>4, <3>5, <3>6, <3>7 DEF Due
  <2> QED BY <1>2, <2>4, <2>5
<1>7. Tokens(Owes(t, q, b), t, n)
  BY <1>3, <1>5 DEF Tokens
<1> QED BY <1>6, <1>7 DEF n

\* Before and after differ at the first two steps.
LEMMA FirstSteps ==
    ASSUME NEW s \in Seq(Steps), Len(s) > 0, NEW b, NEW k \in 1..Len(s), NEW m \in {1, 2}
    PROVE  Before(s, k, b, m) <=>
               \/ k = Len(s) /\ s[1].op = "unset" /\ s[1].b = b /\ m <= s[1].n
               \/ After(s, k, b, m) /\ (k = Len(s) - 1 => s[1].op # "set")
<1> DEFINE n == Len(s)
           i == n + 1 - k
           due == s[i].op = "unset" /\ s[i].b = b /\ m <= s[i].n
<1>1. n \in Nat \ {0}
  OBVIOUS
<1>2. Before(s, k, b, m) <=> i \in 1..n /\ due /\ (i = 1 \/ s[i - 1].op # "set")
  BY DEF Before
<1>3. After(s, k, b, m) <=> i \in 2..n /\ due /\ (i = 2 \/ s[i - 1].op # "set")
  BY DEF After
<1> HIDE DEF n, due
<1>4. k \in 1..n
  BY DEF n
<1>5. /\ i \in 1..n /\ (i = 1 \/ i \in 2..n) /\ 1 \notin 2..n
      /\ i = 1 <=> k = n
      /\ i = 2 <=> k = n - 1
      /\ i = 2 => i - 1 = 1
  BY <1>1, <1>4
<1>6. i = 1 => (due <=> s[1].op = "unset" /\ s[1].b = b /\ m <= s[1].n)
  BY DEF due
<1> HIDE DEF i
<1>7. i \in 2..n => i # 1
  BY <1>5
<1>8. Before(s, k, b, m) <=>
          \/ k = n /\ s[1].op = "unset" /\ s[1].b = b /\ m <= s[1].n
          \/ After(s, k, b, m) /\ (k = n - 1 => s[1].op # "set")
  <2>1. CASE i = 1
    BY <1>2, <1>3, <1>5, <1>6, <2>1
  <2>2. CASE i = 2
    <3>1. k = n - 1 /\ k # n /\ i - 1 = 1 /\ i \in 2..n
      BY <1>5, <2>2
    <3> QED BY <1>2, <1>3, <1>5, <2>2, <3>1
  <2>3. CASE i # 1 /\ i # 2
    BY <1>2, <1>3, <1>5, <2>3
  <2> QED BY <2>1, <2>2, <2>3
<1> QED BY <1>8 DEF n

LEMMA FirstSet ==
    ASSUME NEW s \in Seq(Steps), Len(s) > 0, NEW f
    PROVE  SetStep(s, f) <=> (s[1].op = "set" /\ s[1].flag = f) \/ SetsLater(s, f)
<1> DEFINE n == Len(s)
<1>1. n \in Nat \ {0}
  OBVIOUS
<1>2. /\ SetStep(s, f) <=> \E i \in 1..n : s[i].op = "set" /\ s[i].flag = f
      /\ SetsLater(s, f) <=> \E i \in 2..n : s[i].op = "set" /\ s[i].flag = f
  BY DEF SetStep, SetsLater
<1> HIDE DEF n
<1>3. 1 \in 1..n /\ \A i : i \in 1..n <=> i = 1 \/ i \in 2..n
  BY <1>1
<1> QED BY <1>2, <1>3

\* Any step but set and unset.
LEMMA RestPlain ==
    ASSUME NEW s \in Seq(Steps), NEW q \in Seq(Steps), Len(s) > 0, Rest(q, s),
           s[1].op \notin {"set", "unset"}, NEW t
    PROVE  /\ \A b : Owes(t, q, b) = Owes(t, s, b)
           /\ \A f : SetStep(q, f) <=> SetStep(s, f)
<1>1. ASSUME NEW b PROVE Owes(t, q, b) = Owes(t, s, b)
  <2>1. ASSUME NEW k \in 1..Len(s), NEW m \in {1, 2}
        PROVE  <<t, k, m>> \in Owes(t, q, b) <=> <<t, k, m>> \in Owes(t, s, b)
    BY RestOwes, BeforeIs, FirstSteps
  <2>2. Tokens(Owes(t, q, b), t, Len(s)) /\ Tokens(Owes(t, s, b), t, Len(s))
    BY RestOwes, BeforeIs
  <2> QED BY <2>1, <2>2, SameTokens
<1>2. \A f : SetStep(q, f) <=> SetStep(s, f)
  BY RestSets, FirstSet
<1> QED BY <1>1, <1>2

\* A use is unset: this is no longer owed.
LEMMA RestUnset ==
    ASSUME NEW s \in Seq(Steps), NEW q \in Seq(Steps), Len(s) > 0, Rest(q, s),
           s[1].op = "unset", NEW t
    PROVE  /\ \A b : b # s[1].b => Owes(t, q, b) = Owes(t, s, b)
           /\ Cardinality(Owes(t, s, s[1].b)) = Cardinality(Owes(t, q, s[1].b)) + s[1].n
           /\ \A f : SetStep(q, f) <=> SetStep(s, f)
<1> DEFINE n == Len(s)
<1>1. n \in Nat \ {0}
  OBVIOUS
<1>2. s[1] \in Steps /\ s[1].n \in {1, 2}
  <2>1. s[1] \in Steps
    OBVIOUS
  <2> QED BY <2>1, StepKinds
<1>3. ASSUME NEW b, NEW k \in 1..n, NEW m \in {1, 2}
      PROVE  /\ <<t, k, m>> \in Owes(t, s, b) <=>
                    <<t, k, m>> \in Owes(t, q, b) \/ (k = n /\ b = s[1].b /\ m <= s[1].n)
             /\ k = n => <<t, k, m>> \notin Owes(t, q, b)
  <2>1. <<t, k, m>> \in Owes(t, q, b) <=> After(s, k, b, m)
    BY RestOwes
  <2>2. <<t, k, m>> \in Owes(t, s, b) <=> Before(s, k, b, m)
    BY BeforeIs
  <2>3. Before(s, k, b, m) <=> \/ k = n /\ s[1].op = "unset" /\ s[1].b = b /\ m <= s[1].n
                               \/ After(s, k, b, m) /\ (k = n - 1 => s[1].op # "set")
    BY FirstSteps
  <2>4. k = n => ~ After(s, k, b, m)
    <3>1. \A i \in 2..n : i # n + 1 - n
      BY <1>1
    <3> QED BY <3>1 DEF After
  <2> HIDE DEF n
  <2> QED BY <2>1, <2>2, <2>3, <2>4
<1>4. \A b : Tokens(Owes(t, q, b), t, n) /\ Tokens(Owes(t, s, b), t, n)
  BY RestOwes, BeforeIs
<1>5. n \in 1..n
  BY <1>1
<1>6. ASSUME NEW b, b # s[1].b PROVE Owes(t, q, b) = Owes(t, s, b)
  <2>1. \A k \in 1..n, m \in {1, 2} : <<t, k, m>> \in Owes(t, q, b) <=> <<t, k, m>> \in Owes(t, s, b)
    BY <1>3, <1>6
  <2> HIDE DEF n
  <2> QED BY <1>4, <2>1, SameTokens
<1>7. Cardinality(Owes(t, s, s[1].b)) = Cardinality(Owes(t, q, s[1].b)) + s[1].n
  <2> DEFINE b == s[1].b
             Q == Owes(t, q, b)
             S == Owes(t, s, b)
             x == <<t, n, 1>>
             y == <<t, n, 2>>
  <2>1. IsFiniteSet(Q) /\ x # y
    BY OwesFinite
  <2>2. x \notin Q /\ y \notin Q
    BY <1>3, <1>5
  <2>3. \A k \in 1..n, m \in {1, 2} :
            <<t, k, m>> \in S <=> <<t, k, m>> \in Q \/ (k = n /\ m <= s[1].n)
    BY <1>3
  <2>4. Tokens(Q, t, n) /\ Tokens(S, t, n)
    BY <1>4
  <2> HIDE DEF n, Q, S, b
  <2>5. IsFiniteSet(Q \cup {x}) /\ Cardinality(Q \cup {x}) = Cardinality(Q) + 1
    <3> HIDE DEF x
    <3> QED BY <2>1, <2>2, FS_AddElement
  <2>6. Cardinality((Q \cup {x}) \cup {y}) = Cardinality(Q \cup {x}) + 1
    <3>1. y \notin Q \cup {x}
      BY <2>1, <2>2
    <3> HIDE DEF x, y
    <3> QED BY <2>5, <3>1, FS_AddElement
  <2>7. CASE s[1].n = 1
    <3>1. \A k \in 1..n, m \in {1, 2} : <<t, k, m>> \in S <=> <<t, k, m>> \in Q \cup {x}
      <4>1. \A k \in 1..n, m \in {1, 2} : (k = n /\ m <= 1) <=> <<t, k, m>> = x
        OBVIOUS
      <4> QED BY <2>3, <2>7, <4>1
    <3>2. Tokens(Q \cup {x}, t, n)
      BY <1>5, <2>4 DEF Tokens
    <3>3. S = Q \cup {x}
      <4> HIDE DEF x
      <4> QED BY <2>4, <3>1, <3>2, SameTokens
    <3> QED BY <2>5, <2>7, <3>3 DEF S, Q, b
  <2>8. CASE s[1].n = 2
    <3>1. \A k \in 1..n, m \in {1, 2} : <<t, k, m>> \in S <=> <<t, k, m>> \in (Q \cup {x}) \cup {y}
      <4>1. \A k \in 1..n, m \in {1, 2} :
                (k = n /\ m <= 2) <=> <<t, k, m>> = x \/ <<t, k, m>> = y
        OBVIOUS
      <4> QED BY <2>3, <2>8, <4>1
    <3>2. Tokens((Q \cup {x}) \cup {y}, t, n)
      BY <1>5, <2>4 DEF Tokens
    <3>3. S = (Q \cup {x}) \cup {y}
      <4> HIDE DEF x, y
      <4> QED BY <2>4, <3>1, <3>2, SameTokens
    <3>4. Cardinality(Q) \in Nat
      BY <2>1, FS_CardinalityType
    <3>5. Cardinality(S) = Cardinality(Q) + 2
      BY <2>5, <2>6, <3>3, <3>4
    <3> QED BY <2>8, <3>5 DEF S, Q, b
  <2> QED BY <1>2, <2>7, <2>8
<1>8. \A f : SetStep(q, f) <=> SetStep(s, f)
  BY RestSets, FirstSet
<1> QED BY <1>6, <1>7, <1>8

\* A use is set: if it is unset by the next step, it is owed from now on.
LEMMA RestSet ==
    ASSUME NEW s \in Seq(Steps), NEW q \in Seq(Steps), Len(s) > 0, Rest(q, s),
           s[1].op = "set", NEW t
    PROVE  /\ \A b : Len(s) = 1 \/ s[2].op # "unset" \/ s[2].b # b => Owes(t, q, b) = Owes(t, s, b)
           /\ Len(s) > 1 /\ s[2].op = "unset" /\ s[2].n = 1 =>
                  Cardinality(Owes(t, q, s[2].b)) = Cardinality(Owes(t, s, s[2].b)) + 1
           /\ \A f : SetStep(s, f) <=> f = s[1].flag \/ SetStep(q, f)
<1> DEFINE n == Len(s)
<1>1. n \in Nat \ {0}
  OBVIOUS
<1>2. ASSUME NEW b, NEW k \in 1..n, NEW m \in {1, 2}
      PROVE  /\ <<t, k, m>> \in Owes(t, q, b) <=> After(s, k, b, m)
             /\ <<t, k, m>> \in Owes(t, s, b) <=> After(s, k, b, m) /\ k # n - 1
             /\ k = n - 1 =>
                    (After(s, k, b, m) <=> n > 1 /\ s[2].op = "unset" /\ s[2].b = b /\ m <= s[2].n)
  <2>1. <<t, k, m>> \in Owes(t, q, b) <=> After(s, k, b, m)
    BY RestOwes
  <2>2. <<t, k, m>> \in Owes(t, s, b) <=> Before(s, k, b, m)
    BY BeforeIs
  <2>3. Before(s, k, b, m) <=> After(s, k, b, m) /\ (k = n - 1 => s[1].op # "set")
    BY FirstSteps
  <2>4. k = n - 1 => n + 1 - k = 2 /\ (2 \in 2..n <=> n > 1)
    BY <1>1
  <2>5. After(s, k, b, m) <=> \E i \in 2..n :
            /\ i = n + 1 - k /\ s[i].op = "unset" /\ s[i].b = b /\ m <= s[i].n
            /\ i = 2 \/ s[i - 1].op # "set"
    BY DEF After
  <2> HIDE DEF n
  <2>6. k = n - 1 =>
            (After(s, k, b, m) <=> n > 1 /\ s[2].op = "unset" /\ s[2].b = b /\ m <= s[2].n)
    BY <2>4, <2>5
  <2> QED BY <2>1, <2>2, <2>3, <2>6
<1>3. \A b : Tokens(Owes(t, q, b), t, n) /\ Tokens(Owes(t, s, b), t, n)
  BY RestOwes, BeforeIs
<1>4. ASSUME NEW b, n = 1 \/ s[2].op # "unset" \/ s[2].b # b
      PROVE  Owes(t, q, b) = Owes(t, s, b)
  <2>1. ASSUME NEW k \in 1..n, NEW m \in {1, 2}
        PROVE  <<t, k, m>> \in Owes(t, q, b) <=> <<t, k, m>> \in Owes(t, s, b)
    <3>1. CASE k = n - 1
      <4>1. ~ (n > 1 /\ s[2].op = "unset" /\ s[2].b = b)
        BY <1>1, <1>4
      <4> HIDE DEF n
      <4> QED BY <1>2, <3>1, <4>1
    <3>2. CASE k # n - 1
      <4> HIDE DEF n
      <4> QED BY <1>2, <3>2
    <3> QED BY <3>1, <3>2
  <2> HIDE DEF n
  <2> QED BY <1>3, <2>1, SameTokens
<1>5. ASSUME n > 1, s[2].op = "unset", s[2].n = 1
      PROVE  Cardinality(Owes(t, q, s[2].b)) = Cardinality(Owes(t, s, s[2].b)) + 1
  <2> DEFINE b == s[2].b
             Q == Owes(t, q, b)
             S == Owes(t, s, b)
             x == <<t, n - 1, 1>>
  <2>1. IsFiniteSet(S)
    BY OwesFinite
  <2>2. n - 1 \in 1..n
    BY <1>1, <1>5
  <2>3. \A k \in 1..n, m \in {1, 2} :
            <<t, k, m>> \in Q <=> <<t, k, m>> \in S \/ (k = n - 1 /\ m <= 1)
    BY <1>2, <1>5
  <2>4. Tokens(Q, t, n) /\ Tokens(S, t, n)
    BY <1>3
  <2>5. x \notin S
    BY <1>2, <2>2
  <2> HIDE DEF n, Q, S, b
  <2>6. \A k \in 1..n, m \in {1, 2} : <<t, k, m>> \in Q <=> <<t, k, m>> \in S \cup {x}
    <3>1. \A k \in 1..n, m \in {1, 2} : (k = n - 1 /\ m <= 1) <=> <<t, k, m>> = x
      OBVIOUS
    <3> QED BY <2>3, <3>1
  <2>7. Tokens(S \cup {x}, t, n)
    BY <2>2, <2>4 DEF Tokens
  <2> HIDE DEF x
  <2>8. Q = S \cup {x}
    BY <2>4, <2>6, <2>7, SameTokens
  <2>9. Cardinality(S \cup {x}) = Cardinality(S) + 1
    BY <2>1, <2>5, FS_AddElement
  <2> QED BY <2>8, <2>9 DEF Q, S, b
<1>6. \A f : SetStep(s, f) <=> f = s[1].flag \/ SetStep(q, f)
  BY RestSets, FirstSet
<1> QED BY <1>4, <1>5, <1>6
-----------------------------------------------------------------------------
(* The uses handles hold.                                                  *)

\* A thread other than t has still to set this use.
PendingElse(t, h, flag) == \E u \in Thread \ {t} : Sets(u, h, flag)

LEMMA PendingMoves ==
    ASSUME NEW t \in Thread, Others(t), NEW h, NEW f
    PROVE  /\ Pending(h, f) <=> Sets(t, h, f) \/ PendingElse(t, h, f)
           /\ Pending(h, f)' <=> Sets(t, h, f)' \/ PendingElse(t, h, f)
<1>1. Pending(h, f) <=> Sets(t, h, f) \/ PendingElse(t, h, f)
  BY PendingIs DEF PendingElse
<1>2. \A u \in Thread \ {t} : Sets(u, h, f)' <=> Sets(u, h, f)
  BY DEF Others, Sets
<1>3. Pending(h, f)' <=> Sets(t, h, f)' \/ PendingElse(t, h, f)
  BY <1>2, PendingIs DEF PendingElse
<1> QED BY <1>1, <1>3

LEMMA NoSets ==
    ASSUME NEW t, NEW h, NEW f
    PROVE  /\ todo[t] = <<>> => ~ Sets(t, h, f)
           /\ todo'[t] = <<>> => ~ Sets(t, h, f)'
           /\ on[t][1] # h => ~ Sets(t, h, f)
           /\ on'[t][1] # h => ~ Sets(t, h, f)'
<1>1. Len(<<>>) = 0 /\ 1..0 = {}
  OBVIOUS
<1>2. ~ SetStep(<<>>, f)
  BY <1>1 DEF SetStep
<1> QED BY <1>2 DEF Sets

\* A thread works for x, before its step and after it.
WorksFor(t, x) == /\ todo[t] # <<>> => on[t][1] = x
                  /\ todo'[t] # <<>> => on'[t][1] = x

\* Handles but the one it works for hold what they held.
LEMMA HoldsBut ==
    ASSUME NEW t \in Thread, Others(t), NEW x, KeepsBut(x), WorksFor(t, x),
           NEW h \in Handle \ {x}, NEW f, NEW b
    PROVE  Holds(h, f, b)' <=> Holds(h, f, b)
<1>1. ~ Sets(t, h, f) /\ ~ Sets(t, h, f)'
  BY NoSets DEF WorksFor
<1>2. Pending(h, f)' <=> Pending(h, f)
  BY <1>1, PendingMoves
<1>3. data'[h] = data[h] /\ loaded'[h] = loaded[h] /\ (data[h] # None => ptr'[data[h]] = ptr[data[h]])
  BY DEF KeepsBut
<1>4. data[h] # None => Chunk(h)' = Chunk(h)
  BY <1>3 DEF Chunk
<1> QED BY <1>2, <1>3, <1>4 DEF Holds

LEMMA HeldSame ==
    ASSUME NEW b, \A h \in Handle, f \in Flags : Holds(h, f, b)' <=> Holds(h, f, b)
    PROVE  Held(b)' = Held(b)
<1>1. ASSUME NEW u \in Held(b) PROVE u \in Held(b)'
  <2>1. PICK h \in Handle, f \in Flags : u = <<h, f>> /\ Holds(h, f, b)
    BY HeldIs
  <2> QED BY <2>1, HeldIs
<1>2. ASSUME NEW u \in Held(b)' PROVE u \in Held(b)
  <2>1. PICK h \in Handle, f \in Flags : u = <<h, f>> /\ Holds(h, f, b)'
    BY HeldIs
  <2> QED BY <2>1, HeldIs
<1> QED BY <1>1, <1>2

\* So does the handle it works for, ...
HoldsAlike(x) == \A f \in Flags, b \in Block : Holds(x, f, b)' <=> Holds(x, f, b)

LEMMA HeldAlike ==
    ASSUME NEW t \in Thread, Others(t), NEW x, KeepsBut(x), WorksFor(t, x),
           x \in Handle => HoldsAlike(x), NEW b \in Block
    PROVE  Held(b)' = Held(b)
<1>1. ASSUME NEW h \in Handle, NEW f \in Flags PROVE Holds(h, f, b)' <=> Holds(h, f, b)
  <2>1. CASE h = x
    BY <2>1 DEF HoldsAlike
  <2>2. CASE h # x
    BY <2>2, HoldsBut
  <2> QED BY <2>1, <2>2
<1> QED BY <1>1, HeldSame

\* ... if it is the same handle with the same steps that set uses, ...
LEMMA AlikeStays ==
    ASSUME NEW t \in Thread, Others(t), NEW x \in Handle, UNCHANGED objects,
           \A f : Sets(t, x, f)' <=> Sets(t, x, f)
    PROVE  HoldsAlike(x)
<1>1. ASSUME NEW f, NEW b PROVE Holds(x, f, b)' <=> Holds(x, f, b)
  <2>1. Pending(x, f)' <=> Pending(x, f)
    BY PendingMoves
  <2>2. Chunk(x)' = Chunk(x)
    BY DEF Chunk, objects
  <2> QED BY <2>1, <2>2 DEF Holds, objects
<1> QED BY <1>1 DEF HoldsAlike

\* ... or if it has none before and after.
LEMMA AlikeNone ==
    ASSUME NEW x \in Handle, loaded[x] = {},
           \A f \in Flags : f \notin loaded'[x] \/ Pending(x, f)'
    PROVE  HoldsAlike(x)
<1>1. ASSUME NEW f \in Flags, NEW b PROVE ~ Holds(x, f, b)' /\ ~ Holds(x, f, b)
  BY DEF Holds
<1> QED BY <1>1 DEF HoldsAlike

\* What is held and owed stays, and so does the count.
LEMMA CountStays ==
    ASSUME Typed, Typed', NEW t \in Thread, Others(t), UseCounted, UNCHANGED useCnt,
           useCnt \in [Block -> Int],
           \A b \in Block : Held(b)' = Held(b),
           \A b \in Block : Owes(t, todo'[t], b) = Owes(t, todo[t], b)
    PROVE  UseCounted'
<1>1. ASSUME NEW b \in Block PROVE useCnt'[b] = Cardinality(Held(b)') + Cardinality(Owed(b)')
  <2>1. Held(b)' = Held(b) /\ Owes(t, todo'[t], b) = Owes(t, todo[t], b)
    OBVIOUS
  <2>2. 0 \in Int /\ useCnt'[b] = useCnt[b] + 0
    OBVIOUS
  <2>3. Cardinality(Held(b)') + Cardinality(Owes(t, todo'[t], b))
            = Cardinality(Held(b)) + Cardinality(Owes(t, todo[t], b)) + 0
    <3>1. Cardinality(Held(b)) \in Nat /\ Cardinality(Owes(t, todo[t], b)) \in Nat
      BY HeldFinite, OwedMoves, OwedByIs
    <3> QED BY <2>1, <3>1
  <2>4. useCnt[b] = Cardinality(Held(b)) + Cardinality(Owed(b))
    BY DEF UseCounted
  <2> QED BY <2>2, <2>3, <2>4, Balance
<1> QED BY <1>1 DEF UseCounted

\* Steps of a sequence that unset what is set by the step before.
Quiet(q) == \A i \in 1..Len(q) : q[i].op = "unset" => i # 1 /\ q[i - 1].op = "set"

LEMMA QuietOwes ==
    ASSUME NEW q \in Seq(Steps), Quiet(q), NEW t, NEW b
    PROVE  Owes(t, q, b) = {}
<1>1. SUFFICES ASSUME NEW u \in Owes(t, q, b) PROVE FALSE
  OBVIOUS
<1> DEFINE n == Len(q)
<1>2. PICK k \in 1..n : Due(q, n + 1 - k, b)
  BY OwesIs
<1>3. n \in Nat
  OBVIOUS
<1>4. \A i \in 1..n : ~ Due(q, i, b)
  BY DEF Quiet, Due
<1> HIDE DEF n
<1>5. n + 1 - k \in 1..n
  BY <1>3
<1> QED BY <1>2, <1>4, <1>5

LEMMA NoSteps == <<>> \in Seq(Steps) /\ Quiet(<<>>) /\ \A f : ~ SetStep(<<>>, f)
<1>1. Len(<<>>) = 0 /\ 1..0 = {} /\ <<>> \in Seq(Steps)
  OBVIOUS
<1> QED BY <1>1 DEF Quiet, SetStep

\* An operation begins that owes nothing.
LEMMA BeginCounts ==
    ASSUME Struct, UseCounted, NEW t \in Thread, UNCHANGED useCnt,
           NEW objs \in Seq(Ptr \cup Handle), Len(objs) \in {1, 2},
           NEW steps \in Seq(Steps), Quiet(steps), Begin(t, objs, steps),
           KeepsBut(objs[1]), objs[1] \in Handle => HoldsAlike(objs[1])
    PROVE  UseCounted'
<1>1. /\ Typed' /\ Others(t) /\ todo[t] = <<>>
      /\ todo'[t] = steps /\ on'[t] = IF steps = <<>> THEN <<>> ELSE objs
  BY BeginIs DEF Struct
<1>2. \A b \in Block : Owes(t, todo'[t], b) = Owes(t, todo[t], b)
  BY <1>1, QuietOwes, NoSteps
<1>3. WorksFor(t, objs[1])
  BY <1>1 DEF WorksFor
<1>4. \A b \in Block : Held(b)' = Held(b)
  BY <1>1, <1>3, HeldAlike
<1>5. Typed /\ useCnt \in [Block -> Int]
  BY DEF Struct, Basic
<1> QED BY <1>1, <1>2, <1>4, <1>5, CountStays
-----------------------------------------------------------------------------
(* The calls of an operation.                                              *)

\* Thread t has made its first step, or waits in it.
Goes(t) ==
    /\ todo[t] # <<>> /\ Others(t)
    /\ todo'[t] \in Seq(Steps) /\ Rest(todo'[t], todo[t])
    /\ todo'[t] # <<>> => on'[t] = on[t]

LEMMA DoneGoes ==
    ASSUME Struct, NEW t \in Thread, todo[t] # <<>>, Done(t)
    PROVE  Typed' /\ Goes(t)
<1>1. /\ todo[t] \in Seq(Steps) /\ Tail(todo[t]) \in Seq(Steps)
      /\ Len(Tail(todo[t])) = Len(todo[t]) - 1
      /\ \A i \in 1..Len(Tail(todo[t])) : Tail(todo[t])[i] = todo[t][i + 1]
  <2>1. todo[t] \in Seq(Steps)
    BY DEF Struct, Typed
  <2> QED BY <2>1, TailIs
<1>2. Continue(t, Tail(todo[t]))
  BY DEF Done
<1>3. /\ Typed' /\ Others(t) /\ todo'[t] = Tail(todo[t])
      /\ on'[t] = IF Tail(todo[t]) = <<>> THEN <<>> ELSE on[t]
  BY <1>1, <1>2, ContinueIs DEF Struct
<1>4. Rest(todo'[t], todo[t])
  BY <1>1, <1>3 DEF Rest
<1> QED BY <1>1, <1>3, <1>4 DEF Goes

LEMMA WaitGoes ==
    ASSUME Struct, NEW t \in Thread, todo[t] # <<>>, NEW e \in Steps, e.op \in {"await", "pffree"},
           Continue(t, <<e>> \o Tail(todo[t]))
    PROVE  Typed' /\ Goes(t)
<1> DEFINE r == <<e>>
           d == Tail(todo[t])
           q == r \o d
           n == Len(todo[t])
<1>1. /\ todo[t] \in Seq(Steps) /\ Tail(todo[t]) \in Seq(Steps)
      /\ n \in Nat \ {0} /\ Len(Tail(todo[t])) = n - 1
      /\ \A i \in 1..(n - 1) : Tail(todo[t])[i] = todo[t][i + 1]
  <2>1. todo[t] \in Seq(Steps)
    BY DEF Struct, Typed
  <2> QED BY <2>1, TailIs
<1>2. r \in Seq(Steps) /\ Len(r) = 1 /\ r[1] = e
  OBVIOUS
<1>3. Continue(t, q)
  OBVIOUS
<1>4. /\ q \in Seq(Steps) /\ Len(q) = 1 + (n - 1)
      /\ \A i \in 1..(1 + (n - 1)) : q[i] = IF i <= 1 THEN r[i] ELSE Tail(todo[t])[i - 1]
  <2>1. d \in Seq(Steps) /\ Len(d) = n - 1
    BY <1>1
  <2> HIDE DEF r, d, n
  <2>2. /\ q \in Seq(Steps) /\ Len(q) = Len(r) + Len(d)
        /\ \A i \in 1..(Len(r) + Len(d)) : q[i] = IF i <= Len(r) THEN r[i] ELSE d[i - Len(r)]
    BY <1>2, <2>1, Concat
  <2> QED BY <1>2, <2>1, <2>2 DEF d
<1> HIDE DEF r, d
<1> HIDE DEF q
<1>5. /\ Typed' /\ Others(t) /\ todo'[t] = q /\ on'[t] = IF q = <<>> THEN <<>> ELSE on[t]
  BY <1>3, <1>4, ContinueIs DEF Struct
<1> HIDE DEF n
<1>6. Len(q) = n /\ q[1] = e /\ \A i \in 2..Len(q) : q[i] = todo[t][i]
  <2>1. Len(q) = n /\ q[1] = r[1]
    BY <1>1, <1>4
  <2>2. ASSUME NEW i \in 2..n PROVE q[i] = todo[t][i]
    <3>1. i \in 1..(1 + (n - 1)) /\ ~ (i <= 1) /\ i - 1 \in 1..(n - 1) /\ (i - 1) + 1 = i
      BY <1>1, <2>2
    <3>2. q[i] = Tail(todo[t])[i - 1]
      BY <1>4, <3>1
    <3> QED BY <1>1, <3>1, <3>2
  <2> QED BY <1>2, <2>1, <2>2
<1>7. Rest(todo'[t], todo[t])
  BY <1>5, <1>6 DEF Rest, n
<1> QED BY <1>4, <1>5, <1>7 DEF Goes

LEMMA GoesFor ==
    ASSUME Struct, NEW t \in Thread, Goes(t)
    PROVE  /\ WorksFor(t, on[t][1]) /\ on[t][1] \in Ptr \cup Handle
           /\ todo[t] \in Seq(Steps) /\ Len(todo[t]) > 0
<1>1. WorksFor(t, on[t][1])
  BY DEF Goes, WorksFor
<1>2. todo[t] \in Seq(Steps) /\ Len(todo[t]) \in Nat \ {0} /\ on[t][1] \in Ptr \cup Handle
  BY Working DEF Struct, Goes
<1> QED BY <1>1, <1>2

\* The steps left set the same uses.
LEMMA SetsAfter ==
    ASSUME NEW t \in Thread, Goes(t), \A f : SetStep(todo'[t], f) <=> SetStep(todo[t], f), NEW h
    PROVE  \A f : Sets(t, h, f)' <=> Sets(t, h, f)
<1>1. CASE todo'[t] = <<>>
  BY <1>1, NoSteps DEF Sets
<1>2. CASE todo'[t] # <<>>
  BY <1>2 DEF Sets, Goes
<1> QED BY <1>1, <1>2

\* A step other than set and unset.
LEMMA PlainCounts ==
    ASSUME Struct, UseCounted, NEW t \in Thread, Typed', Goes(t), UNCHANGED useCnt,
           Head(todo[t]).op \notin {"set", "unset"}, KeepsBut(on[t][1]),
           on[t][1] \in Handle =>
               UNCHANGED objects \/ (loaded[on[t][1]] = {} /\ loaded'[on[t][1]] = {})
    PROVE  UseCounted'
<1>1. PICK x \in Ptr \cup Handle : x = on[t][1]
  BY GoesFor
<1>2. /\ Typed /\ Others(t) /\ WorksFor(t, x) /\ todo[t] \in Seq(Steps) /\ Len(todo[t]) > 0
      /\ todo'[t] \in Seq(Steps) /\ Rest(todo'[t], todo[t]) /\ todo[t] # <<>>
  BY <1>1, GoesFor DEF Goes, Struct
<1>3. todo[t][1].op \notin {"set", "unset"}
  BY <1>2, AtIs
<1>4. PICK s \in Seq(Steps), q \in Seq(Steps) : s = todo[t] /\ q = todo'[t]
  BY <1>2
<1>5. (\A b : Owes(t, q, b) = Owes(t, s, b)) /\ \A f : SetStep(q, f) <=> SetStep(s, f)
  <2>1. Len(s) > 0 /\ Rest(q, s) /\ s[1].op \notin {"set", "unset"}
    BY <1>2, <1>3, <1>4
  <2> QED BY <2>1, RestPlain
<1>6. x \in Handle => HoldsAlike(x)
  <2>1. CASE x \in Handle /\ UNCHANGED objects
    <3>1. \A f : SetStep(todo'[t], f) <=> SetStep(todo[t], f)
      BY <1>4, <1>5
    <3>2. \A f : Sets(t, x, f)' <=> Sets(t, x, f)
      BY <3>1, SetsAfter
    <3> QED BY <1>2, <2>1, <3>2, AlikeStays
  <2>2. CASE x \in Handle /\ loaded[x] = {} /\ loaded'[x] = {}
    BY <2>2, AlikeNone
  <2> QED BY <1>1, <2>1, <2>2
<1>7. \A b \in Block : Held(b)' = Held(b)
  BY <1>1, <1>2, <1>6, HeldAlike
<1>8. useCnt \in [Block -> Int]
  BY DEF Struct, Basic
<1>9. \A b \in Block : Owes(t, todo'[t], b) = Owes(t, todo[t], b)
  BY <1>4, <1>5
<1> QED BY <1>2, <1>7, <1>8, <1>9, CountStays

LEMMA GrantCounts ==
    ASSUME Struct, UseCounted, NEW t \in Thread,
           \/ Grant(t) \/ PrepareUse(t) \/ MfreeDone(t) \/ Mfree(t)
    PROVE  UseCounted'
<1>1. /\ todo[t] # <<>> /\ Head(todo[t]).op \in {"await", "prepare", "pffree", "mfree"}
      /\ ObjectsStay /\ UNCHANGED useCnt /\ UNCHANGED objects
  BY DEF Grant, PrepareUse, MfreeDone, Mfree, Locks, At, ObjectsStay, objects
<1>2. KeepsBut(on[t][1])
  BY <1>1, ObjectsStruct
<1>3. Typed' /\ Goes(t)
  <2>1. CASE Done(t)
    BY <1>1, <2>1, DoneGoes
  <2>2. CASE Mfree(t) /\ Continue(t, <<Step("pffree", Subject(t))>> \o Tail(todo[t]))
    <3>1. Subject(t) \in Block
      BY <1>1, AtIs
    <3>2. Step("pffree", Subject(t)) \in Steps /\ Step("pffree", Subject(t)).op = "pffree"
      BY <3>1, StepsAre
    <3> QED BY <1>1, <2>2, <3>2, WaitGoes
  <2> QED BY <2>1, <2>2 DEF Grant, PrepareUse, MfreeDone, Mfree
<1> QED BY <1>1, <1>2, <1>3, PlainCounts

LEMMA PrepareUseThrowsCounts ==
    ASSUME Struct, UseCounted, NEW t \in Thread, PrepareUseThrows(t)
    PROVE  UseCounted'
<1> DEFINE h == on[t][1]
<1>1. /\ todo[t] # <<>> /\ Head(todo[t]).op = "prepare" /\ Done(t)
      /\ data' = [data EXCEPT ![h] = None] /\ UNCHANGED <<useCnt, ptr, loaded, given, failed>>
  BY DEF PrepareUseThrows, Locks, At, manager
<1>2. Typed' /\ Goes(t)
  BY <1>1, DoneGoes
<1>3. h \in Handle /\ loaded[h] = {}
  <2>1. StepOK(t, 1) /\ Head(todo[t]) = todo[t][1]
    BY <1>1, AtIs
  <2> QED BY <1>1, <2>1 DEF StepOK, PrepareOK, ForHandle
<1>4. KeepsBut(h)
  BY <1>1, <1>3 DEF KeepsBut, Struct, Basic
<1>5. loaded'[h] = {}
  BY <1>1, <1>3
<1> QED BY <1>1, <1>2, <1>3, <1>4, <1>5, PlainCounts

LEMMA GivePointerCounts ==
    ASSUME Struct, UseCounted, NEW t \in Thread, GivePointer(t)
    PROVE  UseCounted'
<1>1. /\ todo[t] # <<>> /\ Head(todo[t]).op = "loc" /\ Done(t)
      /\ given' = given \cup {on[t][1]}
      /\ UNCHANGED <<useCnt, ptr, data, loaded, failed>> /\ UNCHANGED objects
  BY DEF GivePointer, At, manager, objects
<1>2. Typed' /\ Goes(t)
  BY <1>1, DoneGoes
<1>3. KeepsBut(on[t][1])
  BY <1>1 DEF KeepsBut
<1> QED BY <1>1, <1>2, <1>3, PlainCounts

LEMMA TakeCounts ==
    ASSUME Struct, UseCounted, NEW t \in Thread, Take(t)
    PROVE  UseCounted'
<1> DEFINE p == on[t][1]
<1>1. /\ todo[t] # <<>> /\ Head(todo[t]).op = "take" /\ Done(t)
      /\ ptr' = [ptr EXCEPT ![p] = Subject(t)] /\ UNCHANGED <<useCnt, data, loaded, given, failed>>
  BY DEF Take, At, manager
<1>2. Typed' /\ Goes(t)
  BY <1>1, DoneGoes
<1>3. p \in Ptr /\ p \notin Handle /\ ~ Handled(p)
  <2>1. StepOK(t, 1) /\ Head(todo[t]) = todo[t][1]
    BY <1>1, AtIs
  <2>2. p \in Ptr
    BY <1>1, <2>1 DEF StepOK, TakeOK
  <2> QED BY <1>1, <2>2, HandleAssumption DEF Struct, Apart
<1>4. KeepsBut(p)
  BY <1>1, <1>3 DEF KeepsBut, Struct, Basic, Handled
<1> QED BY <1>1, <1>2, <1>3, <1>4, PlainCounts

\* A call that makes no step.
LEMMA SameCounts ==
    ASSUME UseCounted, UNCHANGED <<useCnt, ptr, data, loaded, todo, on>>
    PROVE  UseCounted'
<1>1. ASSUME NEW b \in Block PROVE useCnt'[b] = Cardinality(Held(b)') + Cardinality(Owed(b)')
  <2>1. \A h, f : Pending(h, f)' <=> Pending(h, f)
    BY DEF Pending
  <2>2. \A h : Chunk(h)' = Chunk(h)
    BY DEF Chunk
  <2>3. \A h \in Handle, f \in Flags : Holds(h, f, b)' <=> Holds(h, f, b)
    BY <2>1, <2>2 DEF Holds
  <2>4. Held(b)' = Held(b)
    BY <2>3, HeldSame
  <2>5. \A t \in Thread : OwedBy(t, b)' = OwedBy(t, b)
    BY OwedByIs
  <2>6. Owed(b)' = Owed(b)
    BY <2>5 DEF Owed
  <2> QED BY <2>4, <2>6 DEF UseCounted
<1> QED BY <1>1 DEF UseCounted
\* A setUse that throws in a pull leaves its flag behind, and the use with it.
LEMMA SetUseThrowsCounts ==
    ASSUME Struct, UseCounted, NEW t \in Thread, SetUseThrows(t)
    PROVE  UseCounted'
<1>1. todo[t] # <<>> /\ Head(todo[t]).op = "await"
  BY DEF SetUseThrows, Locks, At
<1>2. UNCHANGED <<useCnt, ptr, data, loaded, given>> /\ UNCHANGED objects
  BY DEF SetUseThrows, manager, objects
<1>3. CASE Last(todo[t]).op # "loc"
  BY <1>2, <1>3, SameCounts DEF SetUseThrows
<1>4. CASE Last(todo[t]).op = "loc"
  <2>1. failed' = failed \cup {on[t][1]} /\ Continue(t, <<>>)
    BY <1>4 DEF SetUseThrows
  <2>2. /\ todo[t] \in Seq(Steps) /\ Len(todo[t]) \in Nat \ {0} /\ Head(todo[t]) = todo[t][1]
        /\ StepOK(t, 1) /\ todo[t][1].op = "await"
    BY <1>1, AtIs
  <2>3. Len(todo[t]) \in 1..Len(todo[t]) /\ todo[t][Len(todo[t])].op = "loc"
    BY <1>4, <2>2 DEF Last
  <2>4. on[t][1] \in Handle
    <3>1. StepOK(t, Len(todo[t]))
      BY <2>3 DEF Struct, Planned
    <3> QED BY <2>3, <3>1 DEF StepOK, LocOK, ForHandle
  <2>5. \A i \in 1..Len(todo[t]) : todo[t][i].op \in {"await", "loc"}
    <3>1. on[t][1] \notin Ptr
      BY <2>4, HandleAssumption
    <3>2. \/ \A j \in (1 + 1)..Len(todo[t]) : todo[t][j].op = "set"
          \/ Len(todo[t]) = 1 + 1 /\ todo[t][1 + 1].op = "loc"
      <4>1. SetOK(t, 1)
        BY <2>2 DEF StepOK
      <4>2. ~ ForPtr(t, 1, todo[t][1].b)
        BY <3>1 DEF ForPtr, Deletes
      <4> QED BY <4>1, <4>2 DEF SetOK
    <3>3. Len(todo[t]) # 1
      BY <2>2, <2>3
    <3> DEFINE n == Len(todo[t])
    <3>4. n \in (1 + 1)..n
      <4>1. n \in Nat \ {0} /\ n # 1
        BY <2>2, <3>3
      <4> HIDE DEF n
      <4> QED BY <4>1
    <3>5. n = 2 /\ todo[t][2].op = "loc"
      BY <2>3, <3>2, <3>4
    <3>6. \A i \in 1..n : i = 1 \/ i = 2
      BY <3>5
    <3> QED BY <2>2, <3>5, <3>6
  <2>6. Quiet(todo[t]) /\ \A f : ~ SetStep(todo[t], f)
    BY <2>5 DEF Quiet, SetStep
  <2>7. Typed' /\ Others(t) /\ todo'[t] = <<>>
    BY <1>1, <2>1, NoSteps, ContinueIs DEF Struct
  <2>8. \A b \in Block : Owes(t, todo'[t], b) = Owes(t, todo[t], b)
    BY <2>2, <2>6, <2>7, NoSteps, QuietOwes
  <2>9. PICK x \in Handle : x = on[t][1]
    BY <2>4
  <2>10. \A f : Sets(t, x, f)' <=> Sets(t, x, f)
    BY <2>6, <2>7, NoSets DEF Sets
  <2>11. HoldsAlike(x)
    BY <1>2, <2>7, <2>10, AlikeStays
  <2>12. KeepsBut(x) /\ WorksFor(t, x)
    BY <1>2, <2>1, <2>7, <2>9 DEF KeepsBut, WorksFor
  <2>13. \A b \in Block : Held(b)' = Held(b)
    BY <2>7, <2>11, <2>12, HeldAlike
  <2> QED BY <1>2, <2>7, <2>8, <2>13, CountStays DEF Struct, Basic
<1> QED BY <1>3, <1>4

\* Uses are set for each flag, and nothing is owed.
LEMMA SetsQuiet ==
    ASSUME NEW q, NEW b, NEW S, SetsFor(q, b, S)
    PROVE  Quiet(q) /\ \A f \in S : SetStep(q, f)
<1>1. \A i \in 1..Len(q) : q[i].op = "set"
  BY DEF SetsFor
<1>2. Quiet(q)
  BY <1>1 DEF Quiet
<1>3. \A f \in S : \E i \in 1..Len(q) : q[i].flag = f
  BY DEF SetsFor
<1> QED BY <1>1, <1>2, <1>3 DEF SetStep

\* The uses a handle is given with its flags are pending.
LEMMA PendingSets ==
    ASSUME NEW t \in Thread, Others(t), NEW g, NEW S, NEW b, SetsFor(todo'[t], b, S),
           todo'[t] # <<>> => on'[t][1] = g
    PROVE  \A f \in S : Pending(g, f)'
<1>1. ASSUME NEW f \in S PROVE Pending(g, f)'
  <2>1. SetStep(todo'[t], f)
    BY SetsQuiet
  <2>2. todo'[t] # <<>>
    BY <2>1, NoSteps
  <2>3. Sets(t, g, f)'
    BY <2>1, <2>2 DEF Sets
  <2> QED BY <2>3, PendingMoves
<1> QED BY <1>1

LEMMA AdoptCounts ==
    ASSUME Struct, UseCounted, NEW t \in Thread, Adopt(t)
    PROVE  UseCounted'
<1>1. todo[t] # <<>> /\ Head(todo[t]).op = "adopt"
  BY DEF Adopt, At
<1>2. /\ Head(todo[t]) = todo[t][1] /\ StepOK(t, 1) /\ Head(todo[t]).flags \in SUBSET Flags
      /\ todo[t] \in Seq(Steps)
  BY <1>1, AtIs, StepKinds
<1>3. AdoptOK(t, 1)
  BY <1>1, <1>2 DEF StepOK
<1>4. PICK g \in Handle, h \in Handle : g = on[t][1] /\ h = on[t][2]
  BY <1>3 DEF AdoptOK
<1>5. PICK S \in SUBSET Flags : S = Head(todo[t]).flags
  BY <1>2
<1>6. /\ 1 = Len(todo[t]) /\ data[h] # None /\ Chunk(h) \in Block /\ loaded[g] = {}
  BY <1>3, <1>4 DEF AdoptOK, Chunk, Struct, Anchored, Basic
<1> DEFINE steps == SetUses(Chunk(h), S)
<1>7. /\ data' = [data EXCEPT ![g] = data[h]] /\ loaded' = [loaded EXCEPT ![g] = S]
      /\ Continue(t, steps) /\ UNCHANGED <<useCnt, ptr, given, failed>>
  BY <1>4, <1>5 DEF Adopt, manager
<1>8. SetsFor(steps, Chunk(h), S)
  BY <1>6, SetUsesIs
<1>9. steps \in Seq(Steps)
  BY <1>8 DEF SetsFor
<1> HIDE DEF steps
<1>10. /\ Typed' /\ Others(t) /\ todo'[t] = steps
       /\ on'[t] = IF steps = <<>> THEN <<>> ELSE on[t]
  BY <1>1, <1>7, <1>9, ContinueIs DEF Struct
<1>11. WorksFor(t, g)
  BY <1>4, <1>10 DEF WorksFor
<1>12. KeepsBut(g)
  <2>1. \A x \in Handle \ {g} : data'[x] = data[x] /\ loaded'[x] = loaded[x]
    BY <1>7 DEF Struct, Basic
  <2> QED BY <1>7, <2>1 DEF KeepsBut
<1>13. HoldsAlike(g)
  <2>1. PICK c \in Block : c = Chunk(h)
    BY <1>6
  <2>2. SetsFor(todo'[t], c, S)
    BY <1>8, <1>10, <2>1
  <2>3. \A f \in S : Pending(g, f)'
    <3>1. todo'[t] # <<>> => on'[t][1] = g
      BY <1>11 DEF WorksFor
    <3>2. Others(t)
      BY <1>10
    <3> QED BY <2>2, <3>1, <3>2, PendingSets
  <2>4. loaded'[g] = S
    BY <1>7 DEF Struct, Basic
  <2> QED BY <1>6, <2>3, <2>4, AlikeNone
<1>14. \A b \in Block : Held(b)' = Held(b)
  BY <1>10, <1>11, <1>12, <1>13, HeldAlike
<1>15. Quiet(todo[t])
  <2>1. \A i \in 1..Len(todo[t]) : i = 1
    <3>1. PICK n \in Nat : n = 1 /\ n = Len(todo[t])
      BY <1>6
    <3>2. \A i \in 1..n : i = 1
      BY <3>1
    <3> QED BY <3>1, <3>2
  <2>2. todo[t][1].op # "unset"
    BY <1>1, <1>2
  <2> QED BY <2>1, <2>2 DEF Quiet
<1>16. \A b \in Block : Owes(t, todo'[t], b) = Owes(t, todo[t], b)
  BY <1>2, <1>8, <1>9, <1>10, <1>15, SetsQuiet, QuietOwes
<1> QED BY <1>7, <1>10, <1>14, <1>16, CountStays DEF Struct, Basic
-----------------------------------------------------------------------------
(* Operations that begin.                                                  *)

LEMMA PtrKeeps ==
    ASSUME Struct, NEW p \in Ptr, ~ Handled(p), NEW v, ptr' = [ptr EXCEPT ![p] = v],
           UNCHANGED <<data, loaded, given, failed>>
    PROVE  KeepsBut(p)
BY DEF KeepsBut, Struct, Basic, Handled

LEMMA DataKeeps ==
    ASSUME Struct, NEW g \in Handle, UNCHANGED ptr,
           \A h \in Handle \ {g} : data'[h] = data[h] /\ loaded'[h] = loaded[h],
           given' = given \/ given' = given \ {g}, failed' = failed \/ failed' = failed \ {g}
    PROVE  KeepsBut(g)
BY DEF KeepsBut

\* An operation begins on a managedPtr that no handle is on.
LEMMA BeginPtrCounts ==
    ASSUME Struct, UseCounted, NEW t \in Thread, UNCHANGED <<useCnt, data, loaded, given, failed>>,
           NEW p \in Ptr, ~ Handled(p), NEW v, ptr' = [ptr EXCEPT ![p] = v],
           NEW objs \in Seq(Ptr \cup Handle), Len(objs) \in {1, 2}, objs[1] = p,
           NEW steps \in Seq(Steps), Quiet(steps), Begin(t, objs, steps)
    PROVE  UseCounted'
<1>1. KeepsBut(p)
  BY PtrKeeps
<1>2. p \notin Handle
  BY HandleAssumption
<1> QED BY <1>1, <1>2, BeginCounts

LEMMA QuietPair ==
    ASSUME NEW b \in Block, NEW c \in Block
    PROVE  /\ <<Set(b, "write"), Unset(b, 1)>> \in Seq(Steps)
           /\ Quiet(<<Set(b, "write"), Unset(b, 1)>>)
           /\ <<Step("take", c)>> \in Seq(Steps) /\ Quiet(<<Step("take", c)>>)
           /\ <<Step("prepare", c)>> \in Seq(Steps) /\ Quiet(<<Step("prepare", c)>>)
<1> DEFINE w == Set(b, "write")
           u == Unset(b, 1)
<1>1. w \in Steps /\ w.op = "set" /\ u \in Steps /\ u.op = "unset"
  BY StepsAre
<1> HIDE DEF w, u
<1> DEFINE q == <<w, u>>
<1>2. q \in Seq(Steps) /\ Len(q) = 2 /\ q[1] = w /\ q[2] = u
  BY <1>1
<1> HIDE DEF q
<1>3. \A i \in 1..Len(q) : i = 1 \/ i = 2
  BY <1>2
<1>4. Quiet(q)
  <2>1. 2 - 1 = 1 /\ 2 # 1
    OBVIOUS
  <2> QED BY <1>1, <1>2, <1>3, <2>1 DEF Quiet
<1>5. ASSUME NEW s \in Steps, s.op \notin {"set", "unset"} PROVE <<s>> \in Seq(Steps) /\ Quiet(<<s>>)
  <2> DEFINE r == <<s>>
  <2>1. r \in Seq(Steps) /\ Len(r) = 1 /\ r[1] = s
    OBVIOUS
  <2> HIDE DEF r
  <2>2. \A i \in 1..Len(r) : i = 1
    BY <2>1
  <2>3. Quiet(r)
    BY <1>5, <2>1, <2>2 DEF Quiet
  <2> QED BY <2>1, <2>3 DEF r
<1>6. /\ Step("take", c) \in Steps /\ Step("take", c).op = "take"
      /\ Step("prepare", c) \in Steps /\ Step("prepare", c).op = "prepare"
  BY StepsAre
<1> QED BY <1>2, <1>4, <1>5, <1>6 DEF q, w, u

LEMMA ConstructCounts ==
    ASSUME Struct, UseCounted, NEW t \in Thread, NEW p \in Ptr, NEW b \in Block, Construct(t, p, b)
    PROVE  UseCounted'
<1> DEFINE objs == <<p>>
           steps == IF b \in Empty THEN <<>> ELSE <<Set(b, "write"), Unset(b, 1)>>
<1>1. /\ ptr[p] = None /\ Begin(t, objs, steps) /\ ptr' = [ptr EXCEPT ![p] = b]
      /\ UNCHANGED <<useCnt, data, loaded, given, failed>>
  BY DEF Construct
<1>2. objs \in Seq(Ptr \cup Handle) /\ Len(objs) \in {1, 2} /\ objs[1] = p
  BY Objects
<1>3. ~ Handled(p)
  BY <1>1, Unhandled
<1>4. steps \in Seq(Steps) /\ Quiet(steps)
  BY QuietPair, NoSteps
<1> HIDE DEF objs, steps
<1> QED BY <1>1, <1>2, <1>3, <1>4, BeginPtrCounts

LEMMA CopyCounts ==
    ASSUME Struct, UseCounted, NEW t \in Thread, NEW p \in Ptr, NEW q \in Ptr, Copy(t, p, q)
    PROVE  UseCounted'
<1> DEFINE objs == <<p, q>>
<1>1. /\ ptr[p] = None /\ Begin(t, objs, <<>>) /\ ptr' = [ptr EXCEPT ![p] = ptr[q]]
      /\ UNCHANGED <<useCnt, data, loaded, given, failed>>
  BY DEF Copy, manager
<1>2. objs \in Seq(Ptr \cup Handle) /\ Len(objs) \in {1, 2} /\ objs[1] = p
  BY Objects
<1>3. ~ Handled(p)
  BY <1>1, Unhandled
<1> HIDE DEF objs
<1> QED BY <1>1, <1>2, <1>3, NoSteps, BeginPtrCounts

\* Deleting a chunk owes nothing: the use its destructors need is set first.
LEMMA QuietDeletion ==
    ASSUME NEW s, NEW b \in Block, NEW rest \in Seq(Steps), NEW n \in {1, 3}, DeletionOf(s, b, rest, n),
           \A i \in 1..Len(rest) : rest[i].op = "take"
    PROVE  s \in Seq(Steps) /\ Quiet(s)
<1> DEFINE l == Len(rest)
<1>1. l \in Nat
  OBVIOUS
<1>2. s \in Seq(Steps) /\ Len(s) = n + l /\ \A i \in (n + 1)..(n + l) : s[i] = rest[i - n]
  BY DEF DeletionOf
<1>3. s[n].op = "mfree"
  BY StepsAre DEF DeletionOf
<1>4. n = 3 => s[1].op = "set"
  BY StepsAre DEF DeletionOf
<1>5. \A i \in 1..l : rest[i].op = "take"
  OBVIOUS
<1> HIDE DEF l
<1>6. ASSUME NEW i \in 1..(n + l), s[i].op = "unset" PROVE i # 1 /\ s[i - 1].op = "set"
  <2>1. CASE i \in (n + 1)..(n + l)
    <3>1. i - n \in 1..l
      BY <1>1, <2>1
    <3> QED BY <1>2, <1>5, <1>6, <2>1, <3>1
  <2>2. CASE i = n
    BY <1>3, <1>6, <2>2
  <2>3. CASE i < n
    <3>1. n = 3 /\ (i = 1 \/ i = 2)
      BY <1>6, <2>3
    <3>2. 2 - 1 = 1 /\ 2 # 1
      OBVIOUS
    <3> QED BY <1>4, <1>6, <3>1, <3>2
  <2>4. i \in (n + 1)..(n + l) \/ i = n \/ i < n
    BY <1>1
  <2> QED BY <2>1, <2>2, <2>3, <2>4
<1> QED BY <1>2, <1>6 DEF Quiet

LEMMA ReleaseCounts ==
    ASSUME Struct, UseCounted, NEW t \in Thread, UNCHANGED <<useCnt, data, loaded, given, failed>>,
           NEW p \in Ptr, ~ Handled(p), ptr[p] # None,
           NEW objs \in Seq(Ptr \cup Handle), Len(objs) \in {1, 2}, objs[1] = p,
           NEW rest \in Seq(Steps), Quiet(rest), \A i \in 1..Len(rest) : rest[i].op = "take",
           Release(t, p, objs, rest)
    PROVE  UseCounted'
<1> DEFINE b == ptr[p]
           steps == (IF tracker[b] = 1 THEN MDelete(b) ELSE <<>>) \o rest
<1>1. ptr' = [ptr EXCEPT ![p] = None] /\ Begin(t, objs, steps)
  BY DEF Release
<1>2. b \in Block
  BY DEF Struct, Basic
<1>3. steps \in Seq(Steps) /\ Quiet(steps)
  <2> HIDE DEF b
  <2>1. CASE tracker[b] = 1 /\ b \notin Empty
    <3>1. PICK n \in {1, 3} : DeletionOf(MDelete(b) \o rest, b, rest, n)
      BY <1>2, <2>1, MDeleteIs
    <3>2. MDelete(b) \o rest \in Seq(Steps) /\ Quiet(MDelete(b) \o rest)
      BY <1>2, <3>1, QuietDeletion
    <3> QED BY <2>1, <3>2
  <2>2. CASE tracker[b] = 1 /\ b \in Empty
    <3>1. MDelete(b) \o rest = rest
      BY <1>2, <2>2, MDeleteIs
    <3> QED BY <2>2, <3>1
  <2>3. CASE tracker[b] # 1
    <3>1. <<>> \o rest = rest
      BY ConcatEmptySeq
    <3> QED BY <2>3, <3>1
  <2> QED BY <2>1, <2>2, <2>3
<1> HIDE DEF steps
<1> QED BY <1>1, <1>3, BeginPtrCounts

LEMMA DestroyCounts ==
    ASSUME Struct, UseCounted, NEW t \in Thread, NEW p \in Ptr, Destroy(t, p)
    PROVE  UseCounted'
<1>1. /\ ptr[p] # None /\ ~ Handled(p) /\ Release(t, p, <<p>>, <<>>)
      /\ UNCHANGED <<useCnt, data, loaded, given, failed>>
  BY DEF Destroy, manager
<1>2. <<p>> \in Seq(Ptr \cup Handle) /\ Len(<<p>>) \in {1, 2} /\ <<p>>[1] = p
  BY Objects
<1>3. <<>> \in Seq(Steps) /\ Quiet(<<>>) /\ \A i \in 1..Len(<<>>) : <<>>[i].op = "take"
  <2>1. \A i \in 1..Len(<<>>) : FALSE
    OBVIOUS
  <2> QED BY <2>1, NoSteps
<1> QED BY <1>1, <1>2, <1>3, ReleaseCounts

LEMMA AssignCounts ==
    ASSUME Struct, UseCounted, NEW t \in Thread, NEW p \in Ptr, NEW q \in Ptr, Assign(t, p, q)
    PROVE  UseCounted'
<1> DEFINE objs == <<p, q>>
           c == ptr[q]
           rest == <<Step("take", c)>>
<1>1. /\ ptr[p] # None /\ c # None /\ ~ Handled(p)
      /\ UNCHANGED <<useCnt, data, loaded, given, failed>>
      /\ IF ptr[p] \in Empty
         THEN ptr' = [ptr EXCEPT ![p] = None] /\ UNCHANGED tracker /\ Begin(t, objs, rest)
         ELSE Release(t, p, objs, rest)
  BY DEF Assign, Reassign, manager
<1>2. objs \in Seq(Ptr \cup Handle) /\ Len(objs) \in {1, 2} /\ objs[1] = p
  BY Objects
<1>3. c \in Block
  BY <1>1 DEF Struct, Basic
<1>4. rest \in Seq(Steps) /\ Quiet(rest)
  BY <1>3, QuietPair
<1>5. \A i \in 1..Len(rest) : rest[i].op = "take"
  <2>1. Len(rest) = 1 /\ rest[1] = Step("take", c)
    OBVIOUS
  <2> HIDE DEF rest
  <2>2. \A i \in 1..Len(rest) : i = 1
    BY <2>1
  <2>3. Step("take", c).op = "take"
    BY <1>3, StepsAre
  <2> QED BY <2>1, <2>2, <2>3
<1> HIDE DEF objs, rest
<1>6. CASE ptr[p] \in Empty
  <2>1. ptr' = [ptr EXCEPT ![p] = None] /\ Begin(t, objs, rest)
    BY <1>1, <1>6
  <2> QED BY <1>1, <1>2, <1>4, <2>1, BeginPtrCounts
<1>7. CASE ptr[p] \notin Empty
  <2>1. Release(t, p, objs, rest)
    BY <1>1, <1>7
  <2> QED BY <1>1, <1>2, <1>4, <1>5, <2>1, ReleaseCounts
<1> QED BY <1>6, <1>7

LEMMA AdhereCounts ==
    ASSUME Struct, UseCounted, NEW t \in Thread, NEW h \in Handle, NEW p \in Ptr, Adhere(t, h, p)
    PROVE  UseCounted'
<1> DEFINE objs == <<h, p>>
           b == ptr[p]
<1>1. /\ data[h] = None /\ b # None /\ data' = [data EXCEPT ![h] = p]
      /\ UNCHANGED <<useCnt, ptr, loaded, given, failed>>
      /\ \E loadImmediately \in BOOLEAN :
            Begin(t, objs, IF loadImmediately /\ b \notin Empty THEN <<Step("prepare", b)>> ELSE <<>>)
  BY DEF Adhere, manager
<1>2. objs \in Seq(Ptr \cup Handle) /\ Len(objs) \in {1, 2} /\ objs[1] = h
  BY Objects
<1>3. loaded[h] = {} /\ b \in Block /\ loaded'[h] = {}
  BY <1>1 DEF Struct, Anchored, Basic
<1>4. PICK steps \in Seq(Steps) : Quiet(steps) /\ Begin(t, objs, steps)
  <2> HIDE DEF objs
  <2>1. CASE Begin(t, objs, <<Step("prepare", b)>>)
    BY <1>3, <2>1, QuietPair
  <2>2. CASE Begin(t, objs, <<>>)
    BY <2>2, NoSteps
  <2> QED BY <1>1, <2>1, <2>2
<1>5. KeepsBut(h)
  <2>1. \A x \in Handle \ {h} : data'[x] = data[x] /\ loaded'[x] = loaded[x]
    BY <1>1 DEF Struct, Basic
  <2> QED BY <1>1, <2>1, DataKeeps
<1>6. HoldsAlike(h)
  BY <1>3, AlikeNone
<1> HIDE DEF objs
<1> QED BY <1>1, <1>2, <1>4, <1>5, <1>6, BeginCounts

LEMMA CopyHandleCounts ==
    ASSUME Struct, UseCounted, NEW t \in Thread, NEW g \in Handle, NEW h \in Handle, CopyHandle(t, g, h)
    PROVE  UseCounted'
<1>1. PICK S \in SUBSET Flags : S = loaded[h]
  BY DEF Struct, Basic
<1>2. data[h] # None /\ data[g] = None
  BY DEF CopyHandle
<1>3. PICK b \in Block : b = Chunk(h)
  BY <1>2 DEF Chunk, Struct, Anchored, Basic
<1> DEFINE objs == <<g, h>>
           steps == SetUses(b, S)
<1>4. /\ Begin(t, objs, steps) /\ data' = [data EXCEPT ![g] = data[h]]
      /\ loaded' = [loaded EXCEPT ![g] = S] /\ UNCHANGED <<useCnt, ptr, given, failed>>
  BY <1>1, <1>3 DEF CopyHandle, manager
<1>5. objs \in Seq(Ptr \cup Handle) /\ Len(objs) \in {1, 2} /\ objs[1] = g
  BY Objects
<1>6. SetsFor(steps, b, S)
  BY SetUsesIs
<1>7. steps \in Seq(Steps) /\ Quiet(steps)
  BY <1>6, SetsQuiet DEF SetsFor
<1> HIDE DEF steps, objs
<1>8. KeepsBut(g)
  <2>1. \A x \in Handle \ {g} : data'[x] = data[x] /\ loaded'[x] = loaded[x]
    BY <1>4 DEF Struct, Basic
  <2> QED BY <1>4, <2>1, DataKeeps
<1>9. HoldsAlike(g)
  <2>1. Others(t) /\ todo'[t] = steps /\ on'[t] = IF steps = <<>> THEN <<>> ELSE objs
    BY <1>4, <1>5, <1>7, BeginIs DEF Struct
  <2>2. todo'[t] # <<>> => on'[t][1] = g
    BY <1>5, <2>1
  <2>3. SetsFor(todo'[t], b, S)
    BY <1>6, <2>1
  <2>4. \A f \in S : Pending(g, f)'
    BY <2>1, <2>2, <2>3, PendingSets
  <2>5. loaded'[g] = S
    BY <1>4 DEF Struct, Basic
  <2>6. loaded[g] = {}
    BY <1>2 DEF Struct, Anchored
  <2> QED BY <2>4, <2>5, <2>6, AlikeNone
<1> QED BY <1>4, <1>5, <1>7, <1>8, <1>9, BeginCounts

LEMMA PullCounts ==
    ASSUME Struct, UseCounted, NEW t \in Thread, NEW h \in Handle, NEW flag \in Flags, Pull(t, h, flag)
    PROVE  UseCounted'
<1>1. PICK L \in SUBSET Flags : L = loaded[h]
  BY DEF Struct, Basic
<1>2. data[h] # None
  BY DEF Pull
<1>3. PICK b \in Block : b = Chunk(h)
  BY <1>2 DEF Chunk, Struct, Anchored, Basic
<1> DEFINE objs == <<h>>
           S == {flag} \ L
           steps == SetUses(b, S) \o <<Step("loc", b)>>
<1>4. /\ Begin(t, objs, steps) /\ loaded' = [loaded EXCEPT ![h] = L \cup {flag}]
      /\ UNCHANGED <<useCnt, ptr, data, given, failed>>
  BY <1>1, <1>3 DEF Pull, manager
<1>5. objs \in Seq(Ptr \cup Handle) /\ Len(objs) \in {1, 2} /\ objs[1] = h
  BY Objects
<1>6. PullOf(steps, b, flag, S)
  <2>1. S \in SUBSET Flags /\ S \subseteq {flag}
    OBVIOUS
  <2> HIDE DEF S
  <2> QED BY <2>1, PullSteps
<1> HIDE DEF steps, objs
<1>7. /\ steps \in Seq(Steps) /\ Len(steps) \in {1, 2} /\ steps[Len(steps)].op = "loc"
      /\ Len(steps) = 1 <=> S = {}
      /\ Len(steps) = 2 => steps[1].op = "set" /\ steps[1].flag = flag
  BY <1>6, StepsAre DEF PullOf
<1> HIDE DEF S
<1>8. \A i \in 1..Len(steps) : \/ i = Len(steps)
                               \/ i = 1 /\ Len(steps) = 2
  BY <1>7
<1>9. Quiet(steps) /\ \A f : SetStep(steps, f) <=> S # {} /\ f = flag
  <2>1. \A i \in 1..Len(steps) : steps[i].op # "unset"
    BY <1>7, <1>8
  <2>2. \A i \in 1..Len(steps) : steps[i].op = "set" => S # {} /\ steps[i].flag = flag
    BY <1>7, <1>8
  <2>3. S # {} => 1 \in 1..Len(steps) /\ steps[1].op = "set" /\ steps[1].flag = flag
    BY <1>7
  <2> QED BY <2>1, <2>2, <2>3 DEF Quiet, SetStep
<1>10. KeepsBut(h)
  <2>1. \A x \in Handle \ {h} : data'[x] = data[x] /\ loaded'[x] = loaded[x]
    BY <1>4 DEF Struct, Basic
  <2> QED BY <1>4, <2>1, DataKeeps
<1>11. HoldsAlike(h)
  <2>1. Others(t) /\ todo[t] = <<>> /\ todo'[t] = steps /\ on'[t] = IF steps = <<>> THEN <<>> ELSE objs
    BY <1>4, <1>5, <1>7, BeginIs DEF Struct
  <2>2. on'[t][1] = h
    <3>1. steps # <<>>
      BY <1>6 DEF PullOf
    <3> QED BY <1>5, <2>1, <3>1
  <2>3. ASSUME NEW f \in Flags, NEW c \in Block PROVE Holds(h, f, c)' <=> Holds(h, f, c)
    <3>1. Pending(h, f) <=> PendingElse(t, h, f)
      BY <2>1, NoSets, PendingMoves
    <3>2. Pending(h, f)' <=> (S # {} /\ f = flag) \/ PendingElse(t, h, f)
      <4>1. Sets(t, h, f)' <=> S # {} /\ f = flag
        BY <1>9, <2>1, <2>2 DEF Sets
      <4> QED BY <2>1, <4>1, PendingMoves
    <3>3. f \in loaded'[h] <=> f \in loaded[h] \/ f = flag
      BY <1>1, <1>4 DEF Struct, Basic
    <3>4. S # {} <=> flag \notin loaded[h]
      BY <1>1 DEF S
    <3>5. Chunk(h)' = Chunk(h) /\ data' = data
      BY <1>4 DEF Chunk
    <3> QED BY <3>1, <3>2, <3>3, <3>4, <3>5 DEF Holds
  <2> QED BY <2>3 DEF HoldsAlike
<1> QED BY <1>4, <1>5, <1>7, <1>9, <1>10, <1>11, BeginCounts
-----------------------------------------------------------------------------
(* Uses are set and unset.                                                 *)

LEMMA UnsetUseCounts ==
    ASSUME Struct, UseCounted, NEW t \in Thread, UnsetUse(t)
    PROVE  UseCounted'
<1>1. /\ todo[t] # <<>> /\ Head(todo[t]).op = "unset" /\ Done(t)
      /\ ObjectsStay /\ UNCHANGED objects
      /\ useCnt' = [useCnt EXCEPT ![Subject(t)] = useCnt[Subject(t)] - Head(todo[t]).n]
  BY DEF UnsetUse, Locks, At, ObjectsStay, objects
<1>2. Typed' /\ Goes(t) /\ Typed /\ Others(t)
  BY <1>1, DoneGoes DEF Goes, Struct
<1>3. PICK s \in Seq(Steps), q \in Seq(Steps) : s = todo[t] /\ q = todo'[t]
  BY <1>2, GoesFor DEF Goes
<1>4. /\ Len(s) > 0 /\ Rest(q, s) /\ s[1].op = "unset" /\ s[1] = Head(todo[t])
      /\ Subject(t) = s[1].b /\ s[1].b \in Block /\ s[1].n \in {1, 2}
  <2>1. Len(s) > 0 /\ Rest(q, s)
    BY <1>2, <1>3, GoesFor DEF Goes
  <2>2. Head(todo[t]) = s[1] /\ s[1].op = "unset"
    BY <1>1, <1>2, <1>3, AtIs
  <2>3. Subject(t) = Head(todo[t]).b
    BY <1>1, <1>2, AtIs
  <2>4. Head(todo[t]).b \in Block /\ Head(todo[t]).n \in {1, 2}
    BY <1>1, <1>2, AtIs, StepKinds
  <2> QED BY <2>1, <2>2, <2>3, <2>4
<1>5. PICK b \in Block, n \in {1, 2} : b = s[1].b /\ n = s[1].n
  BY <1>4
<1>6. /\ \A c : c # b => Owes(t, q, c) = Owes(t, s, c)
      /\ Cardinality(Owes(t, s, b)) = Cardinality(Owes(t, q, b)) + n
      /\ \A f : SetStep(q, f) <=> SetStep(s, f)
  BY <1>4, <1>5, RestUnset
<1>7. PICK x \in Ptr \cup Handle : x = on[t][1]
  BY <1>2, GoesFor
<1>8. \A c \in Block : Held(c)' = Held(c)
  <2>1. x \in Handle => HoldsAlike(x)
    <3>1. \A f : SetStep(todo'[t], f) <=> SetStep(todo[t], f)
      BY <1>3, <1>6
    <3>2. \A f : Sets(t, x, f)' <=> Sets(t, x, f)
      BY <1>2, <3>1, SetsAfter
    <3> QED BY <1>1, <1>2, <3>2, AlikeStays
  <2>2. KeepsBut(x) /\ WorksFor(t, x)
    BY <1>1, <1>2, <1>7, ObjectsStruct, GoesFor
  <2> QED BY <1>2, <2>1, <2>2, HeldAlike
<1>9. ASSUME NEW c \in Block PROVE useCnt'[c] = Cardinality(Held(c)') + Cardinality(Owed(c)')
  <2>1. useCnt[c] \in Int /\ useCnt'[c] = IF c = b THEN useCnt[c] - n ELSE useCnt[c]
    BY <1>1, <1>4, <1>5 DEF Struct, Basic
  <2>2. /\ Cardinality(Held(c)) \in Nat /\ Held(c)' = Held(c)
        /\ Cardinality(Owes(t, s, c)) \in Nat /\ Cardinality(Owes(t, q, c)) \in Nat
        /\ useCnt[c] = Cardinality(Held(c)) + Cardinality(Owed(c))
    BY <1>8, HeldFinite, OwesFinite DEF UseCounted
  <2>3. CASE c = b
    <3>1. -n \in Int /\ useCnt'[c] = useCnt[c] + (-n)
      BY <2>1, <2>3
    <3>2. Cardinality(Held(c)') + Cardinality(Owes(t, todo'[t], c))
              = Cardinality(Held(c)) + Cardinality(Owes(t, todo[t], c)) + (-n)
      BY <1>3, <1>6, <2>2, <2>3
    <3> QED BY <1>2, <2>2, <3>1, <3>2, Balance
  <2>4. CASE c # b
    <3>1. 0 \in Int /\ useCnt'[c] = useCnt[c] + 0
      BY <2>1, <2>4
    <3>2. Cardinality(Held(c)') + Cardinality(Owes(t, todo'[t], c))
              = Cardinality(Held(c)) + Cardinality(Owes(t, todo[t], c)) + 0
      BY <1>3, <1>6, <2>2, <2>4
    <3> QED BY <1>2, <2>2, <3>1, <3>2, Balance
  <2> QED BY <2>3, <2>4
<1> QED BY <1>9 DEF UseCounted

\* The first step sets a use, for a handle or before a step that unsets it.
SetsFirst(t, h, flag, b) ==
    /\ on[t][1] = h /\ h \in Handle /\ data[h] # None /\ Chunk(h) = b
    /\ flag \in loaded[h] /\ ~ SetsLater(todo[t], flag)
    /\ Len(todo[t]) = 1 \/ todo[t][2].op # "unset"

LEMMA SetsFirstIs ==
    ASSUME Struct, NEW t \in Thread, todo[t] # <<>>, todo[t][1].op \in {"set", "await"}
    PROVE  \/ SetsFirst(t, on[t][1], todo[t][1].flag, todo[t][1].b)
           \/ on[t][1] \in Ptr /\ Len(todo[t]) > 1 /\ todo[t][2] = Unset(todo[t][1].b, 1)
<1>1. Len(todo[t]) \in Nat \ {0} /\ SetOK(t, 1)
  BY AtIs DEF StepOK
<1> DEFINE s == todo[t]
           n == Len(s)
<1>2. CASE /\ ForHandle(t, s[1].b) /\ s[1].flag \in loaded[on[t][1]]
           /\ \/ \A j \in (1 + 1)..n : s[j].op = "set" /\ s[j].flag # s[1].flag
              \/ n = 1 + 1 /\ s[1 + 1].op = "loc"
  <2>1. \A j \in 2..n : \/ s[j].op = "set" /\ s[j].flag # s[1].flag
                        \/ j = 2 /\ s[2].op = "loc"
    <3>1. 1 + 1 = 2
      OBVIOUS
    <3>2. CASE \A j \in (1 + 1)..n : s[j].op = "set" /\ s[j].flag # s[1].flag
      BY <3>1, <3>2
    <3>3. CASE n = 1 + 1 /\ s[1 + 1].op = "loc"
      <4>1. n = 2 /\ s[2].op = "loc"
        BY <3>1, <3>3
      <4> HIDE DEF n, s
      <4>2. \A j \in 2..n : j = 2
        BY <4>1
      <4> QED BY <4>1, <4>2
    <3> QED BY <1>2, <3>2, <3>3
  <2>2. n = 1 \/ 2 \in 2..n
    <3>1. PICK m \in Nat \ {0} : m = Len(s)
      BY <1>1
    <3>2. m = 1 \/ 2 \in 2..m
      OBVIOUS
    <3> QED BY <3>1, <3>2
  <2>3. n = 1 \/ s[2].op # "unset"
    BY <2>1, <2>2
  <2>4. ~ SetsLater(s, s[1].flag)
    BY <2>1 DEF SetsLater
  <2> QED BY <1>2, <2>3, <2>4 DEF SetsFirst, ForHandle
<1>3. CASE ForPtr(t, 1, s[1].b) /\ 1 < n /\ s[1 + 1] = Unset(s[1].b, 1)
  <2>1. 1 + 1 = 2 /\ n > 1
    BY <1>1, <1>3
  <2>2. on[t][1] \in Ptr
    BY <1>3 DEF ForPtr, Deletes
  <2> QED BY <1>3, <2>1, <2>2
<1> QED BY <1>1, <1>2, <1>3 DEF SetOK

LEMMA SetUseCounts ==
    ASSUME Struct, UseCounted, NEW t \in Thread, SetUse(t)
    PROVE  UseCounted'
<1>1. /\ todo[t] # <<>> /\ Head(todo[t]).op = "set"
      /\ ObjectsStay /\ UNCHANGED objects
      /\ useCnt' = [useCnt EXCEPT ![Subject(t)] = @ + 1]
  BY DEF SetUse, Locks, At, ObjectsStay, objects
<1>2. Typed' /\ Goes(t) /\ Typed /\ Others(t)
  <2>1. CASE Done(t)
    BY <1>1, <2>1, DoneGoes DEF Goes, Struct
  <2>2. CASE Continue(t, <<[Head(todo[t]) EXCEPT !.op = "await"]>> \o Tail(todo[t]))
    <3> DEFINE e == [Head(todo[t]) EXCEPT !.op = "await"]
    <3>1. e \in Steps /\ e.op = "await"
      <4>1. Head(todo[t]) \in [op : {"set", "await"}, b : Block, flag : Flags]
        <5>1. Head(todo[t]) \in Steps
          BY <1>1, AtIs
        <5> QED BY <1>1, <5>1 DEF Steps
      <4>2. e \in [op : {"set", "await"}, b : Block, flag : Flags] /\ e.op = "await"
        BY <4>1
      <4> QED BY <4>2 DEF Steps
    <3>2. Continue(t, <<e>> \o Tail(todo[t]))
      BY <2>2
    <3> HIDE DEF e
    <3> QED BY <1>1, <3>1, <3>2, WaitGoes DEF Goes, Struct
  <2> QED BY <2>1, <2>2 DEF SetUse
<1>3. PICK s \in Seq(Steps), q \in Seq(Steps) : s = todo[t] /\ q = todo'[t]
  BY <1>2, GoesFor DEF Goes
<1>4. /\ Len(s) > 0 /\ Rest(q, s) /\ s[1].op = "set"
      /\ Subject(t) = s[1].b /\ s[1].b \in Block /\ s[1].flag \in Flags
  <2>1. Len(s) > 0 /\ Rest(q, s)
    BY <1>2, <1>3, GoesFor DEF Goes
  <2>2. Head(todo[t]) = s[1] /\ s[1].op = "set"
    BY <1>1, <1>2, <1>3, AtIs
  <2>3. Subject(t) = Head(todo[t]).b
    BY <1>1, <1>2, AtIs
  <2>4. Head(todo[t]).b \in Block /\ Head(todo[t]).flag \in Flags
    BY <1>1, <1>2, AtIs, StepKinds
  <2> QED BY <2>1, <2>2, <2>3, <2>4
<1>5. PICK b \in Block, f \in Flags : b = s[1].b /\ f = s[1].flag
  BY <1>4
<1>6. PICK x \in Ptr \cup Handle : x = on[t][1]
  BY <1>2, GoesFor
<1>7. KeepsBut(x) /\ WorksFor(t, x)
  BY <1>1, <1>2, <1>6, ObjectsStruct, GoesFor
<1>8. \A c \in Block : /\ useCnt[c] \in Int /\ useCnt'[c] = IF c = b THEN useCnt[c] + 1 ELSE useCnt[c] + 0
                       /\ Cardinality(Held(c)) \in Nat /\ Cardinality(Owes(t, s, c)) \in Nat
                       /\ useCnt[c] = Cardinality(Held(c)) + Cardinality(Owed(c))
  <2>1. \A c \in Block : useCnt[c] \in Int /\ useCnt'[c] = IF c = b THEN useCnt[c] + 1 ELSE useCnt[c]
    BY <1>1, <1>4, <1>5 DEF Struct, Basic
  <2> QED BY <2>1, HeldFinite, OwesFinite DEF UseCounted
<1>9. CASE on[t][1] \in Ptr /\ Len(todo[t]) > 1 /\ todo[t][2] = Unset(todo[t][1].b, 1)
  <2>1. Len(s) > 1 /\ s[2].op = "unset" /\ s[2].n = 1 /\ s[2].b = b
    BY <1>3, <1>5, <1>9, StepsAre
  <2>2. /\ \A c : c # b => Owes(t, q, c) = Owes(t, s, c)
        /\ Cardinality(Owes(t, q, b)) = Cardinality(Owes(t, s, b)) + 1
    BY <1>4, <2>1, RestSet
  <2>3. x \notin Handle
    BY <1>6, <1>9, HandleAssumption
  <2>4. \A c \in Block : Held(c)' = Held(c)
    BY <1>2, <1>7, <2>3, HeldAlike
  <2>5. ASSUME NEW c \in Block PROVE useCnt'[c] = Cardinality(Held(c)') + Cardinality(Owed(c)')
    <3>1. CASE c = b
      <4>1. 1 \in Int /\ useCnt'[c] = useCnt[c] + 1
        BY <1>8, <3>1
      <4>2. Cardinality(Held(c)') + Cardinality(Owes(t, todo'[t], c))
                = Cardinality(Held(c)) + Cardinality(Owes(t, todo[t], c)) + 1
        <5>1. Held(c)' = Held(c)
          BY <2>4
        <5> QED BY <1>3, <1>8, <2>2, <3>1, <5>1
      <4> QED BY <1>2, <1>8, <4>1, <4>2, Balance
    <3>2. CASE c # b
      <4>1. 0 \in Int /\ useCnt'[c] = useCnt[c] + 0
        BY <1>8, <3>2
      <4>2. Cardinality(Held(c)') + Cardinality(Owes(t, todo'[t], c))
                = Cardinality(Held(c)) + Cardinality(Owes(t, todo[t], c)) + 0
        <5>1. Held(c)' = Held(c)
          BY <2>4
        <5> QED BY <1>3, <1>8, <2>2, <3>2, <5>1
      <4> QED BY <1>2, <1>8, <4>1, <4>2, Balance
    <3> QED BY <3>1, <3>2
  <2> QED BY <2>5 DEF UseCounted
<1>10. CASE SetsFirst(t, on[t][1], todo[t][1].flag, todo[t][1].b)
  <2>1. /\ x \in Handle /\ data[x] # None /\ Chunk(x) = b /\ f \in loaded[x]
        /\ ~ SetsLater(s, f) /\ (Len(s) = 1 \/ s[2].op # "unset")
    BY <1>3, <1>5, <1>6, <1>10 DEF SetsFirst
  <2>2. \A c : Owes(t, q, c) = Owes(t, s, c)
    BY <1>4, <2>1, RestSet
  <2>3. \A g : (SetStep(s, g) <=> g = f \/ SetStep(q, g)) /\ (SetStep(q, g) <=> SetsLater(s, g))
    BY <1>4, <1>5, RestSet, RestSets
  <2>4. \A g : (Sets(t, x, g) <=> SetStep(s, g)) /\ (Sets(t, x, g)' <=> SetStep(q, g))
    <3>1. \A g : Sets(t, x, g) <=> SetStep(s, g)
      BY <1>3, <1>6 DEF Sets
    <3>2. CASE todo'[t] = <<>>
      BY <1>3, <3>1, <3>2, NoSteps DEF Sets
    <3>3. CASE todo'[t] # <<>>
      BY <1>2, <1>3, <1>6, <3>1, <3>3 DEF Sets, Goes
    <3> QED BY <3>2, <3>3
  <2>5. ~ PendingElse(t, x, f)
    <3>1. SUFFICES ASSUME NEW u \in Thread \ {t}, NEW i \in 1..Len(todo[u]), on[u][1] = x,
                          todo[u][i].op = "set", todo[u][i].flag = f
                   PROVE  FALSE
      BY DEF PendingElse, Sets, SetStep
    <3>2. 1 \in 1..Len(todo[t]) /\ todo[t][1].op = "set" /\ todo[t][1].flag = f
      BY <1>1, <1>3, <1>4, <1>5, AtIs
    <3> QED BY <1>6, <3>1, <3>2 DEF Struct, SetOnce
  <2>6. Chunk(x)' = Chunk(x) /\ UNCHANGED <<data, loaded>>
    BY <1>1 DEF Chunk, objects
  <2>7. ASSUME NEW g, NEW c, ~ (g = f /\ c = b) PROVE Holds(x, g, c)' <=> Holds(x, g, c)
    <3>1. CASE c # b
      BY <2>1, <2>6, <3>1 DEF Holds
    <3>2. CASE g # f
      <4>1. Sets(t, x, g)' <=> Sets(t, x, g)
        BY <2>3, <2>4, <3>2
      <4>2. Pending(x, g)' <=> Pending(x, g)
        BY <1>2, <4>1, PendingMoves
      <4> QED BY <2>6, <4>2 DEF Holds
    <3> QED BY <2>7, <3>1, <3>2
  <2>8. Holds(x, f, b)' /\ ~ Holds(x, f, b)
    <3>1. Pending(x, f) /\ ~ Pending(x, f)'
      <4>1. Sets(t, x, f) /\ ~ Sets(t, x, f)'
        BY <2>1, <2>3, <2>4
      <4> QED BY <1>2, <2>5, <4>1, PendingMoves
    <3> QED BY <2>1, <2>6, <3>1 DEF Holds
  <2>9. \A c \in Block \ {b} : Held(c)' = Held(c)
    <3>1. ASSUME NEW c \in Block \ {b} PROVE Held(c)' = Held(c)
      <4>1. ASSUME NEW h \in Handle, NEW g \in Flags PROVE Holds(h, g, c)' <=> Holds(h, g, c)
        <5>1. CASE h = x
          BY <2>7, <5>1
        <5>2. CASE h # x
          BY <1>2, <1>7, <5>2, HoldsBut
        <5> QED BY <5>1, <5>2
      <4> QED BY <4>1, HeldSame
    <3> QED BY <3>1
  <2>10. Cardinality(Held(b)') = Cardinality(Held(b)) + 1
    <3>1. ASSUME NEW h \in Handle, NEW g \in Flags
          PROVE  Holds(h, g, b)' <=> Holds(h, g, b) \/ (h = x /\ g = f)
      <4>1. CASE h = x /\ g = f
        BY <2>8, <4>1
      <4>2. CASE h = x /\ g # f
        BY <2>7, <4>2
      <4>3. CASE h # x
        BY <1>2, <1>7, <4>3, HoldsBut
      <4> QED BY <4>1, <4>2, <4>3
    <3> DEFINE w == <<x, f>>
    <3>2. ASSUME NEW u \in Held(b)' PROVE u \in Held(b) \cup {w}
      <4>1. PICK h \in Handle, g \in Flags : u = <<h, g>> /\ Holds(h, g, b)'
        BY HeldIs
      <4>2. CASE h = x /\ g = f
        BY <4>1, <4>2
      <4>3. CASE Holds(h, g, b)
        BY <4>1, <4>3, HeldIs
      <4> QED BY <3>1, <4>1, <4>2, <4>3
    <3>3. ASSUME NEW u \in Held(b) PROVE u \in Held(b)'
      <4>1. PICK h \in Handle, g \in Flags : u = <<h, g>> /\ Holds(h, g, b)
        BY HeldIs
      <4> QED BY <3>1, <4>1, HeldIs
    <3>4. w \in Held(b)' /\ w \notin Held(b)
      BY <2>1, <2>8, HeldIs
    <3> HIDE DEF w
    <3>5. Held(b)' = Held(b) \cup {w}
      BY <3>2, <3>3, <3>4
    <3>6. Cardinality(Held(b) \cup {w}) = Cardinality(Held(b)) + 1
      BY <3>4, HeldFinite, FS_AddElement
    <3> QED BY <3>5, <3>6
  <2>11. ASSUME NEW c \in Block PROVE useCnt'[c] = Cardinality(Held(c)') + Cardinality(Owed(c)')
    <3>1. Cardinality(Owes(t, todo'[t], c)) = Cardinality(Owes(t, todo[t], c))
      BY <1>3, <2>2
    <3>2. CASE c = b
      <4>1. 1 \in Int /\ useCnt'[c] = useCnt[c] + 1
        BY <1>8, <3>2
      <4>2. Cardinality(Held(c)') = Cardinality(Held(c)) + 1
        BY <2>10, <3>2
      <4>3. Cardinality(Held(c)') + Cardinality(Owes(t, todo'[t], c))
                = Cardinality(Held(c)) + Cardinality(Owes(t, todo[t], c)) + 1
        BY <1>3, <1>8, <3>1, <4>2
      <4> QED BY <1>2, <1>8, <4>1, <4>3, Balance
    <3>3. CASE c # b
      <4>1. 0 \in Int /\ useCnt'[c] = useCnt[c] + 0
        BY <1>8, <3>3
      <4>2. Held(c)' = Held(c)
        BY <2>9, <3>3
      <4>3. Cardinality(Held(c)') + Cardinality(Owes(t, todo'[t], c))
                = Cardinality(Held(c)) + Cardinality(Owes(t, todo[t], c)) + 0
        BY <1>3, <1>8, <3>1, <4>2
      <4> QED BY <1>2, <1>8, <4>1, <4>3, Balance
    <3> QED BY <3>2, <3>3
  <2> QED BY <2>11 DEF UseCounted
<1> QED BY <1>1, <1>9, <1>10, AtIs, SetsFirstIs
-----------------------------------------------------------------------------
(* A handle gives up its uses.                                             *)

\* These steps unset n uses of b and none of another chunk.
OweOnly(t, s, b, n) ==
    /\ Cardinality(Owes(t, s, b)) = n
    /\ \A c \in Block \ {b} : Owes(t, s, c) = {}

LEMMA OweNothing ==
    ASSUME NEW s \in Seq(Steps), Quiet(s), NEW t, NEW b \in Block
    PROVE  OweOnly(t, s, b, 0)
<1>1. \A c \in Block : Owes(t, s, c) = {}
  BY QuietOwes
<1>2. Cardinality({}) = 0
  BY FS_EmptySet
<1> QED BY <1>1, <1>2 DEF OweOnly

LEMMA OweNext ==
    ASSUME NEW s \in Seq(Steps), s # <<>>, NEW b \in Block, NEW n \in {1, 2}, s[1] = Unset(b, n),
           NEW t, NEW m \in Nat, OweOnly(t, Tail(s), b, m)
    PROVE  OweOnly(t, s, b, m + n)
<1>1. /\ Tail(s) \in Seq(Steps) /\ Len(Tail(s)) = Len(s) - 1 /\ Len(s) \in Nat \ {0}
      /\ \A i \in 1..Len(Tail(s)) : Tail(s)[i] = s[i + 1]
  BY TailIs
<1>6. PICK q \in Seq(Steps) : q = Tail(s)
  BY <1>1
<1>2. s[1].op = "unset" /\ s[1].b = b /\ s[1].n = n
  <2>1. Unset(b, n).op = "unset" /\ Unset(b, n).b = b /\ Unset(b, n).n = n
    BY StepsAre
  <2> QED BY <2>1
<1>3. Rest(q, s) /\ Len(s) > 0
  <2>1. Len(q) = Len(s) - 1 /\ \A i \in 1..Len(q) : q[i] = s[i + 1]
    BY <1>1, <1>6, Zenon
  <2>2. Rest(q, s)
    BY <2>1, Zenon DEF Rest
  <2> QED BY <1>1, <2>2
<1>4. /\ \A c : c # s[1].b => Owes(t, q, c) = Owes(t, s, c)
      /\ Cardinality(Owes(t, s, s[1].b)) = Cardinality(Owes(t, q, s[1].b)) + s[1].n
  BY <1>2, <1>3, RestUnset
<1>5. OweOnly(t, q, b, m)
  BY <1>6
<1> QED BY <1>2, <1>4, <1>5 DEF OweOnly

LEMMA OweUnset ==
    ASSUME NEW b \in Block, NEW n \in {1, 2}, NEW t
    PROVE  <<Unset(b, n)>> \in Seq(Steps) /\ OweOnly(t, <<Unset(b, n)>>, b, n)
<1> DEFINE u == Unset(b, n)
           s == <<u>>
<1>1. u \in Steps
  BY StepsAre
<1>2. s \in Seq(Steps) /\ s # <<>> /\ s[1] = u /\ Tail(s) = <<>>
  BY <1>1
<1>3. OweOnly(t, <<>>, b, 0)
  BY NoSteps, OweNothing
<1> HIDE DEF s
<1>4. OweOnly(t, s, b, 0 + n)
  BY <1>2, <1>3, OweNext
<1> QED BY <1>2, <1>4 DEF s

LEMMA OweLast ==
    ASSUME NEW q \in Seq(Steps), Len(q) = 1, q[1].op = "adopt", NEW b \in Block, NEW t
    PROVE  OweOnly(t, q, b, 0)
<1>1. \A i \in 1..Len(q) : i = 1
  OBVIOUS
<1>2. \A i \in 1..Len(q) : q[i].op # "unset"
  BY <1>1
<1> QED BY <1>2, OweNothing DEF Quiet

LEMMA OweLastTwo ==
    ASSUME NEW q \in Seq(Steps), Len(q) = 2, NEW b \in Block, q[1] = Unset(b, 1), q[2].op = "adopt", NEW t
    PROVE  OweOnly(t, q, b, 1)
<1>1. q # <<>>
  BY EmptySeq
<1>2. Tail(q) \in Seq(Steps) /\ Len(Tail(q)) = 1 /\ Tail(q)[1] = q[2]
  <2>1. /\ Tail(q) \in Seq(Steps) /\ Len(Tail(q)) = Len(q) - 1
        /\ \A i \in 1..Len(Tail(q)) : Tail(q)[i] = q[i + 1]
    BY <1>1, TailIs
  <2>2. PICK r \in Seq(Steps) : r = Tail(q)
    BY <2>1
  <2>3. Len(r) = 1 /\ \A i \in 1..Len(r) : r[i] = q[i + 1]
    BY <2>1, <2>2
  <2>4. 1 \in 1..1 /\ 1 + 1 = 2
    OBVIOUS
  <2>5. r[1] = q[2]
    BY <2>3, <2>4, Zenon
  <2> QED BY <2>2, <2>3, <2>5
<1>3. OweOnly(t, Tail(q), b, 0)
  BY <1>2, OweLast
<1>4. OweOnly(t, q, b, 0 + 1)
  BY <1>1, <1>3, OweNext
<1> QED BY <1>4

LEMMA OweOneByOne ==
    ASSUME NEW b \in Block, NEW n \in {0, 1, 2}, NEW s \in Seq(Steps), Len(s) = n + 1,
           s[n + 1].op = "adopt", \A i \in 1..n : s[i] = Unset(b, 1), NEW t
    PROVE  OweOnly(t, s, b, n)
<1>1. CASE n = 0
  <2>1. Len(s) = 1 /\ s[1].op = "adopt"
    BY <1>1
  <2> QED BY <1>1, <2>1, OweLast
<1>2. CASE n = 1
  <2>1. Len(s) = 2 /\ s[1] = Unset(b, 1) /\ s[2].op = "adopt"
    BY <1>2
  <2> QED BY <1>2, <2>1, OweLastTwo
<1>3. CASE n = 2
  <2>1. Len(s) = 3 /\ s[1] = Unset(b, 1) /\ s[2] = Unset(b, 1) /\ s[3].op = "adopt"
    BY <1>3
  <2>2. s # <<>>
    BY <2>1, EmptySeq
  <2>3. Tail(s) \in Seq(Steps) /\ Len(Tail(s)) = 2 /\ Tail(s)[1] = s[2] /\ Tail(s)[2] = s[3]
    <3>1. /\ Tail(s) \in Seq(Steps) /\ Len(Tail(s)) = Len(s) - 1
          /\ \A i \in 1..Len(Tail(s)) : Tail(s)[i] = s[i + 1]
      BY <2>2, TailIs
    <3>2. PICK r \in Seq(Steps) : r = Tail(s)
      BY <3>1
    <3>3. Len(r) = 2 /\ \A i \in 1..Len(r) : r[i] = s[i + 1]
      BY <2>1, <3>1, <3>2
    <3>4. 1 \in 1..2 /\ 1 + 1 = 2 /\ 2 \in 1..2 /\ 2 + 1 = 3
      OBVIOUS
    <3>5. r[1] = s[2] /\ r[2] = s[3]
      BY <3>3, <3>4, Zenon
    <3> QED BY <3>2, <3>3, <3>5
  <2>4. OweOnly(t, Tail(s), b, 1)
    BY <2>1, <2>3, OweLastTwo
  <2>5. OweOnly(t, s, b, 1 + 1)
    BY <2>1, <2>2, <2>4, OweNext
  <2> QED BY <1>3, <2>5
<1> QED BY <1>1, <1>2, <1>3

\* One flag, one use.
LEMMA LoadedCard ==
    ASSUME NEW L \in SUBSET Flags, NEW h
    PROVE  IsFiniteSet({h} \X L) /\ Cardinality({h} \X L) = Cardinality(L)
<1>1. L \in {{}, {"read"}, {"write"}, {"read", "write"}}
  BY FlagSets
<1>2. /\ {h} \X {} = {} /\ {h} \X {"read"} = {<<h, "read">>} /\ {h} \X {"write"} = {<<h, "write">>}
      /\ {h} \X {"read", "write"} = {<<h, "read">>, <<h, "write">>}
  <2>1. {h} \X {} = {}
    OBVIOUS
  <2>2. \A x : {h} \X {x} = {<<h, x>>}
    OBVIOUS
  <2>3. \A x, y : {h} \X {x, y} = {<<h, x>>, <<h, y>>}
    OBVIOUS
  <2> QED BY <2>1, <2>2, <2>3
<1>3. <<h, "read">> # <<h, "write">> /\ "read" # "write"
  OBVIOUS
<1>4. /\ \A x : IsFiniteSet({x}) /\ Cardinality({x}) = 1
      /\ IsFiniteSet({}) /\ Cardinality({}) = 0
  BY FS_EmptySet, FS_Singleton
<1>5. IsFiniteSet({h} \X L) /\ Cardinality({h} \X L) = Cardinality(L)
  <2>1. CASE L = {}
    <3>1. {h} \X L = {}
      BY <1>2, <2>1
    <3> QED BY <1>4, <2>1, <3>1
  <2>2. CASE L = {"read"}
    <3>1. {h} \X L = {<<h, "read">>}
      BY <1>2, <2>2
    <3> QED BY <1>4, <2>2, <3>1
  <2>3. CASE L = {"write"}
    <3>1. {h} \X L = {<<h, "write">>}
      BY <1>2, <2>3
    <3> QED BY <1>4, <2>3, <3>1
  <2>4. CASE L = {"read", "write"}
    <3>1. {h} \X L = {<<h, "read">>, <<h, "write">>}
      BY <1>2, <2>4
    <3>2. Cardinality({"read", "write"}) = 2
      BY <1>3, Pairs
    <3>3. /\ Cardinality({<<h, "read">>, <<h, "write">>}) = 2
          /\ IsFiniteSet({<<h, "read">>, <<h, "write">>})
      BY <1>3, Pairs
    <3> QED BY <2>4, <3>1, <3>2, <3>3
  <2> QED BY <1>1, <2>1, <2>2, <2>3, <2>4
<1> QED BY <1>5

\* A handle nobody works on lets go: what it held of its chunk is owed instead.
LEMMA LetsGoCounts ==
    ASSUME Struct, UseCounted, NEW t \in Thread, NEW h \in Handle, data[h] # None,
           Alone(t, <<h>>), LetsGo(h), UNCHANGED <<useCnt, ptr>>,
           \A x \in Handle \ {h} : data'[x] = data[x],
           NEW objs \in Seq(Ptr \cup Handle), Len(objs) \in {1, 2}, objs[1] = h,
           NEW steps \in Seq(Steps), Begin(t, objs, steps),
           OweOnly(t, steps, Chunk(h), Cardinality(loaded[h]))
    PROVE  UseCounted'
<1>1. /\ Typed /\ Typed' /\ Others(t) /\ todo[t] = <<>>
      /\ todo'[t] = steps /\ on'[t] = IF steps = <<>> THEN <<>> ELSE objs
  BY BeginIs DEF Struct
<1>2. PICK b \in Block : b = Chunk(h)
  BY DEF Chunk, Struct, Anchored, Basic
<1>3. PICK L \in SUBSET Flags : L = loaded[h]
  BY DEF Struct, Basic
<1>4. loaded'[h] = {} /\ \A x \in Handle \ {h} : loaded'[x] = loaded[x]
  BY DEF LetsGo, Struct, Basic
<1>5. KeepsBut(h) /\ WorksFor(t, h)
  <2>1. \A x \in Handle \ {h} : data'[x] = data[x] /\ loaded'[x] = loaded[x]
    BY <1>4
  <2>2. given' = given \ {h} /\ failed' = failed \ {h}
    BY DEF LetsGo
  <2> QED BY <1>1, <2>1, <2>2, DataKeeps DEF WorksFor
<1>6. \A f : ~ Pending(h, f)
  <2>1. SUFFICES ASSUME NEW u \in Thread, NEW f, Sets(u, h, f) PROVE FALSE
    BY PendingIs
  <2>2. todo[u] # <<>> /\ on[u][1] = h
    BY <2>1, NoSets DEF Sets
  <2>3. u # t /\ h \in Range(on[u])
    BY <1>1, <2>2, Working
  <2>4. h \in Range(<<h>>)
    BY TupleRange
  <2> QED BY <2>3, <2>4 DEF Alone
<1>7. \A f, c : /\ ~ Holds(h, f, c)'
                /\ Holds(h, f, c) <=> c = b /\ f \in L
  BY <1>2, <1>3, <1>4, <1>6 DEF Holds
<1>8. ASSUME NEW x \in Handle \ {h}, NEW f, NEW c PROVE Holds(x, f, c)' <=> Holds(x, f, c)
  BY <1>1, <1>5, HoldsBut
<1>9. \A c \in Block \ {b} : Held(c)' = Held(c)
  <2>1. ASSUME NEW c \in Block \ {b} PROVE Held(c)' = Held(c)
    <3>1. \A x \in Handle, f \in Flags : Holds(x, f, c)' <=> Holds(x, f, c)
      BY <1>7, <1>8, <2>1
    <3> QED BY <3>1, HeldSame
  <2> QED BY <2>1
<1>10. Cardinality(Held(b)) = Cardinality(Held(b)') + Cardinality(L)
  <2> DEFINE U == {h} \X L
             H == Held(b)
             R == Held(b)'
  <2>1. /\ IsFiniteSet(U) /\ Cardinality(U) = Cardinality(L)
        /\ \A u : u \in U <=> \E f \in L : u = <<h, f>>
    <3>1. IsFiniteSet({h} \X L) /\ Cardinality({h} \X L) = Cardinality(L)
      BY LoadedCard, Zenon
    <3>2. \A u : u \in {h} \X L <=> \E f \in L : u = <<h, f>>
      OBVIOUS
    <3> QED BY <3>1, <3>2, Zenon DEF U
  <2>2. /\ IsFiniteSet(H) /\ IsFiniteSet(R)
        /\ \A u \in H : \E x \in Handle, f \in Flags : u = <<x, f>> /\ Holds(x, f, b)
        /\ \A x \in Handle, f \in Flags : <<x, f>> \in H <=> Holds(x, f, b)
        /\ \A u \in R : \E x \in Handle, f \in Flags : u = <<x, f>> /\ Holds(x, f, b)'
        /\ \A x \in Handle, f \in Flags : <<x, f>> \in R <=> Holds(x, f, b)'
    BY HeldFinite, HeldIs
  <2> HIDE DEF U, H, R
  <2>3. H = R \cup U
    <3>1. ASSUME NEW u \in H PROVE u \in R \cup U
      <4>1. PICK x \in Handle, f \in Flags : u = <<x, f>> /\ Holds(x, f, b)
        BY <2>2, <3>1
      <4> QED BY <1>7, <1>8, <2>1, <2>2, <4>1
    <3>2. ASSUME NEW u \in R PROVE u \in H
      <4>1. PICK x \in Handle, f \in Flags : u = <<x, f>> /\ Holds(x, f, b)'
        BY <2>2, <3>2
      <4> QED BY <1>7, <1>8, <2>2, <4>1
    <3>3. ASSUME NEW u \in U PROVE u \in H
      <4>1. PICK f \in L : u = <<h, f>>
        BY <2>1, <3>3
      <4> QED BY <1>7, <2>2, <4>1
    <3> QED BY <3>1, <3>2, <3>3
  <2>4. R \cap U = {}
    <3>1. SUFFICES ASSUME NEW u \in R, u \in U PROVE FALSE
      OBVIOUS
    <3>2. PICK f \in L : u = <<h, f>>
      BY <2>1, <3>1
    <3> QED BY <1>7, <2>2, <3>1, <3>2
  <2>5. Cardinality(R \cup U) = Cardinality(R) + Cardinality(U) - Cardinality(R \cap U)
    BY <2>1, <2>2, FS_Union
  <2>6. Cardinality({}) = 0 /\ Cardinality(R) \in Nat /\ Cardinality(U) \in Nat
    BY <2>1, <2>2, FS_EmptySet, FS_CardinalityType
  <2>7. Cardinality(H) = Cardinality(R) + Cardinality(L)
    <3>1. Cardinality(R \cap U) = 0
      BY <2>4, <2>6
    <3>2. Cardinality(H) = Cardinality(R) + Cardinality(U) - 0
      BY <2>3, <2>5, <3>1
    <3> QED BY <2>1, <2>6, <3>2
  <2> QED BY <2>7 DEF H, R
<1>11. \A c : Owes(t, todo[t], c) = {}
  BY <1>1, NoSteps, QuietOwes
<1>12. ASSUME NEW c \in Block PROVE useCnt'[c] = Cardinality(Held(c)') + Cardinality(Owed(c)')
  <2>1. 0 \in Int /\ useCnt'[c] = useCnt[c] + 0
    BY DEF Struct, Basic
  <2>2. useCnt[c] = Cardinality(Held(c)) + Cardinality(Owed(c))
    BY DEF UseCounted
  <2>3. /\ Cardinality(Held(c)) \in Nat /\ Cardinality(Held(c)') \in Nat
        /\ Cardinality(L) \in Nat /\ Cardinality({}) = 0
    BY HeldFinite, FlagSets, FS_EmptySet
  <2>4. Cardinality(Held(c)') + Cardinality(Owes(t, todo'[t], c))
            = Cardinality(Held(c)) + Cardinality(Owes(t, todo[t], c)) + 0
    <3>1. CASE c = b
      <4>1. Cardinality(Owes(t, todo'[t], c)) = Cardinality(L)
        BY <1>1, <1>2, <1>3, <3>1 DEF OweOnly
      <4>2. Cardinality(Owes(t, todo[t], c)) = 0
        BY <1>11, <2>3
      <4> QED BY <1>10, <2>3, <3>1, <4>1, <4>2
    <3>2. CASE c # b
      <4>1. Owes(t, todo'[t], c) = {} /\ Owes(t, todo[t], c) = {} /\ Held(c)' = Held(c)
        BY <1>1, <1>2, <1>9, <1>11, <3>2 DEF OweOnly
      <4> QED BY <2>3, <4>1
    <3> QED BY <3>1, <3>2
  <2> QED BY <1>1, <2>1, <2>2, <2>4, Balance
<1> QED BY <1>12 DEF UseCounted

LEMMA DestroyHandleCounts ==
    ASSUME Struct, UseCounted, NEW t \in Thread, NEW h \in Handle, DestroyHandle(t, h)
    PROVE  UseCounted'
<1> DEFINE p == data[h]
           objs == <<h, p>>
           b == Chunk(h)
           n == Cardinality(loaded[h])
           steps == IF n > 0 THEN <<Unset(b, n)>> ELSE <<>>
<1>1. /\ p # None /\ Alone(t, <<h>>) /\ LetsGo(h) /\ Begin(t, objs, steps)
      /\ data' = [data EXCEPT ![h] = None] /\ UNCHANGED <<useCnt, ptr>>
  BY DEF DestroyHandle, manager
<1>2. p \in Ptr /\ b \in Block /\ n \in {0, 1, 2}
  <2>1. p \in Ptr /\ b \in Block /\ loaded[h] \in SUBSET Flags
    BY <1>1 DEF Struct, Anchored, Basic, Chunk
  <2> QED BY <2>1, FlagSets
<1>3. objs \in Seq(Ptr \cup Handle) /\ Len(objs) = 2 /\ objs[1] = h
  BY <1>2, Objects
<1>4. steps \in Seq(Steps) /\ OweOnly(t, steps, b, n)
  <2> HIDE DEF n, b
  <2>1. CASE n > 0
    <3>1. n \in {1, 2} /\ steps = <<Unset(b, n)>>
      BY <1>2, <2>1
    <3> QED BY <1>2, <3>1, OweUnset
  <2>2. CASE ~ (n > 0)
    <3>1. n = 0 /\ steps = <<>>
      BY <1>2, <2>2
    <3>2. <<>> \in Seq(Steps) /\ OweOnly(t, <<>>, b, 0)
      BY <1>2, NoSteps, OweNothing
    <3> QED BY <3>1, <3>2
  <2> QED BY <2>1, <2>2
<1>5. \A x \in Handle \ {h} : data'[x] = data[x]
  BY <1>1 DEF Struct, Basic
<1> HIDE DEF steps, objs
<1> QED BY <1>1, <1>3, <1>4, <1>5, LetsGoCounts

LEMMA AssignHandleCounts ==
    ASSUME Struct, UseCounted, NEW t \in Thread, NEW g \in Handle, NEW h \in Handle, AssignHandle(t, g, h)
    PROVE  UseCounted'
<1> DEFINE objs == <<g, h>>
           b == Chunk(g)
           c == Chunk(h)
           n == Cardinality(loaded[g])
           a == Adopts(c, loaded[h])
           steps == [i \in 1..n |-> Unset(b, 1)] \o <<a>>
<1>1. /\ data[g] # None /\ data[h] # None /\ Alone(t, objs) /\ LetsGo(g)
      /\ Begin(t, objs, steps) /\ UNCHANGED <<useCnt, ptr, data>>
  BY DEF AssignHandle, manager
<1>2. b \in Block /\ n \in {0, 1, 2} /\ a \in Steps /\ a.op = "adopt"
  <2>1. b \in Block /\ c \in Block /\ loaded[g] \in SUBSET Flags /\ loaded[h] \in SUBSET Flags
    BY <1>1 DEF Struct, Anchored, Basic, Chunk
  <2> QED BY <2>1, FlagSets, StepsAre
<1>3. objs \in Seq(Ptr \cup Handle) /\ Len(objs) = 2 /\ objs[1] = g
  BY Objects
<1>4. steps \in Seq(Steps) /\ OweOnly(t, steps, b, n)
  <2> HIDE DEF n, a, b
  <2>1. /\ steps \in Seq(Steps) /\ Len(steps) = n + 1 /\ steps[n + 1] = a
        /\ \A i \in 1..n : steps[i] = Unset(b, 1)
    BY <1>2, UnsetsAre
  <2> HIDE DEF steps
  <2> QED BY <1>2, <2>1, OweOneByOne
<1>5. Alone(t, <<g>>)
  <2>1. Range(<<g>>) = {g} /\ Range(<<g, h>>) = {g, h}
    BY TupleRange
  <2> QED BY <1>1, <2>1 DEF Alone
<1> HIDE DEF steps, objs
<1> QED BY <1>1, <1>3, <1>4, <1>5, LetsGoCounts
-----------------------------------------------------------------------------
(* The count is right always.                                              *)

LEMMA InitCounts ==
    ASSUME Init
    PROVE  UseCounted
<1>1. ASSUME NEW b \in Block PROVE useCnt[b] = Cardinality(Held(b)) + Cardinality(Owed(b))
  <2>1. Held(b) = {}
    <3>1. \A h \in Handle, f \in Flags : ~ Holds(h, f, b)
      BY DEF Init, Holds
    <3> QED BY <3>1, HeldIs
  <2>2. Owed(b) = {}
    <3>1. ASSUME NEW t \in Thread PROVE OwedBy(t, b) = {}
      <4>1. todo[t] = <<>>
        BY DEF Init
      <4>2. Owes(t, <<>>, b) = {}
        BY NoSteps, QuietOwes
      <4> QED BY <4>1, <4>2, OwedByIs
    <3> QED BY <3>1 DEF Owed
  <2>3. useCnt[b] = 0
    BY DEF Init
  <2>4. Cardinality({}) = 0
    BY FS_EmptySet
  <2> QED BY <2>1, <2>2, <2>3, <2>4
<1> QED BY <1>1 DEF UseCounted

LEMMA CallsCount ==
    ASSUME Struct, UseCounted, NEW t \in Thread, Calls(t)
    PROVE  UseCounted'
<1>1. CASE Spin(t)
  BY <1>1, SameCounts DEF Spin, manager, objects
<1> QED BY <1>1, SetUseCounts, GrantCounts, SetUseThrowsCounts, PrepareUseThrowsCounts,
           UnsetUseCounts, TakeCounts, AdoptCounts, GivePointerCounts DEF Calls

LEMMA OperationsCount ==
    ASSUME Struct, UseCounted, NEW t \in Thread, Operations(t)
    PROVE  UseCounted'
<1>1. ASSUME NEW p \in Ptr, NEW b \in Block, Construct(t, p, b) PROVE UseCounted'
  BY <1>1, ConstructCounts
<1>2. ASSUME NEW p \in Ptr, NEW q \in Ptr, Copy(t, p, q) PROVE UseCounted'
  BY <1>2, CopyCounts
<1>3. ASSUME NEW p \in Ptr, NEW q \in Ptr, Assign(t, p, q) PROVE UseCounted'
  BY <1>3, AssignCounts
<1>4. ASSUME NEW p \in Ptr, Destroy(t, p) PROVE UseCounted'
  BY <1>4, DestroyCounts
<1>5. ASSUME NEW h \in Handle, NEW p \in Ptr, Adhere(t, h, p) PROVE UseCounted'
  BY <1>5, AdhereCounts
<1>6. ASSUME NEW h \in Handle, NEW flag \in Flags, Pull(t, h, flag) PROVE UseCounted'
  BY <1>6, PullCounts
<1>7. ASSUME NEW g \in Handle, NEW h \in Handle, CopyHandle(t, g, h) PROVE UseCounted'
  BY <1>7, CopyHandleCounts
<1>8. ASSUME NEW g \in Handle, NEW h \in Handle, AssignHandle(t, g, h) PROVE UseCounted'
  BY <1>8, AssignHandleCounts
<1>9. ASSUME NEW h \in Handle, DestroyHandle(t, h) PROVE UseCounted'
  BY <1>9, DestroyHandleCounts
<1> QED BY <1>1, <1>2, <1>3, <1>4, <1>5, <1>6, <1>7, <1>8, <1>9 DEF Operations

LEMMA CountNext ==
    ASSUME Struct, UseCounted, [Next]_vars
    PROVE  UseCounted'
<1>1. CASE UNCHANGED vars
  BY <1>1, SameCounts DEF vars
<1>2. ASSUME NEW b \in Block, Evict(b) \/ Fetch(b) \/ Arrive(b) PROVE UseCounted'
  BY <1>2, SameCounts DEF Evict, Fetch, Arrive, objects
<1> QED BY <1>1, <1>2, CallsCount, OperationsCount DEF Next
-----------------------------------------------------------------------------
(* A chunk in RAM is in use exactly if its count says so.                  *)

LEMMA NaturalCounts ==
    ASSUME Struct, UseCounted
    PROVE  /\ useCnt \in [Block -> Nat]
           /\ \A b \in Block : useCnt[b] > 0 <=> Held(b) # {} \/ Owed(b) # {}
<1>1. ASSUME NEW b \in Block
      PROVE  useCnt[b] \in Nat /\ (useCnt[b] > 0 <=> Held(b) # {} \/ Owed(b) # {})
  <2>1. IsFiniteSet(Held(b)) /\ Cardinality(Held(b)) \in Nat
    BY HeldFinite
  <2>2. IsFiniteSet(Owed(b)) /\ Cardinality(Owed(b)) \in Nat
    <3>1. Thread \ {NoThread} = Thread
      BY HandleAssumption
    <3>2. IsFiniteSet(OthersOwe(NoThread, b))
      BY OthersOweFinite DEF Struct
    <3>3. OthersOwe(NoThread, b) = Owed(b)
      BY <3>1 DEF OthersOwe, Owed
    <3> QED BY <3>2, <3>3, FS_CardinalityType
  <2>3. /\ Cardinality(Held(b)) = 0 <=> Held(b) = {}
        /\ Cardinality(Owed(b)) = 0 <=> Owed(b) = {}
    BY <2>1, <2>2, FS_EmptySet
  <2>4. useCnt[b] = Cardinality(Held(b)) + Cardinality(Owed(b))
    BY DEF UseCounted
  <2> QED BY <2>1, <2>2, <2>3, <2>4
<1>2. useCnt \in [Block -> Int]
  BY DEF Struct, Basic
<1> QED BY <1>1, <1>2

\* Who holds or owes a use of a chunk refers to it, or deletes it later.
LEMMA UsesRefer ==
    ASSUME Struct, NEW b \in Block, Held(b) # {} \/ Owed(b) # {}
    PROVE  \/ \E p \in Ptr : ptr[p] = b
           \/ \E u \in Thread : /\ Deletes(u, b)
                                /\ \E j \in 2..Len(todo[u]) : todo[u][j].op = "mfree" /\ todo[u][j].b = b
<1>1. CASE Held(b) # {}
  <2>1. PICK h \in Handle, f \in Flags : Holds(h, f, b)
    BY <1>1, HeldIs
  <2>2. data[h] \in Ptr /\ ptr[data[h]] = b
    BY <2>1 DEF Holds, Chunk, Struct, Basic
  <2> QED BY <2>2
<1>2. CASE Owed(b) # {}
  <2>1. PICK u \in Thread : Owes(u, todo[u], b) # {}
    BY <1>2, OwedByIs DEF Owed
  <2> DEFINE s == todo[u]
             n == Len(s)
  <2>2. s \in Seq(Steps) /\ n \in Nat
    BY DEF Struct, Typed
  <2>3. PICK k \in 1..n : Due(s, n + 1 - k, b)
    BY <2>1, OwesIs
  <2>4. PICK i \in 1..n : i = n + 1 - k
    <3> HIDE DEF n, s
    <3> QED BY <2>2
  <2>5. s[i].op = "unset" /\ s[i].b = b
    BY <2>3, <2>4 DEF Due
  <2>6. UnsetOK(u, i)
    BY <2>5 DEF Struct, Planned, StepOK
  <2>7. ASSUME ForHandle(u, b) PROVE \E p \in Ptr : ptr[p] = b
    BY <2>7 DEF ForHandle, Chunk, Struct, Basic
  <2>8. ASSUME ForPtr(u, i, b)
        PROVE  \/ \E p \in Ptr : ptr[p] = b
               \/ /\ Deletes(u, b)
                  /\ \E j \in 2..n : s[j].op = "mfree" /\ s[j].b = b
    <3>1. CASE on[u][1] \in Ptr /\ ptr[on[u][1]] = b
      BY <3>1
    <3>2. CASE Deletes(u, b) /\ \E j \in (i + 1)..n : s[j].op = "mfree" /\ s[j].b = b
      <4>1. PICK j \in (i + 1)..n : s[j].op = "mfree" /\ s[j].b = b
        BY <3>2
      <4> HIDE DEF n, s
      <4>2. j \in 2..n
        BY <2>2
      <4> QED BY <3>2, <4>1, <4>2
    <3> QED BY <2>8, <3>1, <3>2 DEF ForPtr
  <2> QED BY <2>5, <2>6, <2>7, <2>8 DEF UnsetOK
<1> QED BY <1>1, <1>2

\* A chunk that is not there, or that is about to be deleted, has no use.
LEMMA NoUses ==
    ASSUME Struct, UseCounted, NEW b \in Block \ Empty, status[b] = "ABSENT"
    PROVE  useCnt[b] = 0
<1>1. SUFFICES ASSUME Held(b) # {} \/ Owed(b) # {} PROVE FALSE
  BY NaturalCounts
<1>2. ASSUME NEW p \in Ptr, ptr[p] = b PROVE FALSE
  <2>1. ptr[p] # None
    BY <1>2, HandleAssumption
  <2> QED BY <1>2, <2>1, RefPositive DEF Struct
<1>3. ASSUME NEW u, Deletes(u, b) PROVE FALSE
  BY <1>3 DEF Deletes
<1> QED BY <1>1, <1>2, <1>3, UsesRefer

LEMMA FreedUnused ==
    ASSUME Struct, UseCounted, NEW t \in Thread, todo[t] # <<>>, Head(todo[t]).op = "mfree"
    PROVE  useCnt[Subject(t)] = 0 /\ status[Subject(t)] # "ABSENT"
<1>1. /\ 1 \in 1..Len(todo[t]) /\ todo[t][1].op = "mfree" /\ StepOK(t, 1)
      /\ Subject(t) = todo[t][1].b /\ Subject(t) \in Block
  BY AtIs
<1>2. PICK b \in Block : b = Subject(t)
  BY <1>1
<1>3. Deletes(t, b) /\ \A j \in (1 + 1)..Len(todo[t]) : todo[t][j].op = "take"
  BY <1>1, <1>2 DEF StepOK, MfreeOK
<1>4. tracker[b] = 0 /\ status[b] # "ABSENT" /\ \A p \in Ptr : ptr[p] # b
  BY <1>1, <1>2, Deleting
<1>5. ASSUME Held(b) # {} \/ Owed(b) # {} PROVE FALSE
  <2>1. PICK u \in Thread : \E j \in 2..Len(todo[u]) : todo[u][j].op = "mfree" /\ todo[u][j].b = b
    BY <1>4, <1>5, UsesRefer
  <2>2. PICK j \in 2..Len(todo[u]) : todo[u][j].op = "mfree" /\ todo[u][j].b = b
    BY <2>1
  <2>3. j \in 1..Len(todo[u])
    BY <2>2
  <2>4. u = t
    BY <1>1, <1>2, <2>2, <2>3 DEF Struct, DeletedOnce
  <2>5. todo[t][j].op = "take"
    BY <1>3, <2>2, <2>4
  <2> QED BY <2>2, <2>4, <2>5
<1> QED BY <1>2, <1>4, <1>5, NaturalCounts

\* A use that waits for its chunk counts.
LEMMA AwaitUses ==
    ASSUME Struct, UseCounted, NEW t \in Thread, todo[t] # <<>>, Head(todo[t]).op = "await"
    PROVE  useCnt[Subject(t)] > 0
<1>1. /\ 1 \in 1..Len(todo[t]) /\ todo[t][1].op = "await" /\ todo[t] \in Seq(Steps)
      /\ Len(todo[t]) \in Nat \ {0} /\ Subject(t) = todo[t][1].b /\ Subject(t) \in Block
      /\ todo[t][1].flag \in Flags
  BY AtIs, StepKinds
<1>2. PICK b \in Block, f \in Flags : b = todo[t][1].b /\ f = todo[t][1].flag
  BY <1>1
<1>3. SUFFICES Held(b) # {} \/ Owed(b) # {}
  BY <1>1, <1>2, NaturalCounts
<1>4. CASE on[t][1] \in Ptr /\ Len(todo[t]) > 1 /\ todo[t][2] = Unset(todo[t][1].b, 1)
  <2>1. PICK s \in Seq(Steps), n \in Nat \ {0} : s = todo[t] /\ n = Len(s)
    BY <1>1
  <2>2. /\ n > 1 /\ s[2].op = "unset" /\ s[2].b = b /\ s[2].n = 1 /\ s[1].op = "await"
    BY <1>1, <1>2, <1>4, <2>1, StepsAre
  <2>3. n - 1 \in 1..n /\ n + 1 - (n - 1) = 2 /\ 2 - 1 = 1 /\ 1 \in {1, 2} /\ 1 <= 1
    BY <2>2
  <2>4. Due(s, 2, b)
    BY <2>2, <2>3 DEF Due
  <2>5. Due(s, n + 1 - (n - 1), b) /\ 1 <= s[n + 1 - (n - 1)].n
    BY <2>2, <2>3, <2>4
  <2>6. <<t, n - 1, 1>> \in Owes(t, s, b)
    BY <2>1, <2>3, <2>5, OwesIs
  <2>7. <<t, n - 1, 1>> \in OwedBy(t, b)
    BY <2>1, <2>6, OwedByIs
  <2> QED BY <2>7 DEF Owed
<1>5. CASE SetsFirst(t, on[t][1], todo[t][1].flag, todo[t][1].b)
  <2>1. PICK h \in Handle : h = on[t][1]
    BY <1>5 DEF SetsFirst
  <2>2. data[h] # None /\ Chunk(h) = b /\ f \in loaded[h] /\ ~ SetsLater(todo[t], f)
    BY <1>2, <1>5, <2>1 DEF SetsFirst
  <2>3. ~ Pending(h, f)
    <3>1. SUFFICES ASSUME NEW u \in Thread, Sets(u, h, f) PROVE FALSE
      BY PendingIs
    <3>2. PICK i \in 1..Len(todo[u]) : todo[u][i].op = "set" /\ todo[u][i].flag = f
      BY <3>1 DEF Sets, SetStep
    <3>3. u = t
      BY <1>1, <1>2, <2>1, <3>1, <3>2 DEF Struct, SetOnce, Sets
    <3>4. SetStep(todo[t], f)
      BY <3>1, <3>3 DEF Sets
    <3>5. Len(todo[t]) > 0
      BY <1>1
    <3> QED BY <1>1, <2>2, <3>4, <3>5, FirstSet
  <2>4. Holds(h, f, b)
    BY <2>2, <2>3 DEF Holds
  <2> QED BY <2>4, HeldIs
<1> QED BY <1>1, <1>4, <1>5, SetsFirstIs

\* To unset uses leaves no count below zero.
LEMMA UnsetLeaves ==
    ASSUME Struct, UseCounted, NEW t \in Thread, UnsetUse(t)
    PROVE  /\ Subject(t) \in Block /\ Head(todo[t]).n \in {1, 2}
           /\ useCnt[Subject(t)] >= Head(todo[t]).n
<1>1. todo[t] # <<>> /\ Head(todo[t]).op = "unset" /\ Done(t)
  BY DEF UnsetUse, Locks, At
<1>2. Typed' /\ Goes(t) /\ Typed /\ Others(t)
  BY <1>1, DoneGoes DEF Goes, Struct
<1>3. PICK s \in Seq(Steps), q \in Seq(Steps) : s = todo[t] /\ q = todo'[t]
  BY <1>2, GoesFor DEF Goes
<1>4. /\ Len(s) > 0 /\ Rest(q, s) /\ s[1].op = "unset" /\ s[1] = Head(todo[t])
      /\ Subject(t) = s[1].b /\ s[1].b \in Block /\ s[1].n \in {1, 2}
  <2>1. Len(s) > 0 /\ Rest(q, s)
    BY <1>2, <1>3, GoesFor DEF Goes
  <2>2. Head(todo[t]) = s[1] /\ s[1].op = "unset"
    BY <1>1, <1>2, <1>3, AtIs
  <2>3. Subject(t) = Head(todo[t]).b
    BY <1>1, <1>2, AtIs
  <2>4. Head(todo[t]).b \in Block /\ Head(todo[t]).n \in {1, 2}
    BY <1>1, <1>2, AtIs, StepKinds
  <2> QED BY <2>1, <2>2, <2>3, <2>4
<1>5. PICK b \in Block, n \in {1, 2} : b = s[1].b /\ n = s[1].n
  BY <1>4
<1>6. Cardinality(Owes(t, s, b)) = Cardinality(Owes(t, q, b)) + n
  BY <1>4, <1>5, RestUnset
<1>7. Cardinality(Owes(t, q, b)) \in Nat /\ Cardinality(Held(b)) \in Nat
  BY OwesFinite, HeldFinite
<1>8. PICK r \in Nat : Cardinality(Owed(b)) = r + Cardinality(OwedBy(t, b))
  BY <1>2, OwedMoves
<1>9. OwedBy(t, b) = Owes(t, s, b)
  BY <1>3, OwedByIs
<1>10. useCnt[b] = Cardinality(Held(b)) + Cardinality(Owed(b))
  BY DEF UseCounted
<1>11. useCnt[b] >= n
  BY <1>6, <1>7, <1>8, <1>9, <1>10
<1> QED BY <1>4, <1>5, <1>11

LEMMA UseCallsInUse ==
    ASSUME Struct, UseCounted, InUse, NEW t \in Thread,
           SetUse(t) \/ Grant(t) \/ UnsetUse(t)
    PROVE  InUse'
<1>1. useCnt \in [Block -> Nat] /\ DOMAIN status = Block
  BY NaturalCounts DEF Struct, Basic
<1>2. CASE SetUse(t)
  BY <1>1, <1>2 DEF SetUse, InUse
<1>3. CASE Grant(t)
  <2>1. useCnt[Subject(t)] > 0
    BY <1>3, AwaitUses DEF Grant, Locks, At
  <2> QED BY <1>1, <1>3, <2>1 DEF Grant, InUse
<1>4. CASE UnsetUse(t)
  <2>1. PICK b \in Block, n \in {1, 2} : b = Subject(t) /\ n = Head(todo[t]).n /\ useCnt[b] >= n
    BY <1>4, UnsetLeaves
  <2>2. /\ useCnt' = [useCnt EXCEPT ![b] = useCnt[b] - n]
        /\ status' = [status EXCEPT ![b] = IF status[b] = "INUSE" /\ useCnt[b] - n = 0
                                           THEN "ALLOCATED" ELSE status[b]]
    BY <1>4, <2>1 DEF UnsetUse
  <2>3. ASSUME NEW c \in Block, status'[c] \in Present
        PROVE  status'[c] = "INUSE" <=> useCnt'[c] > 0
    <3>1. CASE c = b
      <4>1. useCnt[b] \in Nat /\ useCnt'[b] = useCnt[b] - n
        BY <1>1, <2>2
      <4>2. status'[b] = IF status[b] = "INUSE" /\ useCnt[b] - n = 0 THEN "ALLOCATED" ELSE status[b]
        BY <1>1, <2>2
      <4>3. status[b] \in Present => (status[b] = "INUSE" <=> useCnt[b] > 0)
        BY DEF InUse
      <4>4. useCnt[b] > 0
        BY <2>1, <4>1
      <4>5. CASE useCnt[b] - n = 0
        <5>1. ~ (0 > 0)
          OBVIOUS
        <5> QED BY <2>3, <3>1, <4>1, <4>2, <4>3, <4>4, <4>5, <5>1 DEF Present
      <4>6. CASE useCnt[b] - n # 0
        <5>1. useCnt[b] - n > 0
          BY <2>1, <4>1, <4>6
        <5> QED BY <2>3, <3>1, <4>1, <4>2, <4>3, <4>4, <4>6, <5>1
      <4> QED BY <4>5, <4>6
    <3>2. CASE c # b
      BY <1>1, <2>2, <2>3, <3>2 DEF InUse
    <3> QED BY <3>1, <3>2
  <2> QED BY <2>3 DEF InUse
<1> QED BY <1>2, <1>3, <1>4

LEMMA InUseNext ==
    ASSUME Struct, UseCounted, InUse, [Next]_vars
    PROVE  InUse'
<1>1. ASSUME UNCHANGED <<status, useCnt>> PROVE InUse'
  BY <1>1 DEF InUse
<1>2. useCnt \in [Block -> Nat] /\ DOMAIN status = Block
  BY NaturalCounts DEF Struct, Basic
<1>3. CASE UNCHANGED vars
  BY <1>1, <1>3 DEF vars
<1>4. ASSUME NEW b \in Block, Evict(b) \/ Fetch(b) PROVE InUse'
  BY <1>2, <1>4 DEF Evict, Fetch, InUse, Present, Outside
<1>5. ASSUME NEW b \in Block, Arrive(b) PROVE InUse'
  BY <1>2, <1>5 DEF Arrive, InUse, Present
<1>6. ASSUME NEW t \in Thread, Calls(t) PROVE InUse'
  <2>1. CASE SetUse(t) \/ Grant(t) \/ UnsetUse(t)
    BY <2>1, UseCallsInUse
  <2>2. CASE SetUseThrows(t) \/ PrepareUseThrows(t) \/ Take(t) \/ Adopt(t) \/ GivePointer(t) \/ Spin(t)
    BY <1>1, <2>2 DEF SetUseThrows, PrepareUseThrows, Take, Adopt, GivePointer, Spin, manager
  <2>3. CASE PrepareUse(t)
    BY <1>2, <2>3 DEF PrepareUse, InUse, Present
  <2>4. CASE Mfree(t) \/ MfreeDone(t)
    BY <1>2, <2>4 DEF Mfree, MfreeDone, InUse, Present
  <2> QED BY <1>6, <2>1, <2>2, <2>3, <2>4 DEF Calls
<1>7. ASSUME NEW t \in Thread, Operations(t) PROVE InUse'
  <2>1. ASSUME NEW p \in Ptr, NEW b \in Block, Construct(t, p, b) PROVE InUse'
    <3>1. /\ UNCHANGED useCnt /\ status[b] = "ABSENT"
          /\ status' = IF b \in Empty THEN status ELSE [status EXCEPT ![b] = "ALLOCATED"]
      BY <2>1 DEF Construct
    <3>2. CASE b \in Empty
      BY <1>1, <3>1, <3>2
    <3>3. CASE b \notin Empty
      <4>1. useCnt[b] = 0
        BY <3>1, <3>3, NoUses
      <4> QED BY <1>2, <3>1, <3>3, <4>1 DEF InUse
    <3> QED BY <3>2, <3>3
  <2>2. ASSUME NEW p \in Ptr, NEW q \in Ptr, Copy(t, p, q) \/ Assign(t, p, q) PROVE InUse'
    BY <1>1, <2>2 DEF Copy, Assign, Reassign, manager
  <2>3. ASSUME NEW p \in Ptr, Destroy(t, p) PROVE InUse'
    BY <1>1, <2>3 DEF Destroy, manager
  <2>4. ASSUME NEW h \in Handle, NEW p \in Ptr, Adhere(t, h, p) PROVE InUse'
    BY <1>1, <2>4 DEF Adhere, manager
  <2>5. ASSUME NEW h \in Handle, NEW flag \in Flags, Pull(t, h, flag) PROVE InUse'
    BY <1>1, <2>5 DEF Pull, manager
  <2>6. ASSUME NEW g \in Handle, NEW h \in Handle, CopyHandle(t, g, h) \/ AssignHandle(t, g, h) PROVE InUse'
    BY <1>1, <2>6 DEF CopyHandle, AssignHandle, manager
  <2>7. ASSUME NEW h \in Handle, DestroyHandle(t, h) PROVE InUse'
    BY <1>1, <2>7 DEF DestroyHandle, manager
  <2> QED BY <1>7, <2>1, <2>2, <2>3, <2>4, <2>5, <2>6, <2>7 DEF Operations
<1> QED BY <1>3, <1>4, <1>5, <1>6, <1>7 DEF Next
-----------------------------------------------------------------------------
(* The theorems.                                                           *)

\* The inductive invariant.
Inv == Struct /\ UseCounted /\ InUse

LEMMA InvHolds == Spec => []Inv
<1>1. Init => Inv
  BY InitStruct, InitCounts DEF Inv, InUse, Init, Present
<1>2. Inv /\ [Next]_vars => Inv'
  BY StructNext, CountNext, InUseNext DEF Inv
<1> QED BY <1>1, <1>2, PTL DEF Spec

\* The variables have their types; use counts are never negative.
THEOREM TypeCorrect == Spec => []TypeOK
<1>1. Inv => TypeOK
  BY NaturalCounts DEF Inv, Struct, Basic, TypeOK
<1> QED BY <1>1, InvHolds, PTL

\* Trackers count references through copies, assignments and destructors of any
\* number of threads; a chunk that is referred to is there, and mDelete finds the
\* chunk it deletes, without a use.
THEOREM ReferencesCounted == Spec => []RefCounted
<1>1. Inv => RefCounted
  <2>1. SUFFICES ASSUME Inv PROVE RefCounted
    OBVIOUS
  <2>2. ASSUME NEW t \in Thread, todo[t] # <<>>, Head(todo[t]).op = "mfree"
        PROVE  status[Subject(t)] \notin {"INUSE", "ABSENT"}
    <3>1. useCnt[Subject(t)] = 0 /\ status[Subject(t)] # "ABSENT" /\ Subject(t) \in Block
      BY <2>1, <2>2, FreedUnused, AtIs DEF Inv
    <3>2. ~ (0 > 0)
      OBVIOUS
    <3> QED BY <2>1, <3>1, <3>2 DEF Inv, InUse, Present
  <2> QED BY <2>1, <2>2 DEF Inv, Struct, Referred, RefCounted
<1> QED BY <1>1, InvHolds, PTL

\* The use count of a chunk is what handles hold and threads will still unset.
THEOREM UsesCounted == Spec => []UseCounted
<1>1. Inv => UseCounted
  BY DEF Inv
<1> QED BY <1>1, InvHolds, PTL
-----------------------------------------------------------------------------
(* What a handle has given out stays, and only a pull after a failure hangs, *)
(* if no two threads pull from one handle.                                   *)

\* No handle is shared by threads, as adhereTo demands of a program.
OneUser == \A h \in Handle : \A t, u \in User[h] : t = u

\* Who is pulling from a handle may use it.
UserPulls == \A t \in Thread, h \in Handle : todo[t] # <<>> /\ Pulls(t, h) => t \in User[h]

\* A thread waits in setUse for the chunk of a handle.
Waits(t, h) == todo[t] # <<>> /\ todo[t][1].op = "await" /\ on[t][1] = h

Awaited(h) == \E t \in Thread : Waits(t, h)

\* The use for this flag has been set, or is being waited for.
Settled(h, f) == f \in loaded[h] /\ ~ Pending(h, f)

\* A pointer has been given out under a use, and a use that is granted keeps the
\* chunk in RAM.
UseOK(h) ==
    /\ h \in given => \E f \in Flags : Settled(h, f)
    /\ h \notin failed /\ ~ Awaited(h) /\ (\E f \in Flags : Settled(h, f)) =>
           status[Chunk(h)] \in Present

Uses == \A h \in Handle : UseOK(h)

\* Who has the mutex for ever spins for the chunk of a handle that has failed.
Spinning == mutex # NoThread =>
    /\ todo[mutex] # <<>> /\ todo[mutex][1].op = "loc"
    /\ on[mutex][1] \in failed /\ status[todo[mutex][1].b] \in Outside

\* What is in use and referred to does not leave RAM.
PresentStays == \A b \in Block :
    status[b] \in Present /\ useCnt[b] > 0 /\ (\E p \in Ptr : ptr[p] = b) => status'[b] \in Present

\* mfree does not take a chunk that is referred to.
LEMMA FreedUnreferred ==
    ASSUME Struct, NEW t \in Thread, Mfree(t) \/ MfreeDone(t), NEW p \in Ptr
    PROVE  ptr[p] # Subject(t)
<1>1. todo[t] # <<>> /\ Head(todo[t]).op \in {"mfree", "pffree"}
  BY DEF Mfree, MfreeDone, Locks, At
<1>2. 1 \in 1..Len(todo[t]) /\ Head(todo[t]) = todo[t][1] /\ Subject(t) = todo[t][1].b
  BY <1>1, AtIs
<1>3. todo[t][1].op \in {"mfree", "pffree"}
  BY <1>1, <1>2
<1> QED BY <1>2, <1>3, Deleting

\* Every step leaves in RAM what is in use and referred to.
LEMMA PresentNext ==
    ASSUME Struct, UseCounted, InUse, [Next]_vars
    PROVE  PresentStays
<1> SUFFICES ASSUME NEW b \in Block, status[b] \in Present, useCnt[b] > 0,
                    NEW p \in Ptr, ptr[p] = b
             PROVE  status'[b] \in Present
  BY DEF PresentStays
<1>1. ASSUME UNCHANGED status PROVE status'[b] \in Present
  BY <1>1
<1>2. useCnt \in [Block -> Nat] /\ DOMAIN status = Block /\ ~ (0 > 0)
  BY NaturalCounts DEF Struct, Basic
<1>3. CASE UNCHANGED vars
  BY <1>1, <1>3 DEF vars
<1>4. ASSUME NEW c \in Block, Evict(c) PROVE status'[b] \in Present
  BY <1>2, <1>4 DEF Evict
<1>5. ASSUME NEW c \in Block, Fetch(c) PROVE status'[b] \in Present
  BY <1>2, <1>5 DEF Fetch, Present
<1>6. ASSUME NEW c \in Block, Arrive(c) PROVE status'[b] \in Present
  BY <1>2, <1>6 DEF Arrive, Present
<1>7. ASSUME NEW t \in Thread, Calls(t) PROVE status'[b] \in Present
  <2>1. CASE SetUse(t)
    BY <1>1, <1>2, <2>1 DEF SetUse, Present
  <2>2. CASE Grant(t)
    BY <1>2, <2>2 DEF Grant, Present
  <2>3. CASE UnsetUse(t)
    BY <1>2, <2>3 DEF UnsetUse, Present
  <2>4. CASE PrepareUse(t)
    BY <1>2, <2>4 DEF PrepareUse, Present
  <2>5. CASE Mfree(t) \/ MfreeDone(t)
    <3>1. Subject(t) # b
      BY <2>5, FreedUnreferred
    <3> QED BY <1>2, <2>5, <3>1 DEF Mfree, MfreeDone
  <2>6. CASE SetUseThrows(t) \/ PrepareUseThrows(t) \/ Take(t) \/ Adopt(t) \/ GivePointer(t) \/ Spin(t)
    BY <1>1, <2>6 DEF SetUseThrows, PrepareUseThrows, Take, Adopt, GivePointer, Spin, manager
  <2> QED BY <1>7, <2>1, <2>2, <2>3, <2>4, <2>5, <2>6 DEF Calls
<1>8. ASSUME NEW t \in Thread, Operations(t) PROVE status'[b] \in Present
  <2>1. ASSUME NEW q \in Ptr, NEW c \in Block, Construct(t, q, c) PROVE status'[b] \in Present
    <3>1. status[c] = "ABSENT" /\ status' = IF c \in Empty THEN status ELSE [status EXCEPT ![c] = "ALLOCATED"]
      BY <2>1 DEF Construct
    <3> QED BY <1>2, <3>1 DEF Present
  <2>2. ASSUME NEW q \in Ptr, NEW r \in Ptr, Copy(t, q, r) \/ Assign(t, q, r) PROVE UNCHANGED status
    BY <2>2 DEF Copy, Assign, Reassign, manager
  <2>3. ASSUME NEW q \in Ptr, Destroy(t, q) PROVE UNCHANGED status
    BY <2>3 DEF Destroy, manager
  <2>4. ASSUME NEW h \in Handle, NEW q \in Ptr, Adhere(t, h, q) PROVE UNCHANGED status
    BY <2>4 DEF Adhere, manager
  <2>5. ASSUME NEW h \in Handle, NEW flag \in Flags, Pull(t, h, flag) PROVE UNCHANGED status
    BY <2>5 DEF Pull, manager
  <2>6. ASSUME NEW g \in Handle, NEW h \in Handle, CopyHandle(t, g, h) \/ AssignHandle(t, g, h)
        PROVE  UNCHANGED status
    BY <2>6 DEF CopyHandle, AssignHandle, manager
  <2>7. ASSUME NEW h \in Handle, DestroyHandle(t, h) PROVE UNCHANGED status
    BY <2>7 DEF DestroyHandle, manager
  <2> QED BY <1>1, <1>8, <2>1, <2>2, <2>3, <2>4, <2>5, <2>6, <2>7 DEF Operations
<1> QED BY <1>3, <1>4, <1>5, <1>6, <1>7, <1>8 DEF Next

\* A use that is set counts, for a chunk that is referred to.
LEMMA SettledUsed ==
    ASSUME Struct, UseCounted, NEW h \in Handle, NEW f \in Flags, Settled(h, f)
    PROVE  /\ data[h] \in Ptr /\ data[h] # None /\ Chunk(h) \in Block
           /\ ptr[data[h]] = Chunk(h) /\ useCnt[Chunk(h)] > 0
<1>1. data[h] # None /\ data[h] \in Ptr /\ ptr[data[h]] \in Block
  BY DEF Settled, Struct, Basic, Anchored
<1>2. PICK b \in Block : b = Chunk(h)
  BY <1>1 DEF Chunk
<1>3. Holds(h, f, b)
  BY <1>1, <1>2 DEF Holds, Settled
<1>4. <<h, f>> \in Held(b)
  BY <1>3, HeldIs
<1>5. useCnt[b] > 0
  BY <1>4, NaturalCounts
<1> QED BY <1>1, <1>2, <1>5 DEF Chunk

\* A handle whose uses are what they were.
LEMMA UseStays ==
    ASSUME Struct, UseCounted, PresentStays, NEW h \in Handle, UseOK(h),
           data[h] # None => data'[h] = data[h] /\ ptr'[data[h]] = ptr[data[h]],
           \A f \in Flags : Settled(h, f)' <=> Settled(h, f),
           h \in given' => h \in given, h \in failed => h \in failed',
           Awaited(h) => Awaited(h)'
    PROVE  UseOK(h)'
<1>1. h \in given' => \E f \in Flags : Settled(h, f)'
  BY DEF UseOK
<1>2. ASSUME h \notin failed', ~ Awaited(h)', NEW f \in Flags, Settled(h, f)'
      PROVE  status'[Chunk(h)'] \in Present
  <2>1. Settled(h, f)
    BY <1>2
  <2>2. /\ data[h] \in Ptr /\ data[h] # None /\ Chunk(h) \in Block
        /\ ptr[data[h]] = Chunk(h) /\ useCnt[Chunk(h)] > 0
    BY <2>1, SettledUsed
  <2>3. status[Chunk(h)] \in Present
    BY <1>2, <2>1 DEF UseOK
  <2>4. status'[Chunk(h)] \in Present
    BY <2>2, <2>3 DEF PresentStays
  <2>5. Chunk(h)' = Chunk(h)
    BY <2>2 DEF Chunk
  <2> QED BY <2>4, <2>5
<1> QED BY <1>1, <1>2 DEF UseOK

\* A handle with no use set yet, from which no pointer has been pulled.
LEMMA NoUse ==
    ASSUME NEW h, h \notin given', \A f \in Flags : f \notin loaded'[h] \/ Pending(h, f)'
    PROVE  UseOK(h)'
BY DEF UseOK, Settled

LEMMA SettledElse ==
    ASSUME NEW t \in Thread, Others(t), NEW h, loaded'[h] = loaded[h],
           NEW f, Sets(t, h, f)' <=> Sets(t, h, f)
    PROVE  Settled(h, f)' <=> Settled(h, f)
<1>1. Pending(h, f)' <=> Pending(h, f)
  BY PendingMoves
<1> QED BY <1>1 DEF Settled

\* Other threads wait as before.
LEMMA AwaitedElse ==
    ASSUME NEW t \in Thread, Others(t), NEW h, Waits(t, h) => Waits(t, h)'
    PROVE  Awaited(h) => Awaited(h)'
<1>1. \A u \in Thread \ {t} : Waits(u, h) => Waits(u, h)'
  BY DEF Waits, Others
<1> QED BY <1>1 DEF Awaited

\* A step that works for one object leaves the uses of all handles but that.
LEMMA UsesBut ==
    ASSUME Struct, UseCounted, PresentStays, Uses, NEW t \in Thread, Others(t), NEW x, KeepsBut(x),
           WorksFor(t, x), x \in Handle => UseOK(x)'
    PROVE  Uses'
<1>1. ASSUME NEW h \in Handle \ {x} PROVE UseOK(h)'
  <2>1. /\ data'[h] = data[h] /\ loaded'[h] = loaded[h]
        /\ (h \in given' <=> h \in given) /\ (h \in failed' <=> h \in failed)
        /\ data[h] # None => ptr'[data[h]] = ptr[data[h]]
    BY DEF KeepsBut
  <2>2. \A f \in Flags : Sets(t, h, f)' <=> Sets(t, h, f)
    BY NoSets, <1>1 DEF WorksFor
  <2>3. \A f \in Flags : Settled(h, f)' <=> Settled(h, f)
    BY <2>1, <2>2, SettledElse
  <2>4. ~ Waits(t, h)
    BY <1>1 DEF Waits, WorksFor
  <2>5. Awaited(h) => Awaited(h)'
    BY <2>4, AwaitedElse
  <2>6. UseOK(h)
    BY DEF Uses
  <2> QED BY <2>1, <2>3, <2>5, <2>6, UseStays
<1> QED BY <1>1 DEF Uses

\* Nobody goes on.
LEMMA SameUses ==
    ASSUME Struct, UseCounted, PresentStays, Uses, UNCHANGED <<ptr, data, loaded, given, failed, todo, on>>
    PROVE  Uses'
<1>1. ASSUME NEW h \in Handle PROVE UseOK(h)'
  <2>1. \A f \in Flags : Settled(h, f)' <=> Settled(h, f)
    BY DEF Settled, Pending
  <2>2. Awaited(h)' <=> Awaited(h)
    BY DEF Awaited, Waits
  <2>3. UseOK(h)
    BY DEF Uses
  <2> QED BY <2>1, <2>2, <2>3, UseStays
<1> QED BY <1>1 DEF Uses

\* A step that neither sets a use nor changes an object.
LEMMA PlainUses ==
    ASSUME Struct, UseCounted, PresentStays, Uses, NEW t \in Thread, Goes(t),
           UNCHANGED <<ptr, data, loaded, given, failed>>,
           Head(todo[t]).op \notin {"set", "await"}
    PROVE  Uses'
<1>1. /\ WorksFor(t, on[t][1]) /\ todo[t] \in Seq(Steps) /\ Len(todo[t]) > 0 /\ Others(t)
      /\ todo[t] # <<>> /\ todo'[t] \in Seq(Steps) /\ Rest(todo'[t], todo[t])
  BY GoesFor DEF Goes
<1>2. todo[t][1].op \notin {"set", "await"}
  BY <1>1, AtIs
<1>3. PICK s \in Seq(Steps), q \in Seq(Steps) : s = todo[t] /\ q = todo'[t]
  BY <1>1
<1>4. \A f : SetStep(q, f) <=> SetStep(s, f)
  <2>1. CASE s[1].op = "unset"
    BY <1>1, <1>3, <2>1, RestUnset
  <2>2. CASE s[1].op # "unset"
    BY <1>1, <1>2, <1>3, <2>2, RestPlain
  <2> QED BY <2>1, <2>2
<1>5. ASSUME NEW h \in Handle PROVE UseOK(h)'
  <2>1. \A f : Sets(t, h, f)' <=> Sets(t, h, f)
    BY <1>3, <1>4, SetsAfter
  <2>2. \A f \in Flags : Settled(h, f)' <=> Settled(h, f)
    BY <1>1, <2>1, SettledElse
  <2>3. ~ Waits(t, h)
    BY <1>2 DEF Waits
  <2>4. Awaited(h) => Awaited(h)'
    BY <1>1, <2>3, AwaitedElse
  <2>5. UseOK(h)
    BY DEF Uses
  <2> QED BY <2>2, <2>4, <2>5, UseStays
<1> QED BY <1>5 DEF Uses
\* A step of an operation on a managedPtr.
LEMMA PtrUses ==
    ASSUME Struct, UseCounted, PresentStays, Uses, NEW t \in Thread, Others(t),
           UNCHANGED <<data, loaded, given, failed>>, NEW p \in Ptr, ~ Handled(p), NEW v,
           ptr' = [ptr EXCEPT ![p] = v], WorksFor(t, p)
    PROVE  Uses'
<1>1. KeepsBut(p)
  BY PtrKeeps
<1>2. p \notin Handle
  BY HandleAssumption
<1> QED BY <1>1, <1>2, UsesBut

LEMMA BeginWorks ==
    ASSUME Struct, NEW t \in Thread, NEW objs, NEW steps, Begin(t, objs, steps)
    PROVE  /\ Others(t) /\ WorksFor(t, objs[1]) /\ todo[t] = <<>> /\ todo'[t] = steps
           /\ steps # <<>> => on'[t] = objs
BY DEF Begin, Others, WorksFor, Struct, Typed

LEMMA TakeUses ==
    ASSUME Struct, UseCounted, PresentStays, Uses, NEW t \in Thread, Take(t)
    PROVE  Uses'
<1>1. /\ todo[t] # <<>> /\ Head(todo[t]).op = "take" /\ Done(t)
      /\ ptr' = [ptr EXCEPT ![on[t][1]] = Subject(t)] /\ UNCHANGED <<data, loaded, given, failed>>
  BY DEF Take, At
<1>2. Goes(t) /\ Others(t)
  BY <1>1, DoneGoes DEF Goes
<1>3. WorksFor(t, on[t][1])
  BY <1>2, GoesFor
<1>4. on[t][1] \in Ptr
  BY <1>1, AtIs DEF StepOK, TakeOK
<1>5. ~ Handled(on[t][1])
  BY <1>1, <1>4 DEF Struct, Apart
<1> QED BY <1>1, <1>2, <1>3, <1>4, <1>5, PtrUses

LEMMA PtrOperationUses ==
    ASSUME Struct, UseCounted, PresentStays, Uses, NEW t \in Thread, NEW p \in Ptr, NEW q \in Ptr,
           NEW b \in Block, Construct(t, p, b) \/ Copy(t, p, q) \/ Destroy(t, p) \/ Assign(t, p, q)
    PROVE  Uses'
<1>1. UNCHANGED <<data, loaded, given, failed>>
  BY DEF Construct, Copy, Destroy, Assign, Reassign
<1>2. ~ Handled(p)
  BY Unhandled DEF Construct, Copy, Destroy, Assign, Reassign
<1>3. \E v : ptr' = [ptr EXCEPT ![p] = v]
  BY DEF Construct, Copy, Destroy, Assign, Reassign, Release
<1>4. \E objs, steps : objs[1] = p /\ Begin(t, objs, steps)
  <2>1. <<p>>[1] = p /\ <<p, q>>[1] = p
    OBVIOUS
  <2>2. CASE Construct(t, p, b)
    BY <2>1, <2>2 DEF Construct
  <2>3. CASE Copy(t, p, q)
    BY <2>1, <2>3 DEF Copy
  <2>4. CASE Destroy(t, p)
    BY <2>1, <2>4 DEF Destroy, Release
  <2>5. CASE Assign(t, p, q)
    BY <2>1, <2>5 DEF Assign, Reassign, Release
  <2> QED BY <2>2, <2>3, <2>4, <2>5
<1>5. Others(t) /\ WorksFor(t, p)
  BY <1>4, BeginWorks
<1> QED BY <1>1, <1>2, <1>3, <1>5, PtrUses

\* A handle begins to live, gets other data, or is let go.
LEMMA AdhereUses ==
    ASSUME Struct, UseCounted, PresentStays, Uses, NEW t \in Thread, NEW h \in Handle, NEW p \in Ptr,
           Adhere(t, h, p)
    PROVE  Uses'
<1>1. /\ data[h] = None /\ data' = [data EXCEPT ![h] = p]
      /\ UNCHANGED <<ptr, loaded, given, failed>>
  BY DEF Adhere
<1>2. h \notin given /\ loaded[h] = {}
  BY <1>1 DEF Struct, Basic, Anchored
<1>3. KeepsBut(h)
  BY <1>1, DataKeeps DEF Struct, Basic
<1>4. UseOK(h)'
  BY <1>1, <1>2, NoUse
<1>5. \E steps : Begin(t, <<h, p>>, steps)
  BY DEF Adhere
<1>6. Others(t) /\ WorksFor(t, h)
  <2>1. <<h, p>>[1] = h
    OBVIOUS
  <2> QED BY <1>5, <2>1, BeginWorks
<1> QED BY <1>3, <1>4, <1>6, UsesBut

LEMMA LetsGoUses ==
    ASSUME Struct, UseCounted, PresentStays, Uses, NEW t \in Thread, NEW h \in Handle,
           LetsGo(h), UNCHANGED ptr, \A x \in Handle \ {h} : data'[x] = data[x],
           NEW objs, objs[1] = h, NEW steps, Begin(t, objs, steps)
    PROVE  Uses'
<1>1. /\ loaded' = [loaded EXCEPT ![h] = {}] /\ given' = given \ {h} /\ failed' = failed \ {h}
      /\ DOMAIN loaded = Handle
  BY DEF LetsGo, Struct, Basic
<1>2. KeepsBut(h)
  BY <1>1, DataKeeps
<1>3. UseOK(h)'
  BY <1>1, NoUse
<1>4. Others(t) /\ WorksFor(t, h)
  BY BeginWorks
<1> QED BY <1>2, <1>3, <1>4, UsesBut

LEMMA DestroyHandleUses ==
    ASSUME Struct, UseCounted, PresentStays, Uses, NEW t \in Thread, NEW h \in Handle, DestroyHandle(t, h)
    PROVE  Uses'
<1>1. LetsGo(h) /\ UNCHANGED ptr /\ data' = [data EXCEPT ![h] = None]
  BY DEF DestroyHandle
<1>2. \E steps : Begin(t, <<h, data[h]>>, steps)
  BY DEF DestroyHandle
<1>3. <<h, data[h]>>[1] = h
  OBVIOUS
<1>4. \A x \in Handle \ {h} : data'[x] = data[x]
  BY <1>1 DEF Struct, Basic
<1> QED BY <1>1, <1>2, <1>3, <1>4, LetsGoUses

LEMMA AssignHandleUses ==
    ASSUME Struct, UseCounted, PresentStays, Uses, NEW t \in Thread, NEW g \in Handle, NEW h \in Handle,
           AssignHandle(t, g, h)
    PROVE  Uses'
<1>1. LetsGo(g) /\ UNCHANGED <<ptr, data>>
  BY DEF AssignHandle
<1>2. \E steps : Begin(t, <<g, h>>, steps)
  BY DEF AssignHandle
<1>3. <<g, h>>[1] = g
  OBVIOUS
<1> QED BY <1>1, <1>2, <1>3, LetsGoUses

LEMMA CopyHandleUses ==
    ASSUME Struct, UseCounted, PresentStays, Uses, NEW t \in Thread, NEW g \in Handle, NEW h \in Handle,
           CopyHandle(t, g, h)
    PROVE  Uses'
<1>1. /\ data[g] = None /\ data[h] # None /\ data' = [data EXCEPT ![g] = data[h]]
      /\ loaded' = [loaded EXCEPT ![g] = loaded[h]] /\ UNCHANGED <<ptr, given, failed>>
      /\ Begin(t, <<g, h>>, SetUses(Chunk(h), loaded[h]))
  BY DEF CopyHandle
<1>2. g \notin given /\ loaded[h] \in SUBSET Flags /\ Chunk(h) \in Block
      /\ loaded'[g] = loaded[h] /\ DOMAIN loaded = Handle /\ DOMAIN data = Handle
  BY <1>1 DEF Struct, Basic, Anchored, Chunk
<1>3. <<g, h>>[1] = g
  OBVIOUS
<1>4. /\ Others(t) /\ WorksFor(t, g) /\ todo'[t] = SetUses(Chunk(h), loaded[h])
      /\ todo'[t] # <<>> => on'[t][1] = g
  BY <1>1, <1>3, BeginWorks
<1>5. SetsFor(todo'[t], Chunk(h), loaded[h])
  BY <1>2, <1>4, SetUsesIs
<1>6. \A f \in loaded[h] : Pending(g, f)'
  BY <1>4, <1>5, PendingSets
<1>7. UseOK(g)'
  BY <1>1, <1>2, <1>6, NoUse
<1>8. KeepsBut(g)
  BY <1>1, <1>2, DataKeeps
<1> QED BY <1>4, <1>7, <1>8, UsesBut

LEMMA PullUses ==
    ASSUME Struct, UseCounted, PresentStays, Uses, NEW t \in Thread, NEW h \in Handle, NEW flag \in Flags,
           Pull(t, h, flag)
    PROVE  Uses'
<1>1. /\ data[h] # None /\ loaded' = [loaded EXCEPT ![h] = loaded[h] \cup {flag}]
      /\ UNCHANGED <<ptr, data, given, failed>>
      /\ Begin(t, <<h>>, SetUses(Chunk(h), {flag} \ loaded[h]) \o <<Step("loc", Chunk(h))>>)
  BY DEF Pull
<1>2. /\ loaded[h] \in SUBSET Flags /\ Chunk(h) \in Block /\ DOMAIN loaded = Handle
      /\ loaded'[h] = loaded[h] \cup {flag}
  BY <1>1 DEF Struct, Basic, Anchored, Chunk
<1>3. <<h>>[1] = h
  OBVIOUS
<1>4. PICK b \in Block, S \in SUBSET Flags : b = Chunk(h) /\ S = {flag} \ loaded[h]
  BY <1>2
<1>5. /\ Others(t) /\ WorksFor(t, h) /\ todo[t] = <<>>
      /\ todo'[t] = SetUses(b, S) \o <<Step("loc", b)>>
      /\ todo'[t] # <<>> => on'[t][1] = h
  <2>1. PICK steps : Begin(t, <<h>>, steps) /\ steps = SetUses(b, S) \o <<Step("loc", b)>>
    BY <1>1, <1>4
  <2>2. /\ Others(t) /\ WorksFor(t, <<h>>[1]) /\ todo[t] = <<>> /\ todo'[t] = steps
        /\ steps # <<>> => on'[t] = <<h>>
    <3>1. Struct /\ t \in Thread /\ Begin(t, <<h>>, steps)
      BY <2>1
    <3> HIDE DEF Begin, Struct, Others, WorksFor
    <3> QED BY <3>1, BeginWorks, ZenonT(30)
  <2> QED BY <1>3, <2>1, <2>2
<1>6. PullOf(todo'[t], b, flag, S)
  <2>1. S \subseteq {flag}
    BY <1>4
  <2>2. PullOf(SetUses(b, S) \o <<Step("loc", b)>>, b, flag, S)
    BY <2>1, PullSteps
  <2> QED BY <1>5, <2>2
<1>7. PICK q \in Seq(Steps) : q = todo'[t] /\ PullOf(q, b, flag, S)
  BY <1>6 DEF PullOf
<1>8. \A f : SetStep(q, f) <=> f = flag /\ S # {}
  <2>1. Len(q) \in {1, 2} /\ q[Len(q)] = Step("loc", b) /\ (Len(q) = 1 <=> S = {})
        /\ (Len(q) = 2 => q[1].op = "set" /\ q[1].flag = flag)
    BY <1>7 DEF PullOf
  <2>2. q[Len(q)].op = "loc"
    BY <2>1, StepsAre
  <2>3. CASE Len(q) = 1
    BY <2>1, <2>2, <2>3 DEF SetStep
  <2>4. CASE Len(q) = 2
    <3>1. 1 \in 1..2 /\ \A i \in 1..2 : i = 1 \/ i = 2
      OBVIOUS
    <3>2. q[2].op = "loc"
      BY <2>2, <2>4
    <3> QED BY <2>1, <2>4, <3>1, <3>2 DEF SetStep
  <2> QED BY <2>1, <2>3, <2>4
<1>9. ASSUME NEW f \in Flags PROVE Settled(h, f)' <=> Settled(h, f)
  <2>1. ~ Sets(t, h, f)
    BY <1>5, NoSets
  <2>2. Sets(t, h, f)' <=> f = flag /\ flag \notin loaded[h]
    <3>1. todo'[t] # <<>>
      BY <1>6 DEF PullOf
    <3>2. S # {} <=> flag \notin loaded[h]
      BY <1>4
    <3>3. on'[t][1] = h
      BY <1>5, <3>1
    <3>4. Sets(t, h, f)' <=> SetStep(q, f)
      BY <1>7, <3>3 DEF Sets
    <3> QED BY <1>8, <3>2, <3>4
  <2>3. Pending(h, f)' <=> Pending(h, f) \/ (f = flag /\ flag \notin loaded[h])
    BY <1>5, <2>1, <2>2, PendingMoves
  <2> QED BY <1>2, <2>3 DEF Settled
<1>10. ~ Waits(t, h)
  BY <1>5 DEF Waits
<1>11. Awaited(h) => Awaited(h)'
  BY <1>5, <1>10, AwaitedElse
<1>12. UseOK(h)
  BY DEF Uses
<1>13. UseOK(h)'
  BY <1>1, <1>9, <1>11, <1>12, UseStays
<1>14. KeepsBut(h)
  BY <1>1, <1>2, DataKeeps
<1> QED BY <1>5, <1>13, <1>14, UsesBut
\* setUse and the end of its wait concern the chunk of the handle.
LEMMA SetsFor1 ==
    ASSUME Struct, NEW t \in Thread, todo[t] # <<>>, Head(todo[t]).op \in {"set", "await"},
           on[t][1] \in Handle
    PROVE  Chunk(on[t][1]) = Subject(t) /\ Subject(t) \in Block
<1>1. /\ todo[t][1].op \in {"set", "await"} /\ Subject(t) = todo[t][1].b /\ Subject(t) \in Block
  BY AtIs
<1>2. on[t][1] \notin Ptr
  BY HandleAssumption
<1> QED BY <1>1, <1>2, SetsFirstIs DEF SetsFirst

\* What was settled stays so if a thread has no more uses to set than before.
LEMMA MoreSettled ==
    ASSUME NEW t \in Thread, Others(t), NEW h, UNCHANGED loaded,
           \A f \in Flags : Sets(t, h, f)' => Sets(t, h, f)
    PROVE  \A f \in Flags : Settled(h, f) => Settled(h, f)'
<1>1. \A f \in Flags : Pending(h, f)' => Pending(h, f)
  BY PendingMoves
<1> QED BY <1>1 DEF Settled

\* setUse grants the use of a chunk that is there, or has to wait.
LEMMA SetUseGoes ==
    ASSUME Struct, NEW t \in Thread, SetUse(t) \/ Grant(t)
    PROVE  /\ todo[t] # <<>> /\ Head(todo[t]).op \in {"set", "await"}
           /\ UNCHANGED <<ptr, data, loaded, given, failed>> /\ Goes(t) /\ Others(t)
           /\ \/ status'[Subject(t)] \in Present /\ Done(t)
              \/ \E e \in Steps : e.op = "await" /\ Continue(t, <<e>> \o Tail(todo[t]))
<1>1. /\ todo[t] # <<>> /\ Head(todo[t]).op \in {"set", "await"}
      /\ UNCHANGED <<ptr, data, loaded, given, failed>>
  BY DEF SetUse, Grant, Locks, At, objects
<1>2. \/ status'[Subject(t)] \in Present /\ Done(t)
      \/ \E e \in Steps : e.op = "await" /\ Continue(t, <<e>> \o Tail(todo[t]))
  <2>1. Subject(t) \in DOMAIN status /\ Head(todo[t]) \in Steps
    BY <1>1, AtIs DEF Struct, Basic
  <2>2. CASE Grant(t)
    BY <2>1, <2>2 DEF Grant, Present
  <2>3. CASE SetUse(t) /\ status[Subject(t)] \in Present
    BY <2>1, <2>3 DEF SetUse, Present
  <2>4. CASE SetUse(t) /\ status[Subject(t)] \notin Present
    <3> DEFINE e == [Head(todo[t]) EXCEPT !.op = "await"]
    <3>1. Continue(t, <<e>> \o Tail(todo[t])) /\ Head(todo[t]).op = "set"
      BY <2>4 DEF SetUse, Locks, At
    <3>2. Head(todo[t]) \in [op : {"set", "await"}, b : Block, flag : Flags]
      BY <2>1, <3>1 DEF Steps
    <3>3. e \in [op : {"set", "await"}, b : Block, flag : Flags] /\ e.op = "await"
      BY <3>2
    <3>4. e \in Steps
      BY <3>3 DEF Steps
    <3> HIDE DEF e
    <3> QED BY <3>1, <3>3, <3>4
  <2> QED BY <2>2, <2>3, <2>4
<1>3. Goes(t) /\ Others(t)
  BY <1>1, <1>2, DoneGoes, WaitGoes DEF Goes
<1> QED BY <1>1, <1>2, <1>3

LEMMA SetUseUses ==
    ASSUME Struct, UseCounted, PresentStays, Uses, NEW t \in Thread, SetUse(t) \/ Grant(t)
    PROVE  Uses'
<1>1. /\ todo[t] # <<>> /\ Head(todo[t]).op \in {"set", "await"}
      /\ UNCHANGED <<ptr, data, loaded, given, failed>>
  BY SetUseGoes
<1>2. \/ status'[Subject(t)] \in Present
      \/ \E e \in Steps : e.op = "await" /\ Continue(t, <<e>> \o Tail(todo[t]))
  BY SetUseGoes
<1>3. Goes(t) /\ Others(t)
  BY SetUseGoes
<1>4. PICK x \in Ptr \cup Handle : x = on[t][1]
  BY <1>3, GoesFor
<1>5. WorksFor(t, x)
  BY <1>3, <1>4, GoesFor
<1>6. KeepsBut(x)
  BY <1>1 DEF KeepsBut
<1>7. ASSUME x \in Handle PROVE UseOK(x)'
  <2>1. Chunk(x) = Subject(t) /\ Chunk(x)' = Chunk(x)
    BY <1>1, <1>4, <1>7, SetsFor1 DEF Chunk
  <2>2. \A f : Sets(t, x, f)' => Sets(t, x, f)
    <3>1. PICK s \in Seq(Steps), q \in Seq(Steps) : s = todo[t] /\ q = todo'[t]
      BY <1>3, GoesFor DEF Goes
    <3>2. Len(s) > 0 /\ Rest(q, s) /\ s[1].op \in {"set", "await"}
      BY <1>1, <1>3, <3>1, GoesFor, AtIs DEF Goes
    <3>3. \A f : SetStep(q, f) => SetStep(s, f)
      <4>1. CASE s[1].op = "set"
        BY <3>2, <4>1, RestSet
      <4>2. CASE s[1].op = "await"
        BY <3>2, <4>2, RestPlain
      <4> QED BY <3>2, <4>1, <4>2
    <3>4. ASSUME NEW f, Sets(t, x, f)' PROVE Sets(t, x, f)
      <4>1. SetStep(q, f) /\ x = on'[t][1]
        BY <3>1, <3>4 DEF Sets
      <4>2. SetStep(s, f)
        BY <3>3, <4>1
      <4> QED BY <1>4, <3>1, <4>2 DEF Sets
    <3> QED BY <3>4
  <2>3. \A f \in Flags : Settled(x, f) => Settled(x, f)'
    BY <1>1, <1>3, <2>2, MoreSettled
  <2>4. x \in given' => \E f \in Flags : Settled(x, f)'
    BY <1>1, <1>7, <2>3 DEF Uses, UseOK
  <2>5. status'[Chunk(x)'] \in Present \/ Awaited(x)'
    <3>1. CASE status'[Subject(t)] \in Present
      BY <2>1, <3>1
    <3>2. ASSUME NEW e \in Steps, e.op = "await", Continue(t, <<e>> \o Tail(todo[t]))
          PROVE  Awaited(x)'
      <4>1. PICK r \in Seq(Steps) : r = Tail(todo[t])
        BY <1>1, AtIs
      <4>2. <<e>> \o r # <<>> /\ (<<e>> \o r)[1] = e
        OBVIOUS
      <4>3. todo'[t] = <<e>> \o r /\ on'[t] = on[t]
        BY <3>2, <4>1, <4>2 DEF Continue, Struct, Typed
      <4>4. Waits(t, x)'
        BY <1>4, <3>2, <4>2, <4>3 DEF Waits
      <4> QED BY <4>4 DEF Awaited
    <3> QED BY <1>2, <3>1, <3>2
  <2> QED BY <2>4, <2>5 DEF UseOK
<1> QED BY <1>3, <1>5, <1>6, <1>7, UsesBut

LEMMA SetUseThrowsUses ==
    ASSUME Struct, UseCounted, PresentStays, Uses, NEW t \in Thread, SetUseThrows(t)
    PROVE  Uses'
<1>1. todo[t] # <<>> /\ UNCHANGED <<ptr, data, loaded, given>>
  BY DEF SetUseThrows, Locks, At, objects
<1>2. CASE Last(todo[t]).op # "loc"
  BY <1>1, <1>2, SameUses DEF SetUseThrows
<1>3. CASE Last(todo[t]).op = "loc"
  <2>1. PICK x : x = on[t][1]
    OBVIOUS
  <2>2. failed' = failed \cup {x} /\ Continue(t, <<>>)
    BY <1>3, <2>1 DEF SetUseThrows
  <2>3. Others(t) /\ todo'[t] = <<>>
    BY <1>1, <2>2, NoSteps, ContinueIs DEF Struct
  <2>4. WorksFor(t, x) /\ KeepsBut(x)
    BY <1>1, <2>1, <2>2, <2>3 DEF WorksFor, KeepsBut
  <2>5. ASSUME x \in Handle PROVE UseOK(x)'
    <3>1. \A f \in Flags : Sets(t, x, f)' => Sets(t, x, f)
      BY <2>3, NoSets
    <3>2. \A f \in Flags : Settled(x, f) => Settled(x, f)'
      BY <1>1, <2>3, <3>1, MoreSettled
    <3>3. x \in given' => \E f \in Flags : Settled(x, f)'
      BY <1>1, <2>5, <3>2 DEF Uses, UseOK
    <3> QED BY <2>2, <3>3 DEF UseOK
  <2> QED BY <2>3, <2>4, <2>5, UsesBut
<1> QED BY <1>2, <1>3

LEMMA PrepareUseThrowsUses ==
    ASSUME Struct, UseCounted, PresentStays, Uses, NEW t \in Thread, PrepareUseThrows(t)
    PROVE  Uses'
<1>1. PICK h : h = on[t][1]
  OBVIOUS
<1>2. /\ todo[t] # <<>> /\ Head(todo[t]).op = "prepare" /\ Done(t)
      /\ data' = [data EXCEPT ![h] = None] /\ UNCHANGED <<ptr, loaded, given, failed>>
  BY <1>1 DEF PrepareUseThrows, Locks, At
<1>3. Goes(t) /\ Others(t)
  BY <1>2, DoneGoes DEF Goes
<1>4. WorksFor(t, h)
  BY <1>1, <1>3, GoesFor
<1>5. h \in Handle /\ loaded[h] = {} /\ h \notin given
  <2>1. StepOK(t, 1) /\ Head(todo[t]) = todo[t][1]
    BY <1>2, AtIs
  <2> QED BY <1>1, <1>2, <2>1 DEF StepOK, PrepareOK, ForHandle
<1>6. KeepsBut(h)
  BY <1>2, <1>5 DEF KeepsBut, Struct, Basic
<1>7. UseOK(h)'
  BY <1>2, <1>5, NoUse
<1> QED BY <1>3, <1>4, <1>6, <1>7, UsesBut

LEMMA AdoptUses ==
    ASSUME Struct, UseCounted, PresentStays, Uses, NEW t \in Thread, Adopt(t)
    PROVE  Uses'
<1>1. todo[t] # <<>> /\ Head(todo[t]).op = "adopt"
  BY DEF Adopt, At
<1>2. /\ Head(todo[t]) = todo[t][1] /\ AdoptOK(t, 1) /\ Head(todo[t]).flags \in SUBSET Flags
  BY <1>1, AtIs, StepKinds DEF StepOK
<1>3. PICK g \in Handle, h \in Handle : g = on[t][1] /\ h = on[t][2]
  BY <1>2 DEF AdoptOK
<1>4. PICK S \in SUBSET Flags : S = Head(todo[t]).flags
  BY <1>2
<1>5. data[h] # None /\ Chunk(h) \in Block /\ g \notin given
  BY <1>2, <1>3 DEF AdoptOK, Chunk, Struct, Anchored, Basic
<1>6. PICK b \in Block : b = Chunk(h)
  BY <1>5
<1>7. /\ data' = [data EXCEPT ![g] = data[h]] /\ loaded' = [loaded EXCEPT ![g] = S]
      /\ Continue(t, SetUses(b, S)) /\ UNCHANGED <<ptr, given, failed>>
  BY <1>3, <1>4, <1>6 DEF Adopt
<1>8. SetsFor(SetUses(b, S), b, S) /\ SetUses(b, S) \in Seq(Steps)
  BY SetUsesIs DEF SetsFor
<1>9. /\ Others(t) /\ todo'[t] = SetUses(b, S)
      /\ todo'[t] # <<>> => on'[t] = on[t]
  <2>1. PICK steps \in Seq(Steps) : steps = SetUses(b, S)
    BY <1>8
  <2>2. Others(t) /\ todo'[t] = steps /\ on'[t] = IF steps = <<>> THEN <<>> ELSE on[t]
    BY <1>1, <1>7, <2>1, ContinueIs DEF Struct
  <2> QED BY <2>1, <2>2
<1>10. WorksFor(t, g)
  BY <1>3, <1>9 DEF WorksFor
<1>11. KeepsBut(g)
  BY <1>7, DataKeeps DEF Struct, Basic
<1>12. \A f \in S : Pending(g, f)'
  <2>1. SetsFor(todo'[t], b, S)
    BY <1>8, <1>9
  <2>2. todo'[t] # <<>> => on'[t][1] = g
    BY <1>3, <1>9
  <2> HIDE DEF SetsFor
  <2> QED BY <1>9, <2>1, <2>2, PendingSets
<1>13. loaded'[g] = S
  BY <1>7 DEF Struct, Basic
<1>14. UseOK(g)'
  BY <1>5, <1>7, <1>12, <1>13, NoUse
<1> QED BY <1>9, <1>10, <1>11, <1>14, UsesBut

LEMMA NoOther ==
    ASSUME OneUser, Struct, UserPulls, NEW t \in Thread, todo[t] # <<>>, todo[t][1].op = "loc"
    PROVE  /\ on[t][1] \in Handle /\ Len(todo[t]) = 1 /\ Chunk(on[t][1]) = todo[t][1].b
           /\ loaded[on[t][1]] # {}
           /\ \A u \in Thread \ {t} : todo[u] # <<>> => on[u][1] # on[t][1]
<1>1. StepOK(t, 1)
  BY AtIs
<1>2. LocOK(t, 1)
  BY <1>1 DEF StepOK
<1>3. on[t][1] \in Handle /\ Len(todo[t]) = 1 /\ Chunk(on[t][1]) = todo[t][1].b /\ loaded[on[t][1]] # {}
  BY <1>2 DEF LocOK, ForHandle
<1>4. ASSUME NEW u \in Thread \ {t}, todo[u] # <<>>, on[u][1] = on[t][1] PROVE FALSE
  <2>1. on[t][1] \in Range(on[u])
    BY <1>4, Working DEF Struct
  <2>2. Pulls(t, on[t][1]) /\ Pulls(u, on[t][1])
    BY <1>4, <2>1 DEF Struct, Apart
  <2>3. t \in User[on[t][1]] /\ u \in User[on[t][1]]
    BY <1>3, <1>4, <2>2 DEF UserPulls
  <2> QED BY <1>3, <1>4, <2>3 DEF OneUser
<1> QED BY <1>3, <1>4

\* So all its uses are set when a pull comes to its end.
LEMMA AllSettled ==
    ASSUME OneUser, Struct, UserPulls, NEW t \in Thread, todo[t] # <<>>, todo[t][1].op = "loc"
    PROVE  /\ ~ Awaited(on[t][1])
           /\ \A f : ~ Pending(on[t][1], f)
           /\ \E f \in Flags : Settled(on[t][1], f)
<1>1. PICK h \in Handle : h = on[t][1]
  BY NoOther
<1>2. ASSUME NEW u \in Thread, NEW f, Sets(u, h, f) \/ Waits(u, h) PROVE FALSE
  <2>1. todo[u] # <<>> /\ on[u][1] = h
    BY <1>2, NoSets DEF Sets, Waits
  <2>2. u = t
    BY <1>1, <2>1, NoOther
  <2>3. \A i \in 1..Len(todo[t]) : todo[t][i].op = "loc"
    <3>1. Len(todo[t]) = 1 /\ \A i \in 1..1 : i = 1
      BY NoOther
    <3> QED BY <3>1
  <2> QED BY <1>2, <2>2, <2>3 DEF Sets, SetStep, Waits
<1>3. ~ Awaited(h)
  BY <1>2 DEF Awaited
<1>4. \A f : ~ Pending(h, f)
  BY <1>2, PendingIs
<1>5. \E f \in Flags : f \in loaded[h]
  BY <1>1, NoOther DEF Struct, Basic
<1> QED BY <1>1, <1>3, <1>4, <1>5 DEF Settled

LEMMA GivePointerUses ==
    ASSUME OneUser, Struct, UserPulls, UseCounted, PresentStays, Uses, NEW t \in Thread, GivePointer(t)
    PROVE  Uses'
<1>1. /\ todo[t] # <<>> /\ Head(todo[t]).op = "loc" /\ Done(t)
      /\ status[Subject(t)] \in Present /\ given' = given \cup {on[t][1]}
      /\ UNCHANGED <<status, ptr, data, loaded, failed>>
  BY DEF GivePointer, At, manager, objects
<1>2. Goes(t) /\ Others(t)
  BY <1>1, DoneGoes DEF Goes
<1>3. todo[t][1].op = "loc" /\ Subject(t) = todo[t][1].b
  BY <1>1, AtIs
<1>4. PICK x \in Handle : x = on[t][1]
  BY <1>1, <1>3, NoOther
<1>5. WorksFor(t, x) /\ KeepsBut(x)
  BY <1>1, <1>2, <1>4, GoesFor DEF KeepsBut
<1>6. PICK f \in Flags : Settled(x, f)
  BY <1>1, <1>3, <1>4, AllSettled
<1>7. Settled(x, f)'
  <2>1. todo'[t] = <<>>
    BY <1>1, <1>3, NoOther, AtIs DEF Done, Continue, Struct, Typed
  <2>2. \A ff \in Flags : Sets(t, x, ff)' => Sets(t, x, ff)
    BY <2>1, NoSets
  <2> QED BY <1>1, <1>2, <1>6, <2>2, MoreSettled
<1>8. status'[Chunk(x)'] \in Present
  <2>1. Chunk(x) = Subject(t)
    BY <1>1, <1>3, <1>4, NoOther
  <2>2. Chunk(x)' = Chunk(x)
    BY <1>1 DEF Chunk
  <2> QED BY <1>1, <2>1, <2>2
<1>9. UseOK(x)'
  BY <1>7, <1>8 DEF UseOK
<1> QED BY <1>2, <1>5, <1>9, UsesBut

LEMMA UsesNext ==
    ASSUME OneUser, Struct, UserPulls, UseCounted, InUse, Uses, [Next]_vars
    PROVE  Uses'
<1>0. PresentStays
  BY PresentNext
<1>1. CASE UNCHANGED vars
  BY <1>0, <1>1, SameUses DEF vars
<1>2. ASSUME NEW b \in Block, Evict(b) \/ Fetch(b) \/ Arrive(b) PROVE Uses'
  BY <1>0, <1>2, SameUses DEF Evict, Fetch, Arrive, objects
<1>3. ASSUME NEW t \in Thread, Calls(t) PROVE Uses'
  <2>1. CASE PrepareUse(t) \/ UnsetUse(t) \/ Mfree(t) \/ MfreeDone(t)
    <3>1. /\ todo[t] # <<>> /\ Head(todo[t]).op \notin {"set", "await"}
          /\ UNCHANGED <<ptr, data, loaded, given, failed>>
      BY <2>1 DEF PrepareUse, UnsetUse, Mfree, MfreeDone, Locks, At, objects
    <3>2. Goes(t)
      <4>1. CASE Done(t)
        BY <3>1, <4>1, DoneGoes
      <4>2. CASE Continue(t, <<Step("pffree", Subject(t))>> \o Tail(todo[t]))
        <5>1. Step("pffree", Subject(t)) \in Steps /\ Step("pffree", Subject(t)).op = "pffree"
          BY <3>1, AtIs, StepsAre
        <5> QED BY <3>1, <4>2, <5>1, WaitGoes
      <4> QED BY <2>1, <4>1, <4>2 DEF PrepareUse, UnsetUse, Mfree, MfreeDone
    <3> QED BY <1>0, <3>1, <3>2, PlainUses
  <2>2. CASE Spin(t)
    BY <1>0, <2>2, SameUses DEF Spin, objects
  <2> QED BY <1>0, <1>3, <2>1, <2>2, SetUseUses, SetUseThrowsUses, PrepareUseThrowsUses, TakeUses,
             AdoptUses, GivePointerUses DEF Calls
<1>4. ASSUME NEW t \in Thread, Operations(t) PROVE Uses'
  <2>1. ASSUME NEW p \in Ptr, NEW b \in Block, Construct(t, p, b) PROVE Uses'
    BY <1>0, <2>1, PtrOperationUses
  <2>2. ASSUME NEW p \in Ptr, NEW q \in Ptr, Copy(t, p, q) \/ Assign(t, p, q) PROVE Uses'
    <3>1. \E b \in Block : TRUE
      BY <2>2 DEF Copy, Assign, Reassign, Struct, Basic
    <3> QED BY <1>0, <2>2, <3>1, PtrOperationUses
  <2>3. ASSUME NEW p \in Ptr, Destroy(t, p) PROVE Uses'
    <3>1. \E b \in Block : TRUE
      BY <2>3 DEF Destroy, Struct, Basic
    <3> QED BY <1>0, <2>3, <3>1, PtrOperationUses
  <2>4. ASSUME NEW h \in Handle, NEW p \in Ptr, Adhere(t, h, p) PROVE Uses'
    BY <1>0, <2>4, AdhereUses
  <2>5. ASSUME NEW h \in Handle, NEW flag \in Flags, Pull(t, h, flag) PROVE Uses'
    BY <1>0, <2>5, PullUses
  <2>6. ASSUME NEW g \in Handle, NEW h \in Handle, CopyHandle(t, g, h) \/ AssignHandle(t, g, h) PROVE Uses'
    BY <1>0, <2>6, CopyHandleUses, AssignHandleUses
  <2>7. ASSUME NEW h \in Handle, DestroyHandle(t, h) PROVE Uses'
    BY <1>0, <2>7, DestroyHandleUses
  <2> QED BY <1>4, <2>1, <2>2, <2>3, <2>4, <2>5, <2>6, <2>7 DEF Operations
<1> QED BY <1>1, <1>2, <1>3, <1>4 DEF Next
-----------------------------------------------------------------------------
(* Who pulls is a user of the handle.                                      *)

LEMMA PullsFrom ==
    ASSUME UserPulls, NEW t, Others(t),
           \A h \in Handle : todo'[t] # <<>> /\ Pulls(t, h)' => t \in User[h]
    PROVE  UserPulls'
BY DEF UserPulls, Pulls, Others

\* The last step stays the last while there are steps.
LEMMA RestLast ==
    ASSUME NEW s \in Seq(Steps), NEW q \in Seq(Steps), s # <<>>, q # <<>>, Rest(q, s), Last(q).op = "loc"
    PROVE  Last(s).op = "loc"
<1>1. PICK n \in Nat \ {0}, m \in Nat \ {0} : n = Len(s) /\ m = Len(q)
  OBVIOUS
<1>2. Last(s) = s[n] /\ Last(q) = q[m]
  BY <1>1 DEF Last
<1>3. CASE m = n - 1 /\ \A i \in 1..m : q[i] = s[i + 1]
  <2>1. m \in 1..m /\ m + 1 = n
    BY <1>3
  <2>2. q[m] = s[n]
    BY <1>3, <2>1
  <2> QED BY <1>2, <2>2
<1>4. CASE m = n /\ q[1].op \in {"await", "pffree"} /\ \A i \in 2..m : q[i] = s[i]
  <2>1. m # 1
    BY <1>2, <1>4
  <2>2. m \in 2..m
    BY <2>1
  <2>3. q[m] = s[n]
    BY <1>4, <2>2
  <2> QED BY <1>2, <2>3
<1> QED BY <1>1, <1>3, <1>4 DEF Rest

LEMMA GoesPulls ==
    ASSUME Struct, UserPulls, NEW t \in Thread, Goes(t)
    PROVE  UserPulls'
<1>1. ASSUME NEW h \in Handle, todo'[t] # <<>>, Pulls(t, h)' PROVE t \in User[h]
  <2>1. on'[t] = on[t] /\ todo[t] # <<>> /\ Rest(todo'[t], todo[t]) /\ todo'[t] \in Seq(Steps)
    BY <1>1 DEF Goes
  <2>2. todo[t] \in Seq(Steps)
    BY GoesFor
  <2>3. on'[t] = <<h>> /\ Last(todo'[t]).op = "loc"
    BY <1>1 DEF Pulls
  <2>4. Last(todo[t]).op = "loc"
    BY <1>1, <2>1, <2>2, <2>3, RestLast
  <2> QED BY <2>1, <2>3, <2>4 DEF UserPulls, Pulls
<1> QED BY <1>1, PullsFrom DEF Goes

LEMMA BeginPulls ==
    ASSUME Struct, UserPulls, NEW t \in Thread, NEW objs, NEW steps, Begin(t, objs, steps),
           \A h \in Handle : objs = <<h>> /\ steps # <<>> => t \in User[h]
    PROVE  UserPulls'
<1>1. Others(t) /\ todo'[t] = steps /\ (steps # <<>> => on'[t] = objs)
  BY BeginWorks
<1>2. ASSUME NEW h \in Handle, todo'[t] # <<>>, Pulls(t, h)' PROVE t \in User[h]
  BY <1>1, <1>2 DEF Pulls
<1> QED BY <1>1, <1>2, PullsFrom
LEMMA UserPullsNext ==
    ASSUME Struct, UserPulls, [Next]_vars
    PROVE  UserPulls'
<1>1. ASSUME UNCHANGED <<todo, on>> PROVE UserPulls'
  BY <1>1 DEF UserPulls, Pulls
<1>2. CASE UNCHANGED vars
  BY <1>1, <1>2 DEF vars
<1>3. ASSUME NEW b \in Block, Evict(b) \/ Fetch(b) \/ Arrive(b) PROVE UserPulls'
  BY <1>1, <1>3 DEF Evict, Fetch, Arrive
<1>4. ASSUME NEW t \in Thread, Calls(t) PROVE UserPulls'
  <2>1. ASSUME todo[t] # <<>>, Done(t) PROVE UserPulls'
    BY <2>1, DoneGoes, GoesPulls
  <2>2. CASE SetUse(t) \/ Grant(t)
    BY <2>2, SetUseGoes, GoesPulls
  <2>3. CASE PrepareUse(t) \/ PrepareUseThrows(t) \/ UnsetUse(t) \/ MfreeDone(t) \/ Take(t) \/ GivePointer(t)
    BY <2>1, <2>3 DEF PrepareUse, PrepareUseThrows, UnsetUse, MfreeDone, Take, GivePointer, Locks, At
  <2>4. CASE Mfree(t)
    <3>1. todo[t] # <<>>
      BY <2>4 DEF Mfree, Locks, At
    <3>2. CASE Continue(t, <<Step("pffree", Subject(t))>> \o Tail(todo[t]))
      <4>1. Step("pffree", Subject(t)) \in Steps /\ Step("pffree", Subject(t)).op = "pffree"
        BY <3>1, AtIs, StepsAre
      <4> QED BY <3>1, <3>2, <4>1, WaitGoes, GoesPulls
    <3> QED BY <2>1, <2>4, <3>1, <3>2 DEF Mfree
  <2>5. CASE SetUseThrows(t)
    <3>1. CASE UNCHANGED <<todo, on>>
      BY <1>1, <3>1
    <3>2. CASE Continue(t, <<>>)
      <4>1. Others(t) /\ todo'[t] = <<>>
        BY <3>2 DEF Continue, Others, Struct, Typed
      <4> QED BY <4>1, PullsFrom
    <3> QED BY <2>5, <3>1, <3>2 DEF SetUseThrows
  <2>6. CASE Adopt(t)
    <3>1. /\ todo[t] # <<>> /\ Head(todo[t]).op = "adopt"
          /\ Continue(t, SetUses(Chunk(on[t][2]), Head(todo[t]).flags))
      BY <2>6 DEF Adopt, At
    <3>2. Len(on[t]) = 2
      BY <3>1, AtIs DEF StepOK, AdoptOK
    <3>3. Others(t) /\ (todo'[t] # <<>> => on'[t] = on[t])
      BY <3>1 DEF Continue, Others, Struct, Typed
    <3>4. \A h \in Handle : on[t] # <<h>>
      BY <3>2
    <3> QED BY <3>3, <3>4, PullsFrom DEF Pulls
  <2>7. CASE Spin(t)
    BY <1>1, <2>7 DEF Spin
  <2> QED BY <1>4, <2>2, <2>3, <2>4, <2>5, <2>6, <2>7 DEF Calls
<1>5. ASSUME NEW t \in Thread, Operations(t) PROVE UserPulls'
  <2>1. ASSUME NEW p \in Ptr, NEW steps, Begin(t, <<p>>, steps) PROVE UserPulls'
    <3>1. \A h \in Handle : <<p>> # <<h>>
      BY HandleAssumption
    <3> QED BY <2>1, <3>1, BeginPulls
  <2>2. ASSUME NEW x, NEW y, NEW steps, Begin(t, <<x, y>>, steps) PROVE UserPulls'
    <3>1. \A h \in Handle : <<x, y>> # <<h>>
      OBVIOUS
    <3> QED BY <2>2, <3>1, BeginPulls
  <2>3. ASSUME NEW p \in Ptr, NEW b \in Block, Construct(t, p, b) PROVE UserPulls'
    BY <2>1, <2>3 DEF Construct
  <2>4. ASSUME NEW p \in Ptr, NEW q \in Ptr, Copy(t, p, q) PROVE UserPulls'
    BY <2>2, <2>4 DEF Copy
  <2>5. ASSUME NEW p \in Ptr, NEW q \in Ptr, Assign(t, p, q) PROVE UserPulls'
    BY <2>2, <2>5 DEF Assign, Reassign, Release
  <2>6. ASSUME NEW p \in Ptr, Destroy(t, p) PROVE UserPulls'
    BY <2>1, <2>6 DEF Destroy, Release
  <2>7. ASSUME NEW h \in Handle, NEW p \in Ptr, Adhere(t, h, p) PROVE UserPulls'
    BY <2>2, <2>7 DEF Adhere
  <2>8. ASSUME NEW h \in Handle, NEW flag \in Flags, Pull(t, h, flag) PROVE UserPulls'
    <3>1. t \in User[h] /\ \E steps : Begin(t, <<h>>, steps)
      BY <2>8 DEF Pull
    <3>2. \A g \in Handle : <<h>> = <<g>> => t \in User[g]
      BY <3>1
    <3> QED BY <3>1, <3>2, BeginPulls
  <2>9. ASSUME NEW g \in Handle, NEW h \in Handle, CopyHandle(t, g, h) \/ AssignHandle(t, g, h)
        PROVE  UserPulls'
    BY <2>2, <2>9 DEF CopyHandle, AssignHandle
  <2>10. ASSUME NEW h \in Handle, DestroyHandle(t, h) PROVE UserPulls'
    BY <2>2, <2>10 DEF DestroyHandle
  <2> QED BY <1>5, <2>3, <2>4, <2>5, <2>6, <2>7, <2>8, <2>9, <2>10 DEF Operations
<1> QED BY <1>2, <1>3, <1>4, <1>5 DEF Next
-----------------------------------------------------------------------------
(* Who spins stays.                                                        *)

LEMMA SpinStarts ==
    ASSUME OneUser, Struct, UserPulls, Uses, NEW t \in Thread, Spin(t)
    PROVE  Spinning'
<1>1. /\ todo[t] # <<>> /\ Head(todo[t]).op = "loc" /\ status[Subject(t)] \in Outside
      /\ mutex' = t /\ UNCHANGED <<status, failed, todo, on>>
  BY DEF Spin, Locks, At, manager
<1>2. todo[t][1].op = "loc" /\ Subject(t) = todo[t][1].b
  BY <1>1, AtIs
<1>3. on[t][1] \in failed
  <2>1. SUFFICES ASSUME on[t][1] \notin failed PROVE FALSE
    OBVIOUS
  <2>2. on[t][1] \in Handle /\ Chunk(on[t][1]) = Subject(t)
    BY <1>1, <1>2, NoOther
  <2>3. ~ Awaited(on[t][1]) /\ \E f \in Flags : Settled(on[t][1], f)
    BY <1>1, <1>2, AllSettled
  <2>4. status[Subject(t)] \in Present
    BY <2>1, <2>2, <2>3 DEF Uses, UseOK
  <2> QED BY <1>1, <2>4 DEF Present, Outside
<1> QED BY <1>1, <1>2, <1>3 DEF Spinning

\* Nobody else can have the mutex, and nobody lets go the handle.
LEMMA SpinningStays ==
    ASSUME Struct, Spinning, mutex # NoThread, [Next]_vars
    PROVE  Spinning'
<1>1. PICK m \in Thread : m = mutex
  BY DEF Struct, Basic
<1>2. PICK x : x = on[m][1]
  OBVIOUS
<1>3. /\ todo[m] # <<>> /\ todo[m][1].op = "loc" /\ x \in failed
      /\ status[todo[m][1].b] \in Outside /\ todo[m][1].b \in Block
  BY <1>1, <1>2, AtIs DEF Spinning
<1>4. Head(todo[m]) = todo[m][1] /\ Subject(m) = todo[m][1].b /\ x \in Range(on[m])
  BY <1>2, <1>3, AtIs, Working DEF Struct
<1>5. ASSUME mutex' = mutex, todo'[m] = todo[m], on'[m] = on[m], x \in failed', UNCHANGED status
      PROVE  Spinning'
  BY <1>1, <1>2, <1>3, <1>5 DEF Spinning
<1>6. CASE UNCHANGED vars
  BY <1>3, <1>5, <1>6 DEF vars
<1>7. ASSUME NEW b \in Block, Evict(b) \/ Fetch(b) \/ Arrive(b) PROVE FALSE
  BY <1>7 DEF Evict, Fetch, Arrive
<1>8. ASSUME NEW t \in Thread, Calls(t) PROVE Spinning'
  <2>1. Take(t) \/ Adopt(t) \/ GivePointer(t)
    BY <1>8 DEF Calls, SetUse, Grant, SetUseThrows, PrepareUse, PrepareUseThrows, UnsetUse, Mfree, MfreeDone,
                Spin, Locks
  <2>2. t # m
    <3>1. CASE Take(t) \/ Adopt(t)
      BY <1>3, <1>4, <3>1 DEF Take, Adopt, At
    <3>2. CASE GivePointer(t)
      BY <1>3, <1>4, <3>2 DEF GivePointer, Present, Outside
    <3> QED BY <2>1, <3>1, <3>2
  <2>3. mutex' = mutex /\ failed' = failed /\ UNCHANGED status
    BY <2>1 DEF Take, Adopt, GivePointer, manager
  <2>4. \E steps : Continue(t, steps)
    BY <2>1 DEF Take, Adopt, GivePointer, Done
  <2>5. todo'[m] = todo[m] /\ on'[m] = on[m]
    BY <2>2, <2>4 DEF Continue, Struct, Typed
  <2> QED BY <1>3, <1>5, <2>3, <2>5
<1>9. ASSUME NEW t \in Thread, Operations(t) PROVE Spinning'
  <2>1. ASSUME NEW objs, NEW steps, Begin(t, objs, steps), mutex' = mutex, UNCHANGED status,
               failed' = failed \/ \E h \in Handle : failed' = failed \ {h} /\ Alone(t, <<h>>)
        PROVE  Spinning'
    <3>1. t # m
      BY <1>3, <2>1 DEF Begin
    <3>2. todo'[m] = todo[m] /\ on'[m] = on[m]
      BY <2>1, <3>1 DEF Begin, Struct, Typed
    <3>3. x \in failed'
      <4>1. ASSUME NEW h \in Handle, Alone(t, <<h>>) PROVE h # x
        BY <1>4, <3>1, <4>1, TupleRange DEF Alone
      <4> QED BY <1>3, <2>1, <4>1
    <3> QED BY <1>5, <2>1, <3>2, <3>3
  <2>2. ASSUME NEW p \in Ptr, NEW b \in Block, Construct(t, p, b) PROVE Spinning'
    BY <2>1, <2>2 DEF Construct
  <2>3. ASSUME NEW p \in Ptr, NEW q \in Ptr, Copy(t, p, q) PROVE Spinning'
    BY <2>1, <2>3 DEF Copy, manager
  <2>4. ASSUME NEW p \in Ptr, NEW q \in Ptr, Assign(t, p, q) PROVE Spinning'
    BY <2>1, <2>4 DEF Assign, Reassign, Release, manager
  <2>5. ASSUME NEW p \in Ptr, Destroy(t, p) PROVE Spinning'
    BY <2>1, <2>5 DEF Destroy, Release, manager
  <2>6. ASSUME NEW h \in Handle, NEW p \in Ptr, Adhere(t, h, p) PROVE Spinning'
    BY <2>1, <2>6 DEF Adhere, manager
  <2>7. ASSUME NEW h \in Handle, NEW flag \in Flags, Pull(t, h, flag) PROVE Spinning'
    BY <2>1, <2>7 DEF Pull, manager
  <2>8. ASSUME NEW g \in Handle, NEW h \in Handle, CopyHandle(t, g, h) PROVE Spinning'
    BY <2>1, <2>8 DEF CopyHandle, manager
  <2>9. ASSUME NEW g \in Handle, NEW h \in Handle, AssignHandle(t, g, h) PROVE Spinning'
    <3>1. Alone(t, <<g>>)
      BY <2>9, TupleRange DEF AssignHandle, Alone
    <3> QED BY <2>1, <2>9, <3>1 DEF AssignHandle, LetsGo, manager
  <2>10. ASSUME NEW h \in Handle, DestroyHandle(t, h) PROVE Spinning'
    BY <2>1, <2>10 DEF DestroyHandle, LetsGo, manager
  <2> QED BY <1>9, <2>2, <2>3, <2>4, <2>5, <2>6, <2>7, <2>8, <2>9, <2>10 DEF Operations
<1> QED BY <1>6, <1>7, <1>8, <1>9 DEF Next
-----------------------------------------------------------------------------
(* The theorems on handles with one user.                                  *)

UserInv == Inv /\ UserPulls /\ Uses /\ Spinning

LEMMA UserInvNext ==
    ASSUME OneUser, UserInv, [Next]_vars
    PROVE  UserInv'
<1>1. Inv'
  BY StructNext, CountNext, InUseNext DEF Inv, UserInv
<1>2. UserPulls' /\ Uses'
  BY UserPullsNext, UsesNext DEF Inv, UserInv
<1>3. Spinning'
  <2>1. CASE mutex # NoThread
    BY <2>1, SpinningStays DEF Inv, UserInv
  <2>2. CASE mutex = NoThread /\ mutex' = NoThread
    BY <2>2 DEF Spinning
  <2>3. CASE mutex = NoThread /\ mutex' # NoThread
    <3>1. mutex' # mutex
      BY <2>3
    <3>2. ASSUME NEW b \in Block, Evict(b) \/ Fetch(b) \/ Arrive(b) PROVE mutex' = mutex
      BY <3>2 DEF Evict, Fetch, Arrive
    <3>3. ASSUME NEW t \in Thread, Operations(t) PROVE mutex' = mutex
      BY <3>3 DEF Operations, Construct, Copy, Assign, Reassign, Destroy, Adhere, Pull, CopyHandle,
                  AssignHandle, DestroyHandle
    <3>4. ASSUME NEW t \in Thread, Calls(t), ~ Spin(t) PROVE mutex' = mutex
      BY <3>4 DEF Calls, SetUse, Grant, SetUseThrows, PrepareUse, PrepareUseThrows, UnsetUse, Mfree, MfreeDone,
                  Take, Adopt, GivePointer
    <3>5. PICK t \in Thread : Spin(t)
      BY <3>1, <3>2, <3>3, <3>4 DEF Next, vars
    <3> QED BY <3>5, SpinStarts DEF Inv, UserInv
  <2> QED BY <2>1, <2>2, <2>3
<1> QED BY <1>1, <1>2, <1>3 DEF UserInv

LEMMA UserInvHolds ==
    ASSUME OneUser
    PROVE  Spec => []UserInv
<1>1. Init => UserInv
  <2>1. SUFFICES ASSUME Init PROVE UserInv
    OBVIOUS
  <2>2. Inv
    BY <2>1, InitStruct, InitCounts DEF Inv, InUse, Init, Present
  <2> QED BY <2>1, <2>2 DEF Init, UserInv, UserPulls, Uses, UseOK, Settled, Spinning
<1>2. UserInv /\ [Next]_vars => UserInv'
  BY UserInvNext
<1> QED BY <1>1, <1>2, PTL DEF Spec

\* A chunk of which a handle has given out a pointer stays in RAM as long as the
\* handle lives, if no two threads pull from one handle, whatever other handles
\* and the manager do.
THEOREM PointersRemain ==
    ASSUME OneUser
    PROVE  Spec => PointersStay
<1>1. ASSUME UserInv, [Next]_vars, NEW h \in given \cap given', status[Chunk(h)] \in Present
      PROVE  status'[Chunk(h)] \in Present
  <2>1. h \in Handle
    BY <1>1 DEF UserInv, Inv, Struct, Basic
  <2>2. PICK f \in Flags : Settled(h, f)
    BY <1>1, <2>1 DEF UserInv, Uses, UseOK
  <2>3. data[h] \in Ptr /\ Chunk(h) \in Block /\ ptr[data[h]] = Chunk(h) /\ useCnt[Chunk(h)] > 0
    BY <1>1, <2>1, <2>2, SettledUsed DEF UserInv, Inv
  <2>4. PresentStays
    BY <1>1, PresentNext DEF UserInv, Inv
  <2> QED BY <1>1, <2>3, <2>4 DEF PresentStays
<1>2. UserInv /\ [Next]_vars
          => [\A h \in given \cap given' : status[Chunk(h)] \in Present => status'[Chunk(h)] \in Present]_vars
  BY <1>1
<1> QED BY <1>2, UserInvHolds, PTL DEF Spec, PointersStay

\* Under the same condition only a pull from a handle whose setUse has failed
\* spins with the mutex held.
THEOREM SpinsOnlyAfterFailure ==
    ASSUME OneUser
    PROVE  Spec => []SpinsAfterFailure
<1>1. UserInv => SpinsAfterFailure
  BY DEF UserInv, Spinning, SpinsAfterFailure
<1> QED BY <1>1, UserInvHolds, PTL
=============================================================================
