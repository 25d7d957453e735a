--------------------------- MODULE PageFile_proofs ---------------------------
(***************************************************************************)
(* Proofs about the allocator of the page files, for any number of chunks, *)
(* files and sizes: types, the tiling of the files, the chains of the      *)
(* chunks, the accounts, and that it implements SwapSpace.                 *)
(***************************************************************************)
EXTENDS PageFile, FiniteSetTheorems, SequenceTheorems, WellFoundedInduction, TLAPS

-----------------------------------------------------------------------------
(* The inductive invariant.                                                *)

\* n follows o among the offsets of S, or is where the swap ends.
Follows(S, end, o, n) ==
    /\ o \in S /\ n \in S \cup {end} /\ o < n
    /\ \A p \in S : ~ (o < p /\ p < n)

\* What lies between two neighbours.
TileOK(A, o, n, end) ==
    /\ o + A[o].size <= n /\ n - o - A[o].size < LocationSize
    /\ A[o].status = "PAGE_FREE" =>
          /\ n = o + A[o].size
          /\ n # end /\ n % PageFileSize # 0 => A[n].status # "PAGE_FREE"

\* A map from offsets to locations.
IsMap(A) == A \in [DOMAIN A -> [size : Nat \ {0},
                                status : {"PAGE_FREE", "PAGE_PART", "PAGE_END"}]]

\* The map A of locations tiles a swap of `end' bytes: files begin with a location,
\* everything is aligned, and neighbours are as they should be.
Tiles(A, end) ==
    /\ IsMap(A) /\ DOMAIN A \subseteq 0..(end - 1)
    /\ \A b \in 0..(end - 1) : b % PageFileSize = 0 => b \in DOMAIN A
    /\ \A o \in DOMAIN A : o % MemoryAlignment = 0 /\ A[o].size % MemoryAlignment = 0
    /\ \A o, n \in Nat : Follows(DOMAIN A, end, o, n) => TileOK(A, o, n, end)

Layout ==
    /\ pageFileNumber \in InitialFiles..MaxFiles
    /\ Tiles(all_space, SwapSize)
    /\ free_space = {o \in Offsets : IsFree(o)}

\* Whose the locations of A are that are not free: each of one chunk, at one place of
\* its chain.
OwnersOf(A, P) ==
    /\ P \in [Chunk -> Seq(DOMAIN A)]
    /\ \A c \in Chunk : \A i \in DOMAIN P[c] :
          A[P[c][i]].status = IF i = Len(P[c]) THEN "PAGE_END" ELSE "PAGE_PART"
    /\ \A c, d \in Chunk : \A i \in DOMAIN P[c] : \A j \in DOMAIN P[d] :
          P[c][i] = P[d][j] => c = d /\ i = j
    /\ \A o \in DOMAIN A : A[o].status # "PAGE_FREE" => \E c \in Chunk : o \in Range(P[c])

Owners ==
    /\ OwnersOf(all_space, parts)
    /\ aio \subseteq {o \in Offsets : ~IsFree(o)}

\* Sums: a pair for each element of S and each unit of its weight.
Cells(w, S) == UNION {{x} \X (1..w[x]) : x \in S}
Total(w, S) == Cardinality(Cells(w, S))

\* The weights of the locations of a map, and the free ones.
SizesOf(A) == [o \in DOMAIN A |-> A[o].size]
FreeOf(A) == {p \in DOMAIN A : A[p].status = "PAGE_FREE"}

\* What all locations hold, what the free ones do, and those in the chain of a chunk.
Stored == Total(SizesOf(all_space), Offsets)
Spare == Total(SizesOf(all_space), FreeOf(all_space))
Left(c) == Total(SizesOf(all_space), Range(parts[c]))

\* A chunk that is not being freed has all of its locations.
Whole == \A c \in Chunk :
    /\ parts[c] # <<>> /\ c \notin deleting /\ op.freeing # c => Left(c) = Size[c]
    /\ booked[c] => parts[c] # <<>>
    /\ ~booked[c] => Range(parts[c]) \cap aio = {}

\* Where the code is.
Working ==
    /\ booked \in [Chunk -> BOOLEAN]
    /\ deleting \subseteq {c \in Chunk : booked[c]}
    /\ op \in [kind : {"none", "pfmalloc", "cleanup", "discard", "delete", "thrown"},
               chunk : Chunk \cup {NoChunk}, freeing : Chunk \cup {NoChunk},
               needed : Nat, cleaned : Nat]
    /\ op.kind \in {"discard", "delete"} => op.freeing # NoChunk
    /\ op.freeing # NoChunk =>
          /\ op.kind \in {"pfmalloc", "cleanup", "discard", "delete"}
          /\ parts[op.freeing] # <<>>
          /\ op.kind = "delete" <=> op.freeing \in deleting
          /\ op.kind = "delete" <=> booked[op.freeing]
    /\ op.kind = "pfmalloc" => op.chunk \in Chunk /\ parts[op.chunk] = <<>>

\* pfmalloc counts on what is free, and on what the chunk being cleaned still has.
Promised ==
    op.kind = "pfmalloc" =>
        Size[op.chunk] - op.needed + op.cleaned <=
            Spare + (IF op.freeing = NoChunk THEN 0 ELSE Left(op.freeing))

\* swapFree is exact: what is stored, less what is claimed.
Exact == swapFree = (Stored - Total(Size, {c \in Chunk : booked[c]})) % Modulus

PageInv == Layout /\ Owners /\ Whole /\ Working /\ Promised /\ Exact

-----------------------------------------------------------------------------
(* Numbers.                                                                *)

\* Quotient and remainder.
LEMMA DivMod ==
    \A a \in Int, m \in Nat \ {0} :
        a = m * (a \div m) + (a % m) /\ (a % m) \in 0..(m - 1) /\ a \div m \in Int
OBVIOUS

\* They are unique.
LEMMA ModOf == \A m \in Nat \ {0}, q \in Int : \A r \in 0..(m - 1) : (m * q + r) % m = r
OBVIOUS

\* A remainder may be taken early.
LEMMA ModSum ==
    ASSUME NEW a \in Int, NEW b \in Int, NEW m \in Nat \ {0}
    PROVE  ((a % m) + b) % m = (a + b) % m
<1>1. PICK q \in Int, r \in 0..(m - 1) : a = m * q + r /\ a % m = r
  BY DivMod
<1>2. PICK p \in Int, s \in 0..(m - 1) : r + b = m * p + s /\ (r + b) % m = s
  <2>1. PICK d \in Int : d = r + b
    OBVIOUS
  <2>2. PICK p \in Int, s \in 0..(m - 1) : d = m * p + s /\ d % m = s
    BY DivMod
  <2> QED BY <2>1, <2>2
<1>3. q + p \in Int /\ a + b = m * (q + p) + s
  BY <1>1, <1>2
<1>4. (m * (q + p) + s) % m = s
  BY <1>3, ModOf
<1> QED BY <1>1, <1>2, <1>3, <1>4

\* Multiples.
LEMMA Multiples ==
    ASSUME NEW a \in Int, NEW b \in Int, NEW m \in Nat \ {0}, b % m = 0
    PROVE  (a + b) % m = a % m /\ (a - b) % m = a % m
<1>1. PICK q \in Int, r \in 0..(m - 1) : a = m * q + r /\ a % m = r
  BY DivMod
<1>2. PICK p \in Int : b = m * p
  <2>1. PICK p \in Int : b = m * p + (b % m)
    BY DivMod
  <2> QED BY <2>1
<1>3. q + p \in Int /\ q - p \in Int /\ a + b = m * (q + p) + r /\ a - b = m * (q - p) + r
  BY <1>1, <1>2
<1>4. (a + b) % m = r
  <2>1. PICK d \in Int : d = q + p
    BY <1>3
  <2>2. (m * d + r) % m = r
    BY ModOf
  <2> QED BY <1>3, <2>1, <2>2
<1>5. (a - b) % m = r
  <2>1. PICK d \in Int : d = q - p
    BY <1>3
  <2>2. (m * d + r) % m = r
    BY ModOf
  <2> QED BY <1>3, <2>1, <2>2
<1> QED BY <1>1, <1>4, <1>5

LEMMA Product == \A k \in Int, m \in Nat \ {0} : (k * m) % m = 0
OBVIOUS

\* Between two multiples lies at least one step.
LEMMA MultiplesApart ==
    ASSUME NEW a \in Int, NEW b \in Int, NEW m \in Nat \ {0}, a % m = 0, b % m = 0, a < b
    PROVE  a + m <= b
<1>1. PICK p \in Int, q \in Int : a = m * p /\ b = m * q
  <2>1. PICK p \in Int : a = m * p + (a % m)
    BY DivMod
  <2>2. PICK q \in Int : b = m * q + (b % m)
    BY DivMod
  <2> QED BY <2>1, <2>2
<1>2. p < q
  <2>1. CASE q <= p
    <3>1. m * q <= m * p
      BY <2>1
    <3> QED BY <1>1, <3>1
  <2> QED BY <2>1
<1>3. m * (p + 1) <= m * q
  BY <1>2
<1>4. m * (p + 1) = m * p + m
  OBVIOUS
<1> QED BY <1>1, <1>3, <1>4

\* The multiple at or below a number, and the next one.
LEMMA MultipleBelow ==
    ASSUME NEW a \in Nat, NEW m \in Nat \ {0}
    PROVE  \E b \in Nat : /\ b % m = 0 /\ (b + m) % m = 0 /\ b <= a /\ a < b + m
                          /\ a % m # 0 => b < a
<1>1. PICK q \in Int, r \in 0..(m - 1) : a = m * q + r /\ a % m = r
  <2>1. a \in Int
    OBVIOUS
  <2>2. a = m * (a \div m) + (a % m) /\ (a % m) \in 0..(m - 1) /\ a \div m \in Int
    BY <2>1, DivMod
  <2> QED BY <2>2
<1>2. q >= 0
  <2>1. CASE q < 0
    <3>1. m * (q + 1) <= 0
      BY <2>1
    <3>2. m * (q + 1) = m * q + m
      OBVIOUS
    <3> QED BY <1>1, <3>1, <3>2
  <2> QED BY <2>1
<1>3. PICK b \in Nat : b = m * q
  BY <1>2
<1>4. b % m = 0
  <2>1. m * q = q * m
    OBVIOUS
  <2> QED BY <1>3, <2>1, Product
<1>5. m % m = 0
  <2>1. 1 * m = m
    OBVIOUS
  <2>2. (1 * m) % m = 0
    BY Product
  <2> QED BY <2>1, <2>2
<1>6. (b + m) % m = 0
  <2>1. b \in Int /\ m \in Int
    OBVIOUS
  <2>2. (b + m) % m = b % m
    BY <1>5, <2>1, Multiples
  <2> QED BY <1>4, <2>2
<1>7. b <= a /\ a < b + m /\ (r # 0 => b < a)
  <2>1. a = b + r
    BY <1>1, <1>3
  <2> QED BY <2>1
<1> QED BY <1>1, <1>4, <1>6, <1>7

\* Sizes are multiples of the alignment: padding adds nothing.
LEMMA PaddedSame ==
    ASSUME NEW x \in Nat, x % MemoryAlignment = 0
    PROVE  Padded(x) = x
<1> DEFINE m == MemoryAlignment
<1>1. m \in Nat \ {0}
  BY PageFileAssumption
<1> HIDE DEF m
<1>2. PICK q \in Int : x = m * q
  <2>1. x \in Int /\ x % m = 0
    BY DEF m
  <2>2. x = m * (x \div m) + (x % m) /\ x \div m \in Int
    BY <1>1, <2>1, DivMod
  <2>3. PICK q \in Int : q = x \div m
    BY <2>2
  <2>4. x = m * q + 0
    BY <2>1, <2>2, <2>3
  <2> QED BY <1>1, <2>4
<1>3. PICK a \in Int : a = x + m - 1
  BY <1>1
<1>4. PICK d \in Int : d = a \div m /\ a = m * d + (a % m)
  BY <1>1, DivMod
<1>5. a % m = m - 1
  <2>1. a = m * q + (m - 1)
    BY <1>1, <1>2, <1>3
  <2> QED BY <1>1, <2>1, ModOf
<1>6. d * m = x
  BY <1>1, <1>3, <1>4, <1>5
<1> QED BY <1>3, <1>4, <1>6 DEF Padded, m

\* A size that is not zero takes at least one file.
LEMMA RoundedUp ==
    ASSUME NEW x \in Nat \ {0}, NEW m \in Nat \ {0}
    PROVE  (x + m - 1) \div m \in Nat \ {0}
<1>1. PICK a \in Int : a = x + m - 1
  OBVIOUS
<1>2. PICK d \in Int, r \in 0..(m - 1) : d = a \div m /\ a = m * d + r
  BY DivMod
<1>3. m * d >= 1
  BY <1>1, <1>2
<1>4. d > 0
  <2>1. CASE d <= 0
    <3>1. m * d <= 0
      BY <2>1
    <3> QED BY <1>3, <3>1
  <2> QED BY <2>1
<1> QED BY <1>1, <1>2, <1>4

\* Sets of numbers have a least and, if they are bounded, a greatest element.
LEMMA Least ==
    ASSUME NEW S \in SUBSET Nat, S # {}
    PROVE  \E x \in S : \A y \in S : x <= y
<1>1. PICK R : R = OpToRel(<, Nat)
  OBVIOUS
<1>2. \A x, y \in Nat : <<x, y>> \in R <=> x < y
  BY <1>1 DEF OpToRel
<1>3. IsWellFoundedOn(R, Nat)
  BY <1>1, NatLessThanWellFounded
<1>4. \E x \in S : \A y \in S : ~ (<<y, x>> \in R)
  BY <1>3, WFMin
<1>5. PICK x \in S : \A y \in S : ~ (<<y, x>> \in R)
  BY <1>4
<1>6. ASSUME NEW y \in S PROVE x <= y
  <2>1. x \in Nat /\ y \in Nat /\ ~ (y < x)
    BY <1>2, <1>5
  <2> QED BY <2>1
<1> QED BY <1>6

LEMMA Greatest ==
    ASSUME NEW S \in SUBSET Nat, S # {}, NEW n \in Nat, \A x \in S : x <= n
    PROVE  \E x \in S : \A y \in S : y <= x
<1>1. PICK T : T = {n - x : x \in S}
  OBVIOUS
<1>2. T \in SUBSET Nat /\ T # {}
  <2>1. \A x \in S : x \in Nat /\ x <= n /\ n - x \in Nat
    OBVIOUS
  <2> QED BY <1>1, <2>1
<1>3. PICK z \in T : \A y \in T : z <= y
  BY <1>2, Least
<1>4. PICK x \in S : z = n - x
  BY <1>1
<1>5. ASSUME NEW y \in S PROVE y <= x
  <2>1. n - y \in T
    BY <1>1
  <2>2. n - x <= n - y
    BY <1>3, <1>4, <2>1
  <2> QED BY <2>2
<1> QED BY <1>5

LEMMA MinIs ==
    ASSUME NEW S \in SUBSET Nat, S # {}
    PROVE  Min(S) \in S /\ \A y \in S : Min(S) <= y
BY Least DEF Min

LEMMA MaxIs ==
    ASSUME NEW S \in SUBSET Nat, S # {}, NEW n \in Nat, \A x \in S : x <= n
    PROVE  Max(S) \in S /\ \A y \in S : y <= Max(S)
BY Greatest DEF Max

-----------------------------------------------------------------------------
(* Sums: the bytes of locations, the sizes of chunks.                      *)

Weights(w, S) == IsFiniteSet(S) /\ \A x \in S : w[x] \in Nat

LEMMA CellsAre ==
    \A w, S, p : p \in Cells(w, S) <=> \E x \in S : p \in {x} \X (1..w[x])
BY DEF Cells

\* An element has cells of its own.
LEMMA CellsOwn ==
    \A w, v, x, y, p : p \in {x} \X (1..w[x]) /\ p \in {y} \X (1..v[y]) => x = y
OBVIOUS

LEMMA CellsFinite ==
    ASSUME NEW w, NEW S, Weights(w, S)
    PROVE  IsFiniteSet(Cells(w, S))
<1> DEFINE C == {{x} \X (1..w[x]) : x \in S}
           f == [x \in S |-> {x} \X (1..w[x])]
<1>1. IsFiniteSet(C)
  <2>1. f \in Surjection(S, C)
    BY DEF Surjection
  <2>2. IsFiniteSet(S)
    BY DEF Weights
  <2> QED BY <2>1, <2>2, FS_Surjection
<1>2. \A T \in C : IsFiniteSet(T)
  <2>1. ASSUME NEW x \in S PROVE IsFiniteSet({x} \X (1..w[x]))
    <3>1. PICK n \in Nat : n = w[x]
      BY DEF Weights
    <3>2. IsFiniteSet(1..n) /\ IsFiniteSet({x})
      <4>1. 1 \in Int /\ n \in Int
        OBVIOUS
      <4> QED BY <4>1, FS_Interval, FS_Singleton
    <3>3. IsFiniteSet({x} \X (1..n))
      BY <3>2, FS_Product
    <3> QED BY <3>1, <3>3
  <2> QED BY <2>1
<1> HIDE DEF C
<1>3. IsFiniteSet(UNION C)
  BY <1>1, <1>2, FS_UNION
<1> QED BY <1>3 DEF C, Cells

LEMMA TotalType ==
    ASSUME NEW w, NEW S, Weights(w, S)
    PROVE  Total(w, S) \in Nat
BY CellsFinite, FS_CardinalityType DEF Total

\* Only the weights of the elements count.
LEMMA TotalSame ==
    ASSUME NEW w, NEW v, NEW S, \A x \in S : w[x] = v[x]
    PROVE  Total(w, S) = Total(v, S)
<1>1. \A p : p \in Cells(w, S) <=> p \in Cells(v, S)
  BY CellsAre
<1>2. Cells(w, S) = Cells(v, S)
  BY <1>1
<1> QED BY <1>2 DEF Total

LEMMA TotalNone == \A w : Total(w, {}) = 0
<1>1. \A w : Cells(w, {}) = {}
  BY CellsAre
<1> QED BY <1>1, FS_EmptySet DEF Total

LEMMA TotalOne ==
    ASSUME NEW w, NEW x, w[x] \in Nat
    PROVE  Total(w, {x}) = w[x]
<1>1. PICK n \in Nat : n = w[x]
  OBVIOUS
<1>2. Cells(w, {x}) = {x} \X (1..n)
  BY <1>1 DEF Cells
<1>3. IsFiniteSet(1..n) /\ Cardinality(1..n) = n
  BY FS_Interval
<1>4. IsFiniteSet({x}) /\ Cardinality({x}) = 1
  BY FS_Singleton
<1>5. Cardinality({x} \X (1..n)) = Cardinality({x}) * Cardinality(1..n)
  BY <1>3, <1>4, FS_Product
<1>6. 1 * n = n
  OBVIOUS
<1> QED BY <1>1, <1>2, <1>3, <1>4, <1>5, <1>6 DEF Total

\* Two sets without a common element.
LEMMA TotalUnion ==
    ASSUME NEW w, NEW S, NEW T, Weights(w, S), Weights(w, T), S \cap T = {}
    PROVE  Weights(w, S \cup T) /\ Total(w, S \cup T) = Total(w, S) + Total(w, T)
<1>1. IsFiniteSet(Cells(w, S)) /\ IsFiniteSet(Cells(w, T))
  BY CellsFinite
<1>2. Cells(w, S \cup T) = Cells(w, S) \cup Cells(w, T)
  BY CellsAre
<1>3. Cells(w, S) \cap Cells(w, T) = {}
  <2>1. ASSUME NEW p, p \in Cells(w, S), p \in Cells(w, T) PROVE FALSE
    BY <2>1, CellsAre, CellsOwn
  <2> QED BY <2>1
<1>4. Cardinality(Cells(w, S) \cup Cells(w, T))
        = Cardinality(Cells(w, S)) + Cardinality(Cells(w, T))
            - Cardinality(Cells(w, S) \cap Cells(w, T))
  BY <1>1, FS_Union
<1>5. Cardinality(Cells(w, S)) \in Nat /\ Cardinality(Cells(w, T)) \in Nat
  BY <1>1, FS_CardinalityType
<1>6. Cardinality(Cells(w, S) \cap Cells(w, T)) = 0
  BY <1>3, FS_EmptySet
<1>7. Weights(w, S \cup T)
  BY FS_Union DEF Weights
<1>8. PICK a \in Nat, b \in Nat : a = Cardinality(Cells(w, S)) /\ b = Cardinality(Cells(w, T))
  BY <1>5
<1>9. Cardinality(Cells(w, S \cup T)) = a + b
  <2>1. Cardinality(Cells(w, S \cup T)) = a + b - 0
    BY <1>2, <1>4, <1>6, <1>8
  <2>2. a + b - 0 = a + b
    OBVIOUS
  <2> QED BY <2>1, <2>2
<1> QED BY <1>7, <1>8, <1>9 DEF Total

\* One more, one less.
LEMMA TotalMore ==
    ASSUME NEW w, NEW S, NEW x, Weights(w, S), x \notin S, w[x] \in Nat
    PROVE  Weights(w, S \cup {x}) /\ Total(w, S \cup {x}) = Total(w, S) + w[x]
<1>1. Weights(w, {x})
  BY FS_Singleton DEF Weights
<1>2. S \cap {x} = {}
  OBVIOUS
<1> QED BY <1>1, <1>2, TotalUnion, TotalOne

LEMMA TotalLess ==
    ASSUME NEW w, NEW S, NEW x \in S, Weights(w, S)
    PROVE  Weights(w, S \ {x}) /\ Total(w, S \ {x}) = Total(w, S) - w[x]
<1>1. Weights(w, S \ {x}) /\ w[x] \in Nat
  BY FS_RemoveElement DEF Weights
<1>2. PICK T : T = S \ {x}
  OBVIOUS
<1>3. S = T \cup {x} /\ x \notin T /\ Weights(w, T)
  BY <1>1, <1>2
<1>4. Total(w, T \cup {x}) = Total(w, T) + w[x]
  BY <1>1, <1>3, TotalMore
<1>5. Total(w, T) \in Nat
  BY <1>3, TotalType
<1>6. PICK a \in Nat, b \in Nat : a = Total(w, T) /\ b = w[x]
  BY <1>1, <1>5
<1>7. Total(w, S) = a + b
  BY <1>3, <1>4, <1>6
<1>8. Total(w, S) - b = a
  BY <1>7
<1> QED BY <1>1, <1>2, <1>6, <1>8

LEMMA TotalSubset ==
    ASSUME NEW w, NEW S, NEW T \in SUBSET S, Weights(w, S)
    PROVE  Weights(w, T) /\ Total(w, T) <= Total(w, S)
<1>1. Cells(w, T) \subseteq Cells(w, S)
  BY CellsAre
<1>2. IsFiniteSet(Cells(w, S))
  BY CellsFinite
<1>3. Cardinality(Cells(w, T)) <= Cardinality(Cells(w, S))
  BY <1>1, <1>2, FS_Subset
<1>4. Weights(w, T)
  BY FS_Subset DEF Weights
<1> QED BY <1>3, <1>4 DEF Total

\* Multiples add up to a multiple: a smallest set for which they do not is not empty,
\* and has a smaller one.
LEMMA TotalMultiple ==
    ASSUME NEW w, NEW S, Weights(w, S), NEW m \in Nat \ {0}, \A x \in S : w[x] % m = 0
    PROVE  Total(w, S) % m = 0
<1> DEFINE Bad == {n \in Nat : \E T \in SUBSET S : Cardinality(T) = n /\ Total(w, T) % m # 0}
<1>1. \A T \in SUBSET S : Weights(w, T) /\ IsFiniteSet(T) /\ Cardinality(T) \in Nat
  BY TotalSubset, FS_CardinalityType DEF Weights
<1>2. ASSUME Bad # {} PROVE FALSE
  <2>1. PICK n \in Bad : \A k \in Bad : n <= k
    <3>1. Bad \in SUBSET Nat
      OBVIOUS
    <3> HIDE DEF Bad
    <3> QED BY <1>2, <3>1, Least
  <2>2. PICK T \in SUBSET S : Cardinality(T) = n /\ Total(w, T) % m # 0
    OBVIOUS
  <2>3. PICK x \in T : TRUE
    <3>1. ASSUME T = {} PROVE FALSE
      <4>1. Total(w, T) = 0
        BY <3>1, TotalNone
      <4>2. 0 % m = 0
        <5>1. (0 * m) % m = 0 /\ 0 * m = 0
          BY Product
        <5> QED BY <5>1
      <4> QED BY <2>2, <4>1, <4>2
    <3> QED BY <3>1
  <2>4. PICK U \in SUBSET S : U = T \ {x}
    OBVIOUS
  <2>5. Cardinality(U) = n - 1 /\ n - 1 \in Nat
    <3>1. Cardinality(U) = Cardinality(T) - 1 /\ Cardinality(U) \in Nat
      BY <1>1, <2>4, FS_RemoveElement
    <3> QED BY <2>2, <3>1
  <2>6. Total(w, U) % m = 0
    <3>1. n - 1 \notin Bad
      <4>1. n \in Nat
        OBVIOUS
      <4> HIDE DEF Bad
      <4> QED BY <2>1, <4>1
    <3> QED BY <2>5, <3>1
  <2>7. Total(w, T) = Total(w, U) + w[x]
    <3>1. Weights(w, U) /\ x \notin U /\ w[x] \in Nat /\ T = U \cup {x}
      BY <1>1, <2>4 DEF Weights
    <3> QED BY <3>1, TotalMore
  <2>8. Total(w, U) \in Int /\ w[x] \in Int /\ w[x] % m = 0
    <3>1. Total(w, U) \in Nat
      BY <1>1, TotalType
    <3> QED BY <3>1 DEF Weights
  <2>9. (Total(w, U) + w[x]) % m = Total(w, U) % m
    BY <2>8, Multiples
  <2> QED BY <2>2, <2>6, <2>7, <2>9
<1>3. Cardinality(S) \in Nat /\ S \in SUBSET S
  BY <1>1
<1> QED BY <1>2, <1>3

\* BytesAt and SwapFreeExact are such sums.
LEMMA BytesAtIs ==
    ASSUME NEW S \in SUBSET Offsets
    PROVE  BytesAt(S) = Total(SizesOf(all_space), S)
<1>1. \A o \in S : SizesOf(all_space)[o] = all_space[o].size
  BY DEF SizesOf, Offsets
<1>2. \A p : (\E o \in S : p \in {o} \X (1..all_space[o].size))
               <=> \E o \in S : p \in {o} \X (1..SizesOf(all_space)[o])
  BY <1>1
<1>3. UNION {{o} \X (1..all_space[o].size) : o \in S} = Cells(SizesOf(all_space), S)
  <2>1. \A p : p \in UNION {{o} \X (1..all_space[o].size) : o \in S}
                 <=> \E o \in S : p \in {o} \X (1..all_space[o].size)
    OBVIOUS
  <2>2. \A p : p \in UNION {{o} \X (1..all_space[o].size) : o \in S}
                 <=> p \in Cells(SizesOf(all_space), S)
    BY <1>2, <2>1, CellsAre
  <2> QED BY <2>2
<1> QED BY <1>3 DEF BytesAt, Total

\* A multiple of a multiple.
LEMMA MultipleOfMultiple ==
    ASSUME NEW a \in Int, NEW m \in Nat \ {0}, NEW k \in Nat \ {0}, a % m = 0, m % k = 0
    PROVE  a % k = 0
<1>1. PICK q \in Int : a = m * q
  <2>1. a = m * (a \div m) + (a % m) /\ a \div m \in Int
    BY DivMod
  <2>2. PICK q \in Int : q = a \div m
    BY <2>1
  <2>3. a = m * q + 0
    BY <2>1, <2>2
  <2> QED BY <2>3
<1>2. PICK p \in Int : m = k * p
  <2>1. m \in Int
    OBVIOUS
  <2>2. PICK p \in Int : m = k * p + (m % k)
    BY <2>1, DivMod
  <2> QED BY <2>2
<1>3. PICK r \in Int : r = q * p
  OBVIOUS
<1>4. a = r * k
  BY <1>1, <1>2, <1>3
<1> QED BY <1>4, Product

-----------------------------------------------------------------------------
(* Maps that tile the swap.                                                *)

LEMMA Constants ==
    /\ PageFileSize \in Nat \ {0} /\ MemoryAlignment \in Nat \ {0} /\ LocationSize \in Nat \ {0}
    /\ PageFileSize % MemoryAlignment = 0 /\ Modulus \in Nat \ {0}
    /\ InitialFiles \in Nat \ {0} /\ MaxFiles \in Nat /\ InitialFiles <= MaxFiles
    /\ \A c \in Chunk : Size[c] \in Nat \ {0} /\ Size[c] % MemoryAlignment = 0
    /\ IsFiniteSet(Chunk) /\ NoChunk \notin Chunk /\ DOMAIN Size = Chunk
    /\ \A k \in Nat : k <= MaxFiles => k * PageFileSize \in Nat /\ k * PageFileSize < Modulus
<1>1. \A k \in Nat : k <= MaxFiles => k * PageFileSize \in Nat /\ k * PageFileSize < Modulus
  <2>1. ASSUME NEW k \in Nat, k <= MaxFiles
        PROVE  k * PageFileSize \in Nat /\ k * PageFileSize < Modulus
    <3>1. PageFileSize \in Nat /\ MaxFiles \in Nat /\ MaxFiles * PageFileSize < Modulus /\ Modulus \in Nat
      BY PageFileAssumption
    <3>2. k * PageFileSize <= MaxFiles * PageFileSize
      BY <2>1, <3>1
    <3> QED BY <3>1, <3>2
  <2> QED BY <2>1
<1>2. 0 * PageFileSize = 0 /\ 0 <= MaxFiles /\ Modulus \in Nat
  BY PageFileAssumption
<1>3. Modulus # 0
  BY <1>1, <1>2
<1> QED BY <1>1, <1>2, <1>3, PageFileAssumption

\* The swap ends where a file ends.
LEMMA SwapSizeIs ==
    ASSUME pageFileNumber \in InitialFiles..MaxFiles
    PROVE  SwapSize \in Nat \ {0} /\ SwapSize % PageFileSize = 0 /\ SwapSize < Modulus
           /\ pageFileNumber \in Nat \ {0}
<1>1. pageFileNumber \in Nat \ {0} /\ pageFileNumber <= MaxFiles
  BY Constants
<1>2. SwapSize \in Nat /\ SwapSize < Modulus /\ SwapSize # 0
  BY <1>1, Constants DEF SwapSize
<1>3. SwapSize % PageFileSize = 0
  BY <1>1, Constants, Product DEF SwapSize
<1> QED BY <1>1, <1>2, <1>3

\* Every offset has one that follows, found as NextOffset finds it.
LEMMA NextIs ==
    ASSUME NEW A, NEW end \in Nat, DOMAIN A \subseteq 0..(end - 1), NEW o \in DOMAIN A
    PROVE  Follows(DOMAIN A, end, o, Min({n \in DOMAIN A \cup {end} : n > o}))
<1> DEFINE S == {n \in DOMAIN A \cup {end} : n > o}
<1>1. S \in SUBSET Nat /\ end \in S
  OBVIOUS
<1>2. S # {}
  BY <1>1
<1> HIDE DEF S
<1>3. Min(S) \in S /\ \A y \in S : Min(S) <= y
  BY <1>1, <1>2, MinIs
<1>4. PICK m : m = Min(S)
  OBVIOUS
<1>5. m \in DOMAIN A \cup {end} /\ m > o /\ \A y \in DOMAIN A : y > o => m <= y
  BY <1>3, <1>4 DEF S
<1>6. Follows(DOMAIN A, end, o, m)
  BY <1>5 DEF Follows
<1> QED BY <1>4, <1>6 DEF S

LEMMA NextOffsetIs ==
    ASSUME Layout, NEW o \in Offsets
    PROVE  Follows(Offsets, SwapSize, o, NextOffset(o)) /\ NextOffset(o) \in Nat /\ o \in Nat
<1>1. SwapSize \in Nat /\ DOMAIN all_space \subseteq 0..(SwapSize - 1)
  BY SwapSizeIs DEF Layout, Tiles
<1>2. Follows(Offsets, SwapSize, o, NextOffset(o))
  BY <1>1, NextIs DEF NextOffset, Offsets
<1>3. NextOffset(o) \in Offsets \cup {SwapSize} /\ o \in Nat
  BY <1>1, <1>2 DEF Follows, Offsets
<1> QED BY <1>1, <1>2, <1>3 DEF Offsets

\* An offset inside of a file follows one.
LEMMA PrevOffsetIs ==
    ASSUME Layout, NEW o \in Offsets, OffsetInFile(o) # 0
    PROVE  PrevOffset(o) \in Offsets /\ Follows(Offsets, SwapSize, PrevOffset(o), o)
<1> DEFINE S == {n \in Offsets : n < o}
<1>1. SwapSize \in Nat /\ Offsets \subseteq 0..(SwapSize - 1)
  BY SwapSizeIs DEF Layout, Tiles, Offsets
<1>2. S \in SUBSET Nat /\ o \in Nat /\ \A x \in S : x <= o
  <2>1. \A x \in Offsets : x \in Nat
    BY <1>1
  <2>2. ASSUME NEW x \in S PROVE x \in Nat /\ x <= o
    <3>1. x \in Nat /\ o \in Nat /\ x < o
      BY <2>1
    <3> QED BY <3>1
  <2>3. o \in Nat
    BY <2>1
  <2> HIDE DEF S
  <2> QED BY <2>2, <2>3
<1>3. S # {}
  <2>1. PICK b \in Nat : b % PageFileSize = 0 /\ b < o
    BY <1>2, Constants, MultipleBelow DEF OffsetInFile
  <2>2. b \in 0..(SwapSize - 1)
    BY <1>1, <2>1
  <2>3. b \in Offsets
    BY <2>1, <2>2 DEF Layout, Tiles, Offsets
  <2> QED BY <2>1, <2>3
<1> HIDE DEF S
<1>4. Max(S) \in S /\ \A y \in S : y <= Max(S)
  BY <1>2, <1>3, MaxIs
<1>5. PICK m : m = Max(S)
  OBVIOUS
<1>6. m \in Offsets /\ m < o /\ \A y \in Offsets : y < o => y <= m
  BY <1>4, <1>5 DEF S
<1>7. Follows(Offsets, SwapSize, m, o)
  BY <1>1, <1>6 DEF Follows
<1> QED BY <1>5, <1>6, <1>7 DEF PrevOffset, S

\* A map of tiles on one neighbourhood.
LEMMA TileAt ==
    ASSUME NEW A, NEW end \in Nat, Tiles(A, end), NEW o, NEW n, Follows(DOMAIN A, end, o, n)
    PROVE  /\ TileOK(A, o, n, end) /\ o \in 0..(end - 1) /\ n \in 1..end /\ o < n
           /\ A[o].size \in Nat \ {0} /\ o \in DOMAIN A /\ n \in DOMAIN A \cup {end}
           /\ \A p \in DOMAIN A : p <= o \/ n <= p
<1>1. o \in DOMAIN A /\ n \in DOMAIN A \cup {end} /\ o < n /\ \A p \in DOMAIN A : ~ (o < p /\ p < n)
  BY DEF Follows
<1>2. DOMAIN A \subseteq 0..(end - 1) /\ IsMap(A)
  BY DEF Tiles
<1>3. o \in Nat /\ n \in Nat
  BY <1>1, <1>2
<1>4. TileOK(A, o, n, end)
  BY <1>3 DEF Tiles
<1>5. A[o].size \in Nat \ {0}
  BY <1>1, <1>2 DEF IsMap
<1> QED BY <1>1, <1>2, <1>3, <1>4, <1>5

-----------------------------------------------------------------------------
(* Allocation: what it makes of the map.                                   *)

\* The map B is A, but that `taken' and the first `left' bytes of last are allocated.
Allotted(A, B, taken, last, left) ==
    LET R == IF A[last].size - left < LocationSize THEN {} ELSE {last + left}
    IN  /\ B = [o \in DOMAIN B |-> B[o]]
        /\ DOMAIN B = DOMAIN A \cup R /\ R \cap DOMAIN A = {}
        /\ B[last] = Location(left, "PAGE_END")
        /\ \A o \in taken : B[o] = Location(A[o].size, "PAGE_PART")
        /\ \A o \in R : B[o] = Location(A[last].size - left, "PAGE_FREE")
        /\ \A o \in DOMAIN A : o # last /\ o \notin taken => B[o] = A[o]

\* What may be allocated.
Allots(A, end, taken, last, left) ==
    /\ last \in DOMAIN A /\ A[last].status = "PAGE_FREE"
    /\ taken \subseteq DOMAIN A \ {last} /\ \A o \in taken : A[o].status = "PAGE_FREE"
    /\ left \in Nat \ {0} /\ left <= A[last].size /\ left % MemoryAlignment = 0

\* The free block is followed directly by something else.
LEMMA FreeNeighbour ==
    ASSUME NEW A, NEW end \in Nat, Tiles(A, end), NEW o \in DOMAIN A, A[o].status = "PAGE_FREE"
    PROVE  /\ Follows(DOMAIN A, end, o, o + A[o].size)
           /\ o + A[o].size # end /\ (o + A[o].size) % PageFileSize # 0 =>
                 A[o + A[o].size].status # "PAGE_FREE"
<1>1. DOMAIN A \subseteq 0..(end - 1)
  BY DEF Tiles
<1>2. PICK n : Follows(DOMAIN A, end, o, n)
  BY <1>1, NextIs
<1>3. TileOK(A, o, n, end)
  BY <1>2, TileAt
<1>4. n = o + A[o].size
  BY <1>3 DEF TileOK
<1> QED BY <1>2, <1>3, <1>4 DEF TileOK

\* A place inside a free block is not an offset.
LEMMA InsideFree ==
    ASSUME NEW A, NEW end \in Nat, Tiles(A, end), NEW o \in DOMAIN A, A[o].status = "PAGE_FREE",
           NEW m \in Nat, o < m, m < o + A[o].size
    PROVE  m \notin DOMAIN A /\ m \in 0..(end - 1)
<1>1. PICK n : n = o + A[o].size /\ Follows(DOMAIN A, end, o, n)
  BY FreeNeighbour
<1>2. n \in 1..end /\ \A p \in DOMAIN A : p <= o \/ n <= p
  BY <1>1, TileAt
<1>3. DOMAIN A \subseteq 0..(end - 1)
  BY DEF Tiles
<1> QED BY <1>1, <1>2, <1>3

\* The map as AllocAt builds it, in two steps.
TakenMap(A, taken) ==
    [o \in DOMAIN A |-> IF o \in taken THEN Location(A[o].size, "PAGE_PART") ELSE A[o]]

SplitMap(A, C, last, left) ==
    IF A[last].size - left < LocationSize
    THEN [C EXCEPT ![last] = Location(left, "PAGE_END")]
    ELSE [p \in DOMAIN C \cup {last + left} |->
             CASE p = last        -> Location(left, "PAGE_END")
               [] p = last + left -> Location(A[last].size - left, "PAGE_FREE")
               [] OTHER           -> C[p]]

LEMMA AllotsMap ==
    ASSUME NEW A, NEW B, NEW end \in Nat, NEW taken, NEW last, NEW left, NEW C,
           Tiles(A, end), Allots(A, end, taken, last, left),
           C = TakenMap(A, taken), B = SplitMap(A, C, last, left)
    PROVE  Allotted(A, B, taken, last, left)
<1>1. DOMAIN C = DOMAIN A /\ last \in DOMAIN A /\ last \notin taken /\ taken \subseteq DOMAIN A
  BY DEF Allots, TakenMap
<1>2. /\ \A o \in taken : C[o] = Location(A[o].size, "PAGE_PART")
      /\ \A o \in DOMAIN A : o \notin taken => C[o] = A[o]
  BY <1>1 DEF TakenMap
<1>3. CASE A[last].size - left < LocationSize
  <2>1. B = [C EXCEPT ![last] = Location(left, "PAGE_END")]
    BY <1>3 DEF SplitMap
  <2>2. /\ DOMAIN B = DOMAIN A /\ B[last] = Location(left, "PAGE_END")
        /\ \A o \in DOMAIN A : o # last => B[o] = C[o]
        /\ B = [o \in DOMAIN B |-> B[o]]
    BY <1>1, <2>1 DEF TakenMap
  <2> QED BY <1>1, <1>2, <1>3, <2>2 DEF Allotted
<1>4. CASE ~ (A[last].size - left < LocationSize)
  <2>1. PICK m \in Nat : m = last + left /\ m # last /\ m \notin DOMAIN A
    <3>1. last \in Nat /\ A[last].size \in Nat /\ left \in Nat \ {0}
      BY <1>1 DEF Tiles, IsMap, Allots
    <3>2. last + left \in Nat /\ last < last + left /\ last + left < last + A[last].size
      BY <1>4, <3>1, Constants
    <3>3. last + left \notin DOMAIN A
      BY <3>2, InsideFree DEF Allots
    <3> QED BY <3>2, <3>3
  <2>2. B = [p \in DOMAIN A \cup {m} |->
                CASE p = last -> Location(left, "PAGE_END")
                  [] p = m    -> Location(A[last].size - left, "PAGE_FREE")
                  [] OTHER    -> C[p]]
    BY <1>1, <1>4, <2>1 DEF SplitMap
  <2>3. /\ DOMAIN B = DOMAIN A \cup {m} /\ B[last] = Location(left, "PAGE_END")
        /\ B[m] = Location(A[last].size - left, "PAGE_FREE")
        /\ \A o \in DOMAIN A : o # last => B[o] = C[o]
        /\ B = [o \in DOMAIN B |-> B[o]]
    BY <1>1, <2>1, <2>2
  <2> QED BY <1>1, <1>2, <1>4, <2>1, <2>3 DEF Allotted
<1> QED BY <1>3, <1>4

\* What is allocated is not free any more, and nothing else changes its status.
StatusMoves(A, B, taken, last) ==
    \A o \in DOMAIN A : /\ o \in DOMAIN B
                        /\ B[o].status = "PAGE_FREE" => A[o].status = "PAGE_FREE"
                        /\ o # last => B[o].size = A[o].size
                        /\ o = last \/ o \in taken => B[o].status # "PAGE_FREE"
                        /\ o # last /\ o \notin taken => B[o].status = A[o].status

LEMMA AllotsStatus ==
    ASSUME NEW A, NEW B, NEW end \in Nat, NEW taken, NEW last, NEW left,
           Tiles(A, end), Allots(A, end, taken, last, left), Allotted(A, B, taken, last, left)
    PROVE  /\ IsMap(B) /\ \A o \in DOMAIN B : B[o].size % MemoryAlignment = 0
           /\ StatusMoves(A, B, taken, last)
<1> DEFINE R == IF A[last].size - left < LocationSize THEN {} ELSE {last + left}
<1>1. /\ \A o \in DOMAIN A : A[o].size \in Nat \ {0} /\ A[o].size % MemoryAlignment = 0
                              /\ A[o].status \in {"PAGE_FREE", "PAGE_PART", "PAGE_END"}
                              /\ A[o] \in [size : Nat \ {0}, status : {"PAGE_FREE", "PAGE_PART", "PAGE_END"}]
  BY DEF Tiles, IsMap
<1>2. last \in DOMAIN A /\ taken \subseteq DOMAIN A /\ last \notin taken /\ left \in Nat \ {0}
      /\ left <= A[last].size /\ left % MemoryAlignment = 0
  BY DEF Allots
<1>3. \A o \in R : A[last].size - left \in Nat \ {0} /\ (A[last].size - left) % MemoryAlignment = 0
  <2>1. ASSUME NEW o \in R PROVE A[last].size - left \in Nat \ {0}
    BY <1>1, <1>2, Constants
  <2>2. (A[last].size - left) % MemoryAlignment = 0
    <3>1. PICK s \in Int, l \in Int : s = A[last].size /\ l = left
      BY <1>1, <1>2
    <3>2. s % MemoryAlignment = 0 /\ l % MemoryAlignment = 0
      BY <1>1, <1>2, <3>1
    <3>3. (s - l) % MemoryAlignment = s % MemoryAlignment
      BY <3>2, Constants, Multiples
    <3> QED BY <3>1, <3>2, <3>3
  <2> QED BY <2>1, <2>2
<1> HIDE DEF R
<1>4. /\ DOMAIN B = DOMAIN A \cup R
      /\ B[last] = Location(left, "PAGE_END")
      /\ \A o \in taken : B[o] = Location(A[o].size, "PAGE_PART")
      /\ \A o \in R : B[o] = Location(A[last].size - left, "PAGE_FREE")
      /\ \A o \in DOMAIN A : o # last /\ o \notin taken => B[o] = A[o]
  BY DEF Allotted, R
<1>5. \A s, t : Location(s, t).size = s /\ Location(s, t).status = t
               /\ (s \in Nat \ {0} /\ t \in {"PAGE_FREE", "PAGE_PART", "PAGE_END"} =>
                     Location(s, t) \in [size : Nat \ {0}, status : {"PAGE_FREE", "PAGE_PART", "PAGE_END"}])
  BY DEF Location
<1>6. \A o \in DOMAIN B : /\ B[o].size % MemoryAlignment = 0
                          /\ B[o] \in [size : Nat \ {0}, status : {"PAGE_FREE", "PAGE_PART", "PAGE_END"}]
  <2>1. ASSUME NEW o \in DOMAIN B
        PROVE /\ B[o].size % MemoryAlignment = 0
              /\ B[o] \in [size : Nat \ {0}, status : {"PAGE_FREE", "PAGE_PART", "PAGE_END"}]
    <3>1. CASE o = last
      BY <1>2, <1>4, <1>5, <3>1
    <3>2. CASE o \in taken
      BY <1>1, <1>2, <1>4, <1>5, <3>2
    <3>3. CASE o \in R
      BY <1>3, <1>4, <1>5, <3>3
    <3>4. CASE o \in DOMAIN A /\ o # last /\ o \notin taken
      BY <1>1, <1>4, <3>4
    <3> QED BY <1>4, <3>1, <3>2, <3>3, <3>4
  <2> QED BY <2>1
<1>7. IsMap(B)
  <2>1. B = [o \in DOMAIN B |-> B[o]]
    BY DEF Allotted
  <2> QED BY <1>6, <2>1 DEF IsMap
<1>8. ASSUME NEW o \in DOMAIN A
      PROVE  /\ o \in DOMAIN B
             /\ B[o].status = "PAGE_FREE" => A[o].status = "PAGE_FREE"
             /\ o # last => B[o].size = A[o].size
             /\ o = last \/ o \in taken => B[o].status # "PAGE_FREE"
             /\ o # last /\ o \notin taken => B[o].status = A[o].status
  BY <1>2, <1>4, <1>5
<1> QED BY <1>6, <1>7, <1>8 DEF StatusMoves

\* Allocation keeps the tiling.
LEMMA AllotsTiles ==
    ASSUME NEW A, NEW B, NEW end \in Nat, NEW taken, NEW last, NEW left,
           Tiles(A, end), Allots(A, end, taken, last, left), Allotted(A, B, taken, last, left)
    PROVE  Tiles(B, end)
<1>1. /\ last \in DOMAIN A /\ A[last].status = "PAGE_FREE" /\ last \in Nat
      /\ DOMAIN A \subseteq 0..(end - 1) /\ A[last].size \in Nat \ {0} /\ left \in Nat \ {0}
      /\ left <= A[last].size /\ left % MemoryAlignment = 0 /\ last % MemoryAlignment = 0
  BY DEF Allots, Tiles, IsMap
<1>2. PICK n : /\ n = last + A[last].size /\ Follows(DOMAIN A, end, last, n)
               /\ n # end /\ n % PageFileSize # 0 => A[n].status # "PAGE_FREE"
  BY <1>1, FreeNeighbour
<1>3. n \in 1..end /\ n \in DOMAIN A \cup {end} /\ last < n /\ \A p \in DOMAIN A : p <= last \/ n <= p
  BY <1>2, TileAt
<1>4. /\ IsMap(B) /\ \A o \in DOMAIN B : B[o].size % MemoryAlignment = 0
      /\ \A o \in DOMAIN A : /\ o \in DOMAIN B
                             /\ B[o].status = "PAGE_FREE" => A[o].status = "PAGE_FREE"
                             /\ o # last => B[o].size = A[o].size
                             /\ o = last \/ o \in taken => B[o].status # "PAGE_FREE"
  BY AllotsStatus DEF StatusMoves
<1>5. B[last].size = left
  BY DEF Allotted, Location
\* Neighbours of before stay as they should be.
<1>6. ASSUME NEW o \in Nat, NEW k \in Nat, Follows(DOMAIN A, end, o, k), o # last
      PROVE  TileOK(B, o, k, end)
  <2>1. TileOK(A, o, k, end) /\ o \in DOMAIN A /\ k \in DOMAIN A \cup {end}
    BY <1>6, TileAt
  <2>2. B[o].size = A[o].size /\ (B[o].status = "PAGE_FREE" => A[o].status = "PAGE_FREE")
    BY <1>4, <1>6, <2>1
  <2>3. k # end => (B[k].status = "PAGE_FREE" => A[k].status = "PAGE_FREE")
    BY <1>4, <2>1
  <2> QED BY <2>1, <2>2, <2>3 DEF TileOK
<1>7. CASE A[last].size - left < LocationSize
  <2>1. DOMAIN B = DOMAIN A
    BY <1>7 DEF Allotted
  <2>2. ASSUME NEW o \in Nat, NEW k \in Nat, Follows(DOMAIN B, end, o, k) PROVE TileOK(B, o, k, end)
    <3>1. CASE o # last
      BY <1>6, <2>1, <2>2, <3>1
    <3>2. CASE o = last
      <4>1. k = n
        <5>1. k \in DOMAIN A \cup {end} /\ o < k /\ \A p \in DOMAIN A : ~ (o < p /\ p < k)
          BY <2>1, <2>2 DEF Follows
        <5> QED BY <1>1, <1>3, <3>2, <5>1
      <4>2. o + left <= k /\ k - o - left < LocationSize
        BY <1>1, <1>2, <1>7, <3>2, <4>1
      <4>3. B[o].status # "PAGE_FREE"
        BY <1>1, <1>4, <3>2
      <4> QED BY <1>5, <3>2, <4>2, <4>3 DEF TileOK
    <3> QED BY <3>1, <3>2
  <2> QED BY <1>4, <2>1, <2>2 DEF Tiles
<1>8. CASE ~ (A[last].size - left < LocationSize)
  <2>1. PICK m : /\ m = last + left /\ DOMAIN B = DOMAIN A \cup {m} /\ m \notin DOMAIN A
                 /\ B[m] = Location(A[last].size - left, "PAGE_FREE")
    BY <1>8 DEF Allotted
  <2>2. m \in Nat /\ last < m /\ m < n /\ m % MemoryAlignment = 0
    <3>1. m \in Nat /\ last < m /\ m < n
      BY <1>1, <1>2, <1>8, <2>1, Constants
    <3>2. m % MemoryAlignment = 0
      BY <1>1, <2>1, Constants, Multiples
    <3> QED BY <3>1, <3>2
  <2>3. B[m].size = A[last].size - left /\ B[m].status = "PAGE_FREE"
    BY <2>1 DEF Location
  <2>4. ASSUME NEW o \in Nat, NEW k \in Nat, Follows(DOMAIN B, end, o, k) PROVE TileOK(B, o, k, end)
    <3>1. o \in DOMAIN B /\ k \in DOMAIN B \cup {end} /\ o < k /\ \A p \in DOMAIN B : p <= o \/ k <= p
      <4>1. DOMAIN B \subseteq Nat
        BY <1>1, <2>1, <2>2
      <4> QED BY <2>4, <4>1 DEF Follows
    <3>2. CASE o = last
      <4>1. k = m
        BY <1>3, <2>1, <2>2, <3>1, <3>2
      <4>2. o + left <= k /\ k - o - left < LocationSize
        BY <1>1, <2>1, <3>2, <4>1, Constants
      <4>3. B[o].status # "PAGE_FREE"
        BY <1>1, <1>4, <3>2
      <4> QED BY <1>5, <3>2, <4>2, <4>3 DEF TileOK
    <3>3. CASE o = m
      <4>1. k = n
        <5>1. last \in Nat /\ n \in Nat /\ m < k
          BY <1>1, <1>3, <3>1, <3>3
        <5>2. n <= k
          <6>1. CASE k = end
            BY <1>3, <6>1
          <6>2. CASE k \in DOMAIN A
            BY <1>3, <2>2, <5>1, <6>2
          <6> QED BY <2>1, <3>1, <5>1, <6>1, <6>2
        <5>3. k <= n
          <6>1. CASE n = end
            <7>1. DOMAIN B \subseteq 0..end
              BY <1>1, <1>3, <2>1, <2>2
            <7> QED BY <3>1, <6>1, <7>1
          <6>2. CASE n \in DOMAIN A
            BY <2>1, <2>2, <3>1, <3>3, <5>1, <6>2
          <6> QED BY <1>3, <6>1, <6>2
        <5> QED BY <5>1, <5>2, <5>3
      <4>2. k = o + B[o].size /\ LocationSize > 0
        <5>1. PICK a \in Nat, l \in Nat, s \in Nat : a = last /\ l = left /\ s = A[last].size
          BY <1>1
        <5>2. k = a + s
          <6>1. n = last + A[last].size
            BY <1>2
          <6> QED BY <4>1, <5>1, <6>1
        <5>3. o = a + l /\ B[o].size = s - l
          BY <2>1, <2>3, <3>3, <5>1
        <5>4. k = o + B[o].size
          BY <5>2, <5>3
        <5> QED BY <5>4, Constants
      <4>3. k # end /\ k % PageFileSize # 0 => B[k].status # "PAGE_FREE"
        BY <1>2, <1>3, <1>4, <4>1
      <4>4. B[o].size \in Nat
        BY <3>1, <1>4 DEF IsMap
      <4> QED BY <4>2, <4>3, <4>4 DEF TileOK
    <3>4. CASE o # last /\ o # m
      <4>1. o \in DOMAIN A /\ k # m
        <5>1. o \in DOMAIN A /\ (o <= last \/ n <= o) /\ o < k /\ last \in DOMAIN B
          BY <1>1, <1>3, <2>1, <3>1, <3>4
        <5>2. last <= o \/ k <= last
          BY <3>1, <5>1
        <5> QED BY <1>1, <1>3, <2>2, <3>4, <5>1, <5>2
      <4>2. Follows(DOMAIN A, end, o, k)
        BY <1>1, <2>1, <3>1, <4>1 DEF Follows
      <4> QED BY <1>6, <3>4, <4>2
    <3> QED BY <3>2, <3>3, <3>4
  <2>5. DOMAIN B \subseteq 0..(end - 1)
    BY <1>1, <1>3, <2>1, <2>2
  <2> QED BY <1>4, <2>1, <2>2, <2>4, <2>5 DEF Tiles
<1> QED BY <1>7, <1>8

-----------------------------------------------------------------------------
(* Freeing: what it makes of the map.                                      *)

\* The map B is A with everything from f up to m made one free location.
Merged(A, B, f, m) ==
    /\ B = [p \in DOMAIN B |-> B[p]]
    /\ DOMAIN B = {p \in DOMAIN A : p <= f \/ m <= p}
    /\ B[f] = Location(m - f, "PAGE_FREE")
    /\ \A p \in DOMAIN B : p # f => B[p] = A[p]

\* What may be merged.
Merges(A, end, f, m) ==
    /\ f \in DOMAIN A /\ m \in DOMAIN A \cup {end} /\ f < m
    /\ \A b \in DOMAIN A : f < b /\ b < m => b % PageFileSize # 0
    /\ m # end /\ m % PageFileSize # 0 => A[m].status # "PAGE_FREE"
    /\ \A p \in Nat : Follows(DOMAIN A, end, p, f) /\ f % PageFileSize # 0 =>
           A[p].status # "PAGE_FREE"

\* Merging keeps the tiling.
LEMMA MergesTiles ==
    ASSUME NEW A, NEW B, NEW end \in Nat, NEW f, NEW m, end % MemoryAlignment = 0,
           Tiles(A, end), Merges(A, end, f, m), Merged(A, B, f, m)
    PROVE  Tiles(B, end)
<1>1. /\ f \in DOMAIN A /\ m \in DOMAIN A \cup {end} /\ f < m
      /\ DOMAIN A \subseteq 0..(end - 1) /\ f \in Nat /\ m \in Nat /\ m <= end
  BY DEF Merges, Tiles
<1>2. /\ DOMAIN B = {p \in DOMAIN A : p <= f \/ m <= p} /\ f \in DOMAIN B
      /\ \A p \in DOMAIN B : p # f => B[p] = A[p]
      /\ m \in DOMAIN B \cup {end}
  BY <1>1 DEF Merged
<1>3. B[f].size = m - f /\ B[f].status = "PAGE_FREE" /\ m - f \in Nat \ {0}
      /\ B[f] \in [size : Nat \ {0}, status : {"PAGE_FREE", "PAGE_PART", "PAGE_END"}]
  <2>1. PICK a \in Nat \ {0} : a = m - f
    BY <1>1
  <2>2. B[f] = Location(a, "PAGE_FREE")
    BY <2>1 DEF Merged
  <2> QED BY <2>1, <2>2 DEF Location
<1>4. IsMap(B)
  <2>1. \A p \in DOMAIN B : B[p] \in [size : Nat \ {0}, status : {"PAGE_FREE", "PAGE_PART", "PAGE_END"}]
    <3>1. \A p \in DOMAIN A : A[p] \in [size : Nat \ {0}, status : {"PAGE_FREE", "PAGE_PART", "PAGE_END"}]
      BY DEF Tiles, IsMap
    <3> QED BY <1>2, <1>3, <3>1
  <2> QED BY <2>1 DEF IsMap, Merged
<1>5. \A p \in DOMAIN B : p % MemoryAlignment = 0 /\ B[p].size % MemoryAlignment = 0
  <2>1. \A p \in DOMAIN A : p % MemoryAlignment = 0 /\ A[p].size % MemoryAlignment = 0
    BY DEF Tiles
  <2>2. (m - f) % MemoryAlignment = 0
    <3>1. m \in Int /\ f \in Int /\ m % MemoryAlignment = 0 /\ f % MemoryAlignment = 0
      BY <1>1, <2>1
    <3> QED BY <3>1, Constants, Multiples
  <2> QED BY <1>2, <1>3, <2>1, <2>2
<1>6. \A b \in 0..(end - 1) : b % PageFileSize = 0 => b \in DOMAIN B
  <2>1. ASSUME NEW b \in 0..(end - 1), b % PageFileSize = 0 PROVE b \in DOMAIN B
    <3>1. b \in DOMAIN A /\ b \in Nat
      BY <2>1 DEF Tiles
    <3>2. ~ (f < b /\ b < m)
      BY <2>1, <3>1 DEF Merges
    <3> QED BY <1>1, <1>2, <3>1, <3>2
  <2> QED BY <2>1
<1>7. ASSUME NEW o \in Nat, NEW n \in Nat, Follows(DOMAIN B, end, o, n) PROVE TileOK(B, o, n, end)
  <2>1. /\ o \in DOMAIN B /\ n \in DOMAIN B \cup {end} /\ o < n
        /\ \A p \in DOMAIN B : p <= o \/ n <= p
    <3>1. DOMAIN B \subseteq Nat
      BY <1>1, <1>2
    <3> QED BY <1>7, <3>1 DEF Follows
  <2>2. CASE o = f
    <3>1. n = m
      <4>1. n <= m
        <5>1. CASE m = end
          BY <1>1, <1>2, <2>1, <5>1
        <5>2. CASE m \in DOMAIN B
          BY <1>1, <2>1, <2>2, <5>2
        <5> QED BY <1>2, <5>1, <5>2
      <4>2. m <= n
        BY <1>1, <1>2, <2>1, <2>2
      <4> QED BY <1>1, <4>1, <4>2
    <3>2. o + B[o].size = n
      <4>1. B[o].size = n - o
        BY <1>3, <2>2, <3>1
      <4> QED BY <4>1
    <3>3. n # end /\ n % PageFileSize # 0 => B[n].status # "PAGE_FREE"
      BY <1>1, <1>2, <2>2, <3>1 DEF Merges
    <3>4. B[o].size \in Nat /\ LocationSize \in Nat \ {0}
      BY <1>3, <2>2, Constants
    <3> QED BY <3>2, <3>3, <3>4 DEF TileOK
  <2>3. CASE o # f
    <3>1. Follows(DOMAIN A, end, o, n) /\ o \in DOMAIN A
      <4>1. o \in DOMAIN A /\ n \in DOMAIN A \cup {end}
        BY <1>2, <2>1
      <4>2. n <= f \/ m <= o
        <5>1. o <= f \/ m <= o
          BY <1>2, <2>1
        <5>2. f <= o \/ n <= f
          BY <1>2, <2>1
        <5> QED BY <1>1, <2>3, <5>1, <5>2
      <4>3. ASSUME NEW p \in DOMAIN A, o < p, p < n PROVE FALSE
        <5>1. p \in DOMAIN B
          BY <1>1, <1>2, <4>2, <4>3
        <5> QED BY <1>1, <2>1, <4>3, <5>1
      <4> QED BY <2>1, <4>1, <4>3 DEF Follows
    <3>2. TileOK(A, o, n, end)
      BY <3>1, TileAt
    <3>3. B[o] = A[o]
      BY <1>2, <2>1, <2>3
    <3>4. CASE n # f
      <4>1. n # end => B[n] = A[n]
        BY <1>2, <2>1, <3>4
      <4> QED BY <3>2, <3>3, <4>1 DEF TileOK
    <3>5. CASE n = f
      <4>1. f % PageFileSize # 0 => A[o].status # "PAGE_FREE"
        BY <3>1, <3>5 DEF Merges
      <4> QED BY <3>2, <3>3, <3>5, <4>1 DEF TileOK
    <3> QED BY <3>4, <3>5
  <2> QED BY <2>2, <2>3
<1>8. DOMAIN B \subseteq 0..(end - 1)
  BY <1>1, <1>2
<1> QED BY <1>4, <1>5, <1>6, <1>7, <1>8 DEF Tiles

\* An offset follows one other.
LEMMA PrevOne ==
    ASSUME NEW S \in SUBSET Nat, NEW end \in Nat, NEW o \in Nat, NEW p, NEW q,
           Follows(S, end, p, o), Follows(S, end, q, o)
    PROVE  p = q
<1>1. p \in S /\ q \in S /\ p < o /\ q < o /\ ~ (p < q /\ q < o) /\ ~ (q < p /\ p < o)
  BY DEF Follows
<1>2. p \in Nat /\ q \in Nat
  BY <1>1
<1> QED BY <1>1, <1>2

\* The locations from f up to m, of which all but o are free.
Block(A, f, m) == {p \in DOMAIN A : f <= p /\ p < m}

\* What pffree finds on its left: the location merged with, or none.
LEMMA LeftOf ==
    ASSUME Layout, NEW o \in Offsets, ~ IsFree(o),
           NEW f, f = IF MergesLeft(o) THEN PrevOffset(o) ELSE o
    PROVE  /\ f \in Offsets /\ f \in Nat /\ o \in Nat /\ f <= o
           /\ f # o => /\ IsFree(f) /\ f + all_space[f].size = o /\ o % PageFileSize # 0
                       /\ all_space[f].size \in Nat \ {0}
           /\ \A p \in Offsets : ~ (f < p /\ p < o)
           /\ \A p \in Nat : Follows(Offsets, SwapSize, p, f) /\ f % PageFileSize # 0 =>
                 all_space[p].status # "PAGE_FREE"
<1>1. SwapSize \in Nat /\ Tiles(all_space, SwapSize) /\ Offsets \subseteq 0..(SwapSize - 1)
      /\ Offsets = DOMAIN all_space /\ Offsets \in SUBSET Nat /\ o \in Nat
  BY SwapSizeIs DEF Layout, Tiles, Offsets
<1>2. CASE MergesLeft(o)
  <2>1. f = PrevOffset(o) /\ o % PageFileSize # 0 /\ IsFree(f)
    BY <1>2 DEF MergesLeft, OffsetInFile
  <2>2. f \in Offsets /\ Follows(Offsets, SwapSize, f, o)
    BY <2>1, PrevOffsetIs DEF OffsetInFile
  <2>3. TileOK(all_space, f, o, SwapSize) /\ f < o /\ all_space[f].size \in Nat \ {0}
    BY <1>1, <2>2, TileAt
  <2>4. f + all_space[f].size = o
    BY <2>1, <2>3 DEF TileOK, IsFree
  <2>5. ASSUME NEW p \in Nat, Follows(Offsets, SwapSize, p, f), f % PageFileSize # 0
        PROVE  all_space[p].status # "PAGE_FREE"
    <3>1. TileOK(all_space, p, f, SwapSize)
      BY <1>1, <2>5, TileAt
    <3>2. f # SwapSize /\ all_space[f].status = "PAGE_FREE"
      BY <1>1, <2>1, <2>2 DEF IsFree
    <3> QED BY <2>5, <3>1, <3>2 DEF TileOK
  <2>6. \A p \in Offsets : ~ (f < p /\ p < o)
    BY <2>2 DEF Follows
  <2> QED BY <1>1, <2>1, <2>2, <2>3, <2>4, <2>5, <2>6
<1>3. CASE ~ MergesLeft(o)
  <2>1. f = o
    BY <1>3
  <2>2. ASSUME NEW p \in Nat, Follows(Offsets, SwapSize, p, f), f % PageFileSize # 0
        PROVE  all_space[p].status # "PAGE_FREE"
    <3>1. ~ IsFree(PrevOffset(o)) /\ OffsetInFile(o) # 0
      BY <1>3, <2>1, <2>2 DEF MergesLeft, OffsetInFile
    <3>2. Follows(Offsets, SwapSize, PrevOffset(o), o)
      BY <3>1, PrevOffsetIs
    <3>3. p = PrevOffset(o)
      BY <1>1, <2>1, <2>2, <3>2, PrevOne
    <3> QED BY <3>1, <3>3 DEF IsFree
  <2> QED BY <1>1, <2>1, <2>2
<1> QED BY <1>2, <1>3

\* What it finds on its right: where the block will end.
LEMMA RightOf ==
    ASSUME Layout, NEW o \in Offsets, NEW n, n = NextOffset(o),
           NEW m, m = IF MergesRight(n) THEN n + all_space[n].size ELSE n
    PROVE  /\ n \in Offsets \cup {SwapSize} /\ m \in Offsets \cup {SwapSize}
           /\ n \in Nat /\ m \in Nat /\ o < n /\ n <= m
           /\ \A p \in Offsets : ~ (o < p /\ p < n) /\ ~ (n < p /\ p < m)
           /\ TileOK(all_space, o, n, SwapSize)
           /\ MergesRight(n) => n \in Offsets /\ IsFree(n) /\ n % PageFileSize # 0 /\ n < m
                                /\ all_space[n].size \in Nat \ {0}
           /\ m # SwapSize /\ m % PageFileSize # 0 => all_space[m].status # "PAGE_FREE"
<1>1. SwapSize \in Nat /\ Tiles(all_space, SwapSize) /\ Offsets \subseteq 0..(SwapSize - 1)
      /\ Offsets = DOMAIN all_space /\ Offsets \in SUBSET Nat /\ o \in Nat
  BY SwapSizeIs DEF Layout, Tiles, Offsets
<1>2. Follows(Offsets, SwapSize, o, n) /\ n \in Nat
  BY NextOffsetIs
<1>3. /\ TileOK(all_space, o, n, SwapSize) /\ n \in Offsets \cup {SwapSize} /\ o < n
      /\ \A p \in Offsets : ~ (o < p /\ p < n)
  BY <1>1, <1>2, TileAt DEF Follows
<1>4. CASE MergesRight(n)
  <2>1. n \in Offsets /\ IsFree(n) /\ n % PageFileSize # 0 /\ m = n + all_space[n].size
    BY <1>4 DEF MergesRight, OffsetInFile
  <2>2. /\ Follows(Offsets, SwapSize, n, m)
        /\ m # SwapSize /\ m % PageFileSize # 0 => all_space[m].status # "PAGE_FREE"
    BY <1>1, <2>1, FreeNeighbour DEF IsFree
  <2>3. /\ m \in Offsets \cup {SwapSize} /\ n < m /\ \A p \in Offsets : ~ (n < p /\ p < m)
        /\ all_space[n].size \in Nat \ {0} /\ m \in Nat
    BY <1>1, <2>2, TileAt DEF Follows
  <2> QED BY <1>2, <1>3, <2>1, <2>2, <2>3
<1>5. CASE ~ MergesRight(n)
  <2>1. m = n
    BY <1>5
  <2>2. m # SwapSize /\ m % PageFileSize # 0 => all_space[m].status # "PAGE_FREE"
    <3>1. n \in Offsets /\ n % PageFileSize # 0 => all_space[n].status # "PAGE_FREE"
      BY <1>5 DEF MergesRight, OffsetInFile, IsFree
    <3> QED BY <1>3, <2>1, <3>1
  <2>3. \A p \in Offsets : ~ (n < p /\ p < m)
    BY <1>1, <1>2, <2>1
  <2> QED BY <1>2, <1>3, <1>5, <2>1, <2>2, <2>3
<1> QED BY <1>4, <1>5

\* The block holds the location freed, free ones, and the bytes reclaimed.
LEMMA BlockIs ==
    ASSUME Layout, NEW o \in Offsets, ~ IsFree(o),
           NEW f, f = IF MergesLeft(o) THEN PrevOffset(o) ELSE o,
           NEW n, n = NextOffset(o),
           NEW m, m = IF MergesRight(n) THEN n + all_space[n].size ELSE n
    PROVE  /\ Block(all_space, f, m) = {f, o} \cup (IF MergesRight(n) THEN {n} ELSE {})
           /\ \A p \in Block(all_space, f, m) \ {o} : IsFree(p)
           /\ n - o - all_space[o].size \in Nat
           /\ Total(SizesOf(all_space), Block(all_space, f, m)) + (n - o - all_space[o].size) = m - f
<1> DEFINE w == SizesOf(all_space)
           K == Block(all_space, f, m)
<1>1. /\ f \in Offsets /\ f \in Nat /\ o \in Nat /\ f <= o
      /\ f # o => /\ IsFree(f) /\ f + all_space[f].size = o /\ all_space[f].size \in Nat \ {0}
      /\ \A p \in Offsets : ~ (f < p /\ p < o)
  BY LeftOf
<1>2. /\ n \in Nat /\ m \in Nat /\ o < n /\ n <= m
      /\ \A p \in Offsets : ~ (o < p /\ p < n) /\ ~ (n < p /\ p < m)
      /\ TileOK(all_space, o, n, SwapSize)
      /\ MergesRight(n) => n \in Offsets /\ IsFree(n) /\ n < m /\ all_space[n].size \in Nat \ {0}
  BY RightOf
<1>3. Offsets = DOMAIN all_space /\ Offsets \in SUBSET Nat /\ all_space[o].size \in Nat \ {0}
  BY SwapSizeIs DEF Layout, Tiles, IsMap, Offsets
<1>4. \A p \in Offsets : w[p] = all_space[p].size
  BY <1>3 DEF SizesOf
<1>5. PICK g \in Nat : g = n - o - all_space[o].size
  <2>1. o + all_space[o].size <= n
    BY <1>2 DEF TileOK
  <2> QED BY <1>1, <1>2, <1>3, <2>1
<1> HIDE DEF w
<1>6. /\ Weights(w, {f, o}) /\ Total(w, {f, o}) = o + all_space[o].size - f
  <2>1. CASE f = o
    <3>1. {f, o} = {o} /\ w[o] \in Nat
      BY <1>3, <1>4, <2>1
    <3>2. Weights(w, {o}) /\ Total(w, {o}) = w[o]
      BY <3>1, FS_Singleton, TotalOne DEF Weights
    <3>3. o + all_space[o].size - f = w[o]
      BY <1>1, <1>3, <1>4, <2>1
    <3> QED BY <3>1, <3>2, <3>3
  <2>2. CASE f # o
    <3>1. w[f] \in Nat /\ w[o] \in Nat /\ w[f] = all_space[f].size /\ w[o] = all_space[o].size
      BY <1>1, <1>3, <1>4, <2>2
    <3>2. Weights(w, {f}) /\ Total(w, {f}) = w[f]
      BY <3>1, FS_Singleton, TotalOne DEF Weights
    <3>3. {f, o} = {f} \cup {o} /\ o \notin {f}
      BY <2>2
    <3>4. Weights(w, {f} \cup {o}) /\ Total(w, {f} \cup {o}) = Total(w, {f}) + w[o]
      BY <3>1, <3>2, <3>3, TotalMore
    <3>5. PICK a \in Nat, b \in Nat : a = w[f] /\ b = w[o]
      BY <3>1
    <3>6. f + a = o
      BY <1>1, <2>2, <3>1, <3>5
    <3>7. Total(w, {f, o}) = a + b
      BY <3>2, <3>3, <3>4, <3>5
    <3>8. o + all_space[o].size - f = a + b
      BY <1>1, <3>1, <3>5, <3>6
    <3> QED BY <3>3, <3>4, <3>7, <3>8
  <2> QED BY <2>1, <2>2
<1>7. PICK s \in Nat : s = all_space[o].size
  BY <1>3
<1>8. CASE MergesRight(n)
  <2>1. m = n + all_space[n].size /\ n \in Offsets /\ IsFree(n) /\ n < m
    BY <1>2, <1>8
  <2>2. K = {f, o} \cup {n}
    <3>1. ASSUME NEW p \in K PROVE p \in {f, o} \cup {n}
      <4>1. p \in Offsets /\ p \in Nat /\ f <= p /\ p < m
        BY <1>3 DEF Block
      <4> QED BY <1>1, <1>2, <4>1
    <3>2. ASSUME NEW p \in {f, o} \cup {n} PROVE p \in K
      BY <1>1, <1>2, <1>3, <2>1, <3>2 DEF Block
    <3> QED BY <3>1, <3>2
  <2>3. n \notin {f, o} /\ w[n] \in Nat
    BY <1>1, <1>2, <1>4, <1>8
  <2>4. Total(w, K) = Total(w, {f, o}) + w[n]
    <3>1. PICK T : T = {f, o}
      OBVIOUS
    <3>2. Weights(w, T) /\ n \notin T /\ w[n] \in Nat /\ K = T \cup {n}
      BY <1>6, <2>2, <2>3, <3>1
    <3>3. Total(w, T \cup {n}) = Total(w, T) + w[n]
      BY <3>2, TotalMore
    <3> QED BY <3>1, <3>2, <3>3
  <2>5. PICK a \in Nat : a = w[n] /\ m = n + a
    BY <1>4, <2>1, <2>3
  <2>6. Total(w, K) + g = m - f
    BY <1>1, <1>2, <1>5, <1>6, <1>7, <2>4, <2>5
  <2>7. \A p \in K \ {o} : IsFree(p)
    BY <1>1, <2>1, <2>2
  <2> QED BY <1>5, <1>8, <2>2, <2>6, <2>7 DEF w
<1>9. CASE ~ MergesRight(n)
  <2>1. m = n
    BY <1>9
  <2>2. K = {f, o}
    <3>1. ASSUME NEW p \in K PROVE p \in {f, o}
      <4>1. p \in Offsets /\ p \in Nat /\ f <= p /\ p < n
        BY <1>3, <2>1 DEF Block
      <4> QED BY <1>1, <1>2, <4>1
    <3>2. ASSUME NEW p \in {f, o} PROVE p \in K
      BY <1>1, <1>2, <1>3, <2>1, <3>2 DEF Block
    <3> QED BY <3>1, <3>2
  <2>3. Total(w, K) + g = m - f
    BY <1>1, <1>2, <1>5, <1>6, <1>7, <2>1, <2>2
  <2>4. \A p \in K \ {o} : IsFree(p)
    BY <1>1, <2>2
  <2> QED BY <1>5, <1>9, <2>2, <2>3, <2>4 DEF w
<1> QED BY <1>8, <1>9

\* pffree merges a block, and claims back what was lost in it.
LEMMA FreesBlock ==
    ASSUME Layout, NEW o \in Offsets, ~ IsFree(o), NEW back, PfFree(o, back)
    PROVE  \E f, m, g \in Nat :
              /\ Merges(all_space, SwapSize, f, m) /\ Merged(all_space, all_space', f, m)
              /\ f <= o /\ o < m
              /\ free_space' = {p \in DOMAIN all_space' : all_space'[p].status = "PAGE_FREE"}
              /\ swapFree' = (swapFree + g + back) % Modulus
              /\ \A p \in Block(all_space, f, m) \ {o} : IsFree(p)
              /\ Total(SizesOf(all_space), Block(all_space, f, m)) + g = m - f
<1>1. PICK f, n, m : /\ f = IF MergesLeft(o) THEN PrevOffset(o) ELSE o
                     /\ n = NextOffset(o)
                     /\ m = IF MergesRight(n) THEN n + all_space[n].size ELSE n
  OBVIOUS
<1>2. /\ f \in Offsets /\ f \in Nat /\ o \in Nat /\ f <= o
      /\ f # o => /\ IsFree(f) /\ f + all_space[f].size = o /\ o % PageFileSize # 0
                  /\ all_space[f].size \in Nat \ {0}
      /\ \A p \in Offsets : ~ (f < p /\ p < o)
      /\ \A p \in Nat : Follows(Offsets, SwapSize, p, f) /\ f % PageFileSize # 0 =>
            all_space[p].status # "PAGE_FREE"
  BY <1>1, LeftOf
<1>3. /\ n \in Offsets \cup {SwapSize} /\ m \in Offsets \cup {SwapSize}
      /\ n \in Nat /\ m \in Nat /\ o < n /\ n <= m
      /\ MergesRight(n) => n \in Offsets /\ IsFree(n) /\ n % PageFileSize # 0 /\ n < m
                           /\ all_space[n].size \in Nat \ {0}
      /\ m # SwapSize /\ m % PageFileSize # 0 => all_space[m].status # "PAGE_FREE"
  BY <1>1, RightOf
<1>4. /\ Block(all_space, f, m) = {f, o} \cup (IF MergesRight(n) THEN {n} ELSE {})
      /\ \A p \in Block(all_space, f, m) \ {o} : IsFree(p)
      /\ n - o - all_space[o].size \in Nat
      /\ Total(SizesOf(all_space), Block(all_space, f, m)) + (n - o - all_space[o].size) = m - f
  BY <1>1, BlockIs
<1>5. PICK g \in Nat : g = n - o - all_space[o].size
  BY <1>4
<1>6. /\ Offsets = DOMAIN all_space /\ Offsets \in SUBSET Nat /\ all_space[o].size \in Nat \ {0}
      /\ free_space = {p \in Offsets : IsFree(p)}
  BY SwapSizeIs DEF Layout, Tiles, IsMap, Offsets
<1>7. PICK gone : gone = ({o} \ {f}) \cup (IF MergesRight(n) THEN {n} ELSE {})
  OBVIOUS
<1>8. PICK size : size = IF f = o THEN all_space[o].size ELSE all_space[f].size + all_space[o].size
  OBVIOUS
<1>9. /\ all_space' = [p \in Offsets \ gone |->
             IF p # f THEN all_space[p]
             ELSE Location(n - f + (IF n \in gone THEN all_space[n].size ELSE 0), "PAGE_FREE")]
      /\ free_space' = (free_space \ gone) \cup {f}
      /\ swapFree' = (swapFree + Reclaimed(f + size, n) + back) % Modulus
  BY <1>1, <1>7, <1>8 DEF PfFree
<1>10. n - f + (IF n \in gone THEN all_space[n].size ELSE 0) = m - f
  <2>1. n \in gone <=> MergesRight(n)
    BY <1>2, <1>3, <1>7
  <2> QED BY <1>1, <1>2, <1>3, <2>1
<1>11. Reclaimed(f + size, n) = g
  <2>1. f + size = o + all_space[o].size
    BY <1>2, <1>6, <1>8
  <2> QED BY <1>2, <1>3, <1>5, <1>6, <2>1 DEF Reclaimed
<1>12. Block(all_space, f, m) = gone \cup {f} /\ f \notin gone
  <2>1. n # f
    BY <1>2, <1>3
  <2> QED BY <1>4, <1>7, <2>1
<1>13. Merges(all_space, SwapSize, f, m)
  <2>1. ASSUME NEW b \in Offsets, f < b, b < m PROVE b % PageFileSize # 0
    <3>1. b \in Block(all_space, f, m)
      BY <1>2, <1>3, <1>6, <2>1 DEF Block
    <3>2. b = o \/ (MergesRight(n) /\ b = n)
      BY <1>2, <1>4, <2>1, <3>1
    <3> QED BY <1>2, <1>3, <2>1, <3>2
  <2>2. f < m
    BY <1>2, <1>3
  <2> QED BY <1>2, <1>3, <1>6, <2>1, <2>2 DEF Merges
<1>14. Merged(all_space, all_space', f, m)
  <2>1. DOMAIN all_space' = {p \in DOMAIN all_space : p <= f \/ m <= p}
    <3>1. DOMAIN all_space' = Offsets \ gone
      BY <1>9
    <3>2. ASSUME NEW p \in Offsets PROVE p \in gone <=> ~ (p <= f \/ m <= p)
      <4>1. p \in gone <=> p \in Block(all_space, f, m) /\ p # f
        BY <1>12
      <4>2. p \in Nat
        BY <1>6
      <4> QED BY <1>2, <1>3, <1>6, <4>1, <4>2 DEF Block
    <3> QED BY <1>6, <3>1, <3>2
  <2>2. all_space'[f] = Location(m - f, "PAGE_FREE")
    BY <1>2, <1>9, <1>10, <1>12
  <2>3. \A p \in DOMAIN all_space' : p # f => all_space'[p] = all_space[p]
    BY <1>9
  <2>4. all_space' = [p \in DOMAIN all_space' |-> all_space'[p]]
    BY <1>9
  <2> QED BY <2>1, <2>2, <2>3, <2>4 DEF Merged
<1>15. free_space' = {p \in DOMAIN all_space' : all_space'[p].status = "PAGE_FREE"}
  <2>1. DOMAIN all_space' = Offsets \ gone
    BY <1>9
  <2>2. all_space'[f].status = "PAGE_FREE"
    BY <1>14 DEF Merged, Location
  <2>3. \A p \in DOMAIN all_space' : p # f => all_space'[p] = all_space[p]
    BY <1>9
  <2> QED BY <1>2, <1>6, <1>9, <1>12, <2>1, <2>2, <2>3 DEF IsFree
<1>16. o < m
  BY <1>2, <1>3
<1> QED BY <1>2, <1>3, <1>4, <1>5, <1>9, <1>11, <1>13, <1>14, <1>15, <1>16

-----------------------------------------------------------------------------
(* What allocating and freeing do to the sums.                             *)

LEMMA MapWeights ==
    ASSUME NEW A, NEW end \in Nat, Tiles(A, end)
    PROVE  /\ Weights(SizesOf(A), DOMAIN A) /\ DOMAIN A \in SUBSET Nat
           /\ \A S \in SUBSET DOMAIN A : Weights(SizesOf(A), S) /\ Total(SizesOf(A), S) \in Nat
           /\ \A p \in DOMAIN A : SizesOf(A)[p] = A[p].size /\ A[p].size \in Nat \ {0}
<1>1. DOMAIN A \subseteq 0..(end - 1) /\ \A p \in DOMAIN A : A[p].size \in Nat \ {0}
  BY DEF Tiles, IsMap
<1>2. IsFiniteSet(DOMAIN A) /\ DOMAIN A \in SUBSET Nat
  <2>1. IsFiniteSet(0..(end - 1))
    <3>1. PICK e \in Int : e = end - 1
      OBVIOUS
    <3>2. IsFiniteSet(0..e)
      BY FS_Interval
    <3> QED BY <3>1, <3>2
  <2> QED BY <1>1, <2>1, FS_Subset
<1>3. \A p \in DOMAIN A : SizesOf(A)[p] = A[p].size
  BY DEF SizesOf
<1>4. Weights(SizesOf(A), DOMAIN A)
  BY <1>1, <1>2, <1>3 DEF Weights
<1>5. ASSUME NEW S \in SUBSET DOMAIN A
      PROVE  Weights(SizesOf(A), S) /\ Total(SizesOf(A), S) \in Nat
  BY <1>4, TotalSubset, TotalType
<1> QED BY <1>1, <1>2, <1>3, <1>4, <1>5

\* The location o is freed with the block from f up to m, where g bytes were lost.
FreesOf(A, f, m, o, g) ==
    /\ f <= o /\ o < m /\ o \in DOMAIN A /\ A[o].status # "PAGE_FREE"
    /\ \A p \in Block(A, f, m) \ {o} : A[p].status = "PAGE_FREE"
    /\ Total(SizesOf(A), Block(A, f, m)) + g = m - f

MergeSums(A, B, o, g) ==
    /\ Total(SizesOf(B), DOMAIN B) = Total(SizesOf(A), DOMAIN A) + g
    /\ Total(SizesOf(B), FreeOf(B)) = Total(SizesOf(A), FreeOf(A)) + A[o].size + g

\* Of the locations in use o alone is freed.
OnlyFreed(A, B, o) ==
    /\ \A p \in DOMAIN A : p # o /\ A[p].status # "PAGE_FREE" => p \in DOMAIN B /\ B[p] = A[p]
    /\ \A p \in DOMAIN B : B[p].status # "PAGE_FREE" =>
           p \in DOMAIN A /\ A[p].status # "PAGE_FREE" /\ p # o

LEMMA MergedTotals ==
    ASSUME NEW A, NEW B, NEW end \in Nat, NEW f \in Nat, NEW m \in Nat, NEW o, NEW g \in Nat,
           Tiles(A, end), Merges(A, end, f, m), Merged(A, B, f, m), FreesOf(A, f, m, o, g)
    PROVE  MergeSums(A, B, o, g) /\ OnlyFreed(A, B, o)
<1>0. /\ f <= o /\ o < m /\ o \in DOMAIN A /\ A[o].status # "PAGE_FREE"
      /\ \A p \in Block(A, f, m) \ {o} : A[p].status = "PAGE_FREE"
      /\ Total(SizesOf(A), Block(A, f, m)) + g = m - f
  BY DEF FreesOf
<1> DEFINE v == SizesOf(A)
           w == SizesOf(B)
           K == Block(A, f, m)
           R == DOMAIN A \ K
           F == {p \in R : A[p].status = "PAGE_FREE"}
<1>1. /\ DOMAIN A \in SUBSET Nat
      /\ \A S \in SUBSET DOMAIN A : Weights(v, S) /\ Total(v, S) \in Nat
      /\ \A p \in DOMAIN A : v[p] = A[p].size /\ A[p].size \in Nat \ {0}
  BY MapWeights
<1>2. /\ f \in DOMAIN A /\ f < m /\ B[f].size = m - f /\ B[f].status = "PAGE_FREE" /\ m - f \in Nat
      /\ DOMAIN B = {p \in DOMAIN A : p <= f \/ m <= p} /\ f \in DOMAIN B
      /\ \A p \in DOMAIN B : p # f => B[p] = A[p]
  BY <1>1 DEF Merges, Merged, Location
<1>3. \A p \in DOMAIN B : w[p] = B[p].size
  BY DEF SizesOf
<1>4. /\ DOMAIN B = R \cup {f} /\ f \notin R /\ f \in K /\ o \in K /\ o \notin R
      /\ K \subseteq DOMAIN A /\ R \subseteq DOMAIN A /\ DOMAIN A = R \cup K /\ R \cap K = {}
  <2>1. f \in Nat /\ m \in Nat /\ \A p \in DOMAIN A : p \in Nat
    BY <1>1
  <2>2. \A p : p \in K <=> p \in DOMAIN A /\ f <= p /\ p < m
    BY DEF Block
  <2>3. \A p : p \in DOMAIN B <=> p \in DOMAIN A /\ (p \notin K \/ p = f)
    BY <1>2, <2>1, <2>2
  <2>4. f \in K /\ o \in K
    BY <1>0, <1>2, <2>1, <2>2
  <2>5. \A p : p \in R <=> p \in DOMAIN A /\ p \notin K
    OBVIOUS
  <2> HIDE DEF K, R
  <2>6. DOMAIN B = R \cup {f}
    BY <1>2, <2>3, <2>5
  <2>7. f \notin R /\ o \notin R /\ R \cap K = {}
    BY <2>4, <2>5
  <2>8. K \subseteq DOMAIN A /\ R \subseteq DOMAIN A
    BY <2>2, <2>5
  <2>9. DOMAIN A = R \cup K
    BY <2>2, <2>5
  <2> QED BY <2>4, <2>6, <2>7, <2>8, <2>9
<1>5. /\ \A p \in R : p \in DOMAIN B /\ p # f /\ B[p] = A[p] /\ w[p] = v[p]
      /\ \A p \in K : p # o => A[p].status = "PAGE_FREE"
  <2>1. ASSUME NEW p \in R PROVE p \in DOMAIN B /\ p # f /\ B[p] = A[p] /\ w[p] = v[p]
    <3>1. p \in DOMAIN B /\ p # f /\ p \in DOMAIN A
      BY <1>4
    <3>2. B[p] = A[p]
      BY <1>2, <3>1
    <3>3. w[p] = B[p].size /\ v[p] = A[p].size
      BY <1>1, <1>3, <3>1
    <3> QED BY <3>1, <3>2, <3>3
  <2>2. \A p \in K : p # o => A[p].status = "PAGE_FREE"
    BY <1>0
  <2> QED BY <2>1, <2>2
<1>6. Total(v, K) + g = m - f
  BY <1>0
<1>7. w[f] = m - f
  BY <1>2, <1>3
<1> HIDE DEF v, w, K, R
<1>8. ASSUME NEW S \in SUBSET R
      PROVE  /\ Total(w, S \cup {f}) = Total(v, S) + (m - f)
             /\ \A T \in SUBSET K : Total(v, S \cup T) = Total(v, S) + Total(v, T)
  <2>1. Weights(v, S) /\ \A p \in S : w[p] = v[p]
    BY <1>1, <1>4, <1>5
  <2>2. Weights(w, S) /\ Total(w, S) = Total(v, S)
    <3>1. \A p \in S : v[p] = w[p]
      BY <2>1
    <3>2. Total(v, S) = Total(w, S)
      BY <3>1, TotalSame
    <3> QED BY <2>1, <3>2 DEF Weights
  <2>3. Total(w, S \cup {f}) = Total(w, S) + w[f]
    <3>1. f \notin S /\ w[f] \in Nat
      BY <1>2, <1>4, <1>7
    <3> QED BY <2>2, <3>1, TotalMore
  <2>4. ASSUME NEW T \in SUBSET K PROVE Total(v, S \cup T) = Total(v, S) + Total(v, T)
    <3>1. Weights(v, T) /\ S \cap T = {}
      BY <1>1, <1>4
    <3> QED BY <2>1, <3>1, TotalUnion
  <2> QED BY <1>7, <2>2, <2>3, <2>4
<1>9. Total(w, DOMAIN B) = Total(v, DOMAIN A) + g
  <2>1. Total(w, R \cup {f}) = Total(v, R) + (m - f) /\ Total(v, R \cup K) = Total(v, R) + Total(v, K)
    BY <1>8
  <2>2. PICK r \in Nat, k \in Nat : r = Total(v, R) /\ k = Total(v, K)
    BY <1>1, <1>4
  <2> QED BY <1>4, <1>6, <2>1, <2>2
<1>10. Total(w, FreeOf(B)) = Total(v, FreeOf(A)) + A[o].size + g
  <2>1. FreeOf(B) = F \cup {f} /\ FreeOf(A) = F \cup (K \ {o}) /\ F \subseteq R
    BY <1>0, <1>2, <1>4, <1>5 DEF FreeOf
  <2> HIDE DEF F
  <2>2. /\ Total(w, F \cup {f}) = Total(v, F) + (m - f)
        /\ Total(v, F \cup (K \ {o})) = Total(v, F) + Total(v, K \ {o})
    BY <1>8, <2>1
  <2>3. Total(v, K \ {o}) = Total(v, K) - v[o]
    BY <1>1, <1>4, TotalLess
  <2>4. PICK r \in Nat, k \in Nat, s \in Nat : r = Total(v, F) /\ k = Total(v, K) /\ s = v[o]
    <3>1. o \in DOMAIN A /\ F \in SUBSET DOMAIN A /\ K \in SUBSET DOMAIN A
      BY <1>0, <1>4, <2>1
    <3> QED BY <1>1, <3>1
  <2>5. s = A[o].size
    BY <1>0, <1>1, <2>4
  <2> QED BY <1>6, <2>1, <2>2, <2>3, <2>4, <2>5
<1>11. \A p \in DOMAIN A : p # o /\ A[p].status # "PAGE_FREE" => p \in DOMAIN B /\ B[p] = A[p]
  BY <1>0, <1>4, <1>5
<1>12. \A p \in DOMAIN B : B[p].status # "PAGE_FREE" =>
          p \in DOMAIN A /\ A[p].status # "PAGE_FREE" /\ p # o
  BY <1>0, <1>2, <1>4, <1>5
<1> QED BY <1>9, <1>10, <1>11, <1>12 DEF v, w, MergeSums, OnlyFreed

\* What allocating takes away: the rest of a block that is too small to be kept.
AllotSums(A, B, taken, last, left, g) ==
    /\ g \in Nat
    /\ Total(SizesOf(B), DOMAIN B) = Total(SizesOf(A), DOMAIN A) - g
    /\ taken \cup {last} \subseteq DOMAIN B
    /\ Total(SizesOf(B), taken \cup {last}) = Total(SizesOf(A), taken) + left
    /\ \A p \in DOMAIN A : A[p].status # "PAGE_FREE" => p \in DOMAIN B /\ B[p] = A[p]
    /\ \A p \in DOMAIN B : B[p].status # "PAGE_FREE" =>
           p \in taken \cup {last} \/ (p \in DOMAIN A /\ A[p].status # "PAGE_FREE")

LEMMA AllottedTotals ==
    ASSUME NEW A, NEW B, NEW end \in Nat, NEW taken, NEW last, NEW left,
           Tiles(A, end), Allots(A, end, taken, last, left), Allotted(A, B, taken, last, left),
           NEW g, g = IF A[last].size - left < LocationSize THEN A[last].size - left ELSE 0
    PROVE  AllotSums(A, B, taken, last, left, g)
<1> DEFINE v == SizesOf(A)
           w == SizesOf(B)
           S == DOMAIN A \ {last}
           R == IF A[last].size - left < LocationSize THEN {} ELSE {last + left}
<1>1. /\ DOMAIN A \in SUBSET Nat
      /\ \A T \in SUBSET DOMAIN A : Weights(v, T) /\ Total(v, T) \in Nat
      /\ \A p \in DOMAIN A : v[p] = A[p].size /\ A[p].size \in Nat \ {0}
  BY MapWeights
<1>2. /\ last \in DOMAIN A /\ A[last].status = "PAGE_FREE" /\ last \notin taken /\ taken \subseteq DOMAIN A
      /\ \A p \in taken : A[p].status = "PAGE_FREE"
      /\ left \in Nat \ {0} /\ left <= A[last].size
  BY DEF Allots
<1>3. /\ DOMAIN B = DOMAIN A \cup R /\ R \cap DOMAIN A = {}
      /\ B[last] = Location(left, "PAGE_END")
      /\ \A p \in taken : B[p] = Location(A[p].size, "PAGE_PART")
      /\ \A p \in R : B[p] = Location(A[last].size - left, "PAGE_FREE")
      /\ \A p \in DOMAIN A : p # last /\ p \notin taken => B[p] = A[p]
  BY DEF Allotted
<1>4. \A s, t : Location(s, t).size = s /\ Location(s, t).status = t
  BY DEF Location
<1>5. \A p \in DOMAIN B : w[p] = B[p].size
  BY DEF SizesOf
<1>6. /\ \A p \in S : v[p] = w[p]
      /\ w[last] = left /\ \A p \in R : w[p] = A[last].size - left
  <2>1. ASSUME NEW p \in S PROVE v[p] = w[p]
    <3>1. B[p].size = A[p].size /\ p \in DOMAIN A /\ p \in DOMAIN B
      BY <1>2, <1>3, <1>4
    <3> QED BY <1>1, <1>5, <3>1
  <2>2. w[last] = left
    BY <1>2, <1>3, <1>4, <1>5
  <2>3. ASSUME NEW p \in R PROVE w[p] = A[last].size - left
    <3>1. p \in DOMAIN B /\ B[p] = Location(A[last].size - left, "PAGE_FREE")
      BY <1>3
    <3> HIDE DEF w, R
    <3> QED BY <1>4, <1>5, <3>1
  <2> QED BY <2>1, <2>2, <2>3
<1>7. DOMAIN A = S \cup {last} /\ last \notin S /\ S \in SUBSET DOMAIN A
  BY <1>2
<1>8. PICK s \in Nat, l \in Nat : s = A[last].size /\ l = left /\ l <= s /\ v[last] = s
  BY <1>1, <1>2
<1>9. R = {} \/ \E p : R = {p}
  OBVIOUS
<1>10. (R = {} => g = s - l) /\ (R # {} => g = 0)
  BY <1>8
<1> HIDE DEF v, w, S, R
<1>11. ASSUME NEW T \in SUBSET S
       PROVE  Weights(w, T) /\ Weights(v, T) /\ Total(w, T) = Total(v, T) /\ Total(v, T) \in Nat
              /\ Total(w, T \cup {last}) = Total(v, T) + l /\ Weights(w, T \cup {last})
  <2>1. Weights(v, T) /\ Total(v, T) \in Nat
    BY <1>1, <1>7
  <2>2. \A p \in T : v[p] = w[p]
    BY <1>6
  <2>3. Total(v, T) = Total(w, T)
    BY <2>2, TotalSame
  <2>4. Weights(w, T)
    BY <2>1, <2>2 DEF Weights
  <2>5. last \notin T /\ w[last] \in Nat /\ w[last] = l
    BY <1>6, <1>7, <1>8
  <2>6. Total(w, T \cup {last}) = Total(w, T) + w[last] /\ Weights(w, T \cup {last})
    BY <2>4, <2>5, TotalMore
  <2> QED BY <2>1, <2>3, <2>4, <2>5, <2>6
<1>12. g \in Nat /\ Total(w, DOMAIN B) = Total(v, DOMAIN A) - g
  <2>1. PICK a \in Nat : a = Total(v, S) /\ Total(w, S \cup {last}) = a + l
    BY <1>11
  <2>2. Total(v, DOMAIN A) = a + s
    <3>1. Weights(v, S) /\ last \notin S /\ v[last] \in Nat
      BY <1>7, <1>8, <1>11
    <3>2. Total(v, S \cup {last}) = Total(v, S) + v[last]
      BY <3>1, TotalMore
    <3> QED BY <1>7, <1>8, <2>1, <3>2
  <2>3. CASE R = {}
    <3>1. DOMAIN B = S \cup {last} /\ g = s - l
      BY <1>3, <1>7, <1>10, <2>3
    <3>2. a + l = (a + s) - (s - l) /\ s - l \in Nat
      BY <1>8
    <3> QED BY <2>1, <2>2, <3>1, <3>2
  <2>4. ASSUME NEW p, R = {p} PROVE g \in Nat /\ Total(w, DOMAIN B) = Total(v, DOMAIN A) - g
    <3>1. DOMAIN B = (S \cup {last}) \cup {p} /\ p \notin S \cup {last}
      BY <1>3, <1>7, <2>4
    <3>2. w[p] = s - l /\ s - l \in Nat /\ g = 0
      BY <1>6, <1>8, <1>10, <2>4
    <3>3. Weights(w, S \cup {last})
      BY <1>11
    <3>4. Total(w, (S \cup {last}) \cup {p}) = Total(w, S \cup {last}) + w[p]
      BY <3>1, <3>2, <3>3, TotalMore
    <3>5. (a + l) + (s - l) = (a + s) - 0
      OBVIOUS
    <3> QED BY <2>1, <2>2, <3>1, <3>2, <3>4, <3>5
  <2> QED BY <1>9, <2>3, <2>4
<1>13. Total(w, taken \cup {last}) = Total(v, taken) + left
  <2>1. taken \in SUBSET S
    BY <1>2 DEF S
  <2> QED BY <1>8, <1>11, <2>1
<1>14. taken \cup {last} \subseteq DOMAIN B
  BY <1>2, <1>3
<1>15. \A p \in DOMAIN A : A[p].status # "PAGE_FREE" => p \in DOMAIN B /\ B[p] = A[p]
  BY <1>2, <1>3
<1>16. ASSUME NEW p \in DOMAIN B, B[p].status # "PAGE_FREE"
       PROVE p \in taken \cup {last} \/ (p \in DOMAIN A /\ A[p].status # "PAGE_FREE")
  <2>1. p \notin R
    BY <1>3, <1>4, <1>16
  <2> QED BY <1>3, <1>16, <2>1
<1> QED BY <1>12, <1>13, <1>14, <1>15, <1>16 DEF v, w, AllotSums

-----------------------------------------------------------------------------
(* New files.                                                              *)

\* B is A with the files from `end' up to `to' added.
Extended(A, B, end, to) ==
    /\ B = [o \in DOMAIN B |-> B[o]]
    /\ DOMAIN B = DOMAIN A \cup {b \in end..(to - 1) : b % PageFileSize = 0}
    /\ \A o \in DOMAIN A : B[o] = A[o]
    /\ \A o \in DOMAIN B \ DOMAIN A : B[o] = Location(PageFileSize, "PAGE_FREE")

LEMMA ExtendedTiles ==
    ASSUME NEW A, NEW B, NEW end \in Nat, NEW to \in Nat, end <= to,
           end % PageFileSize = 0, to % PageFileSize = 0,
           Tiles(A, end), Extended(A, B, end, to)
    PROVE  Tiles(B, to)
<1> DEFINE new == {b \in end..(to - 1) : b % PageFileSize = 0}
<1>1. /\ DOMAIN A \subseteq 0..(end - 1) /\ DOMAIN B = DOMAIN A \cup new
      /\ \A o \in DOMAIN A : B[o] = A[o]
      /\ new \subseteq end..(to - 1) /\ \A b \in new : b % PageFileSize = 0
  BY DEF Extended, Tiles
<1>2. \A o \in new : B[o].size = PageFileSize /\ B[o].status = "PAGE_FREE"
                    /\ B[o] \in [size : Nat \ {0}, status : {"PAGE_FREE", "PAGE_PART", "PAGE_END"}]
  <2>1. ASSUME NEW o \in new PROVE B[o] = Location(PageFileSize, "PAGE_FREE")
    <3>1. o \in DOMAIN B \ DOMAIN A
      BY <1>1
    <3> QED BY <3>1 DEF Extended
  <2> QED BY <2>1, Constants DEF Location
<1>3. IsMap(B)
  <2>1. \A o \in DOMAIN A : A[o] \in [size : Nat \ {0}, status : {"PAGE_FREE", "PAGE_PART", "PAGE_END"}]
    BY DEF Tiles, IsMap
  <2>2. \A o \in DOMAIN B : B[o] \in [size : Nat \ {0}, status : {"PAGE_FREE", "PAGE_PART", "PAGE_END"}]
    BY <1>1, <1>2, <2>1
  <2> QED BY <2>2 DEF IsMap, Extended
<1>4. DOMAIN B \subseteq 0..(to - 1)
  BY <1>1
<1>5. \A b \in 0..(to - 1) : b % PageFileSize = 0 => b \in DOMAIN B
  <2>1. ASSUME NEW b \in 0..(to - 1), b % PageFileSize = 0 PROVE b \in DOMAIN B
    <3>1. CASE b < end
      <4>1. b \in 0..(end - 1)
        BY <3>1
      <4> QED BY <1>1, <2>1, <4>1 DEF Tiles
    <3>2. CASE ~ (b < end)
      <4>1. b \in new
        BY <2>1, <3>2
      <4> QED BY <1>1, <4>1
    <3> QED BY <3>1, <3>2
  <2> QED BY <2>1
<1>6. \A o \in DOMAIN B : o % MemoryAlignment = 0 /\ B[o].size % MemoryAlignment = 0
  <2>1. ASSUME NEW o \in new PROVE o % MemoryAlignment = 0 /\ B[o].size % MemoryAlignment = 0
    <3>1. o \in Int /\ o % PageFileSize = 0
      BY <1>1
    <3>2. o % MemoryAlignment = 0
      BY <3>1, Constants, MultipleOfMultiple
    <3> QED BY <1>2, <3>2, Constants
  <2>2. \A o \in DOMAIN A : o % MemoryAlignment = 0 /\ A[o].size % MemoryAlignment = 0
    BY DEF Tiles
  <2> QED BY <1>1, <2>1, <2>2
<1>7. end < to => end \in new
  OBVIOUS
<1> HIDE DEF new
<1>8. ASSUME NEW o \in Nat, NEW n \in Nat, Follows(DOMAIN B, to, o, n) PROVE TileOK(B, o, n, to)
  <2>1. /\ o \in DOMAIN B /\ n \in DOMAIN B \cup {to} /\ o < n
        /\ \A p \in DOMAIN B : p <= o \/ n <= p
    <3>1. DOMAIN B \subseteq Nat
      BY <1>4
    <3> QED BY <1>8, <3>1 DEF Follows
  <2>2. CASE o \in DOMAIN A
    <3>1. n <= end
      <4>1. CASE end = to
        BY <1>4, <2>1, <4>1
      <4>2. CASE end < to
        <5>1. end \in DOMAIN B /\ o < end
          BY <1>1, <1>7, <2>2, <4>2
        <5> QED BY <2>1, <5>1
      <4> QED BY <4>1, <4>2
    <3>2. n \in DOMAIN A \cup {end}
      BY <1>1, <2>1, <3>1
    <3>3. Follows(DOMAIN A, end, o, n)
      BY <1>1, <1>4, <2>1, <2>2, <3>2 DEF Follows
    <3>4. TileOK(A, o, n, end) /\ B[o] = A[o] /\ (n # end => B[n] = A[n])
      BY <1>1, <2>2, <3>2, <3>3, TileAt
    <3>5. n = end => n % PageFileSize = 0
      OBVIOUS
    <3>6. n # end => n # to
      BY <1>1, <3>2
    <3> QED BY <3>4, <3>5, <3>6 DEF TileOK
  <2>3. CASE o \in new
    <3>1. PICK e \in Nat \ {0} : e = PageFileSize
      BY Constants
    <3>2. o % e = 0 /\ n % e = 0 /\ o < to /\ end <= o
      <4>1. n \notin DOMAIN A
        BY <1>1, <2>1, <2>3
      <4> QED BY <1>1, <2>1, <2>3, <3>1, <4>1
    <3>3. o \in Int /\ n \in Int /\ to \in Int /\ o < n
      BY <2>1
    <3>4. o + e <= n
      BY <3>2, <3>3, MultiplesApart
    <3>5. o + e <= to /\ (o + e) % e = 0
      <4>1. o + e <= to
        BY <3>1, <3>2, <3>3, MultiplesApart
      <4>2. e % e = 0 /\ e \in Int
        <5>1. (1 * e) % e = 0 /\ 1 * e = e
          BY Product
        <5> QED BY <5>1
      <4>3. (o + e) % e = o % e
        BY <3>3, <4>2, Multiples
      <4> QED BY <3>2, <4>1, <4>3
    <3>6. n <= o + e
      <4>1. CASE o + e = to
        <5>1. n <= to
          BY <1>4, <2>1
        <5> QED BY <4>1, <5>1
      <4>2. CASE o + e < to
        <5>1. o + e \in 0..(to - 1) /\ (o + e) % PageFileSize = 0
          BY <3>1, <3>5, <4>2
        <5>2. o + e \in DOMAIN B
          BY <1>5, <5>1
        <5> QED BY <2>1, <5>2
      <4> QED BY <3>5, <4>1, <4>2
    <3>7. n = o + e /\ B[o].size = e /\ B[o].status = "PAGE_FREE" /\ n % PageFileSize = 0
      BY <1>2, <2>3, <3>1, <3>2, <3>4, <3>6
    <3> QED BY <3>7, Constants DEF TileOK
  <2> QED BY <1>1, <2>1, <2>2, <2>3
<1> QED BY <1>3, <1>4, <1>5, <1>6, <1>8 DEF Tiles

\* As many multiples as there are files.
LEMMA Borders ==
    ASSUME NEW a \in Nat, NEW k \in Nat
    PROVE  LET S == {f * PageFileSize : f \in a..(a + k - 1)}
               E == PageFileSize
           IN  /\ IsFiniteSet(S) /\ Cardinality(S) = k
               /\ S = {b \in (a * E)..((a + k) * E - 1) : b % E = 0}
<1>1. PICK e \in Nat \ {0} : e = PageFileSize
  BY Constants
<1>2. PICK I : I = a..(a + k - 1)
  OBVIOUS
<1>3. IsFiniteSet(I) /\ Cardinality(I) = k /\ \A i : i \in I <=> i \in Nat /\ a <= i /\ i < a + k
  <2>1. PICK z \in Int : z = a + k - 1
    OBVIOUS
  <2>2. IsFiniteSet(a..z) /\ Cardinality(a..z) = IF a > z THEN 0 ELSE z - a + 1
    BY FS_Interval
  <2>3. (IF a > z THEN 0 ELSE z - a + 1) = k
    BY <2>1
  <2> QED BY <1>2, <2>1, <2>2, <2>3
<1> DEFINE S == {f * e : f \in I}
<1>4. IsFiniteSet(S) /\ Cardinality(S) = k
  <2> DEFINE h == [f \in I |-> f * e]
  <2>1. \A i, j \in I : i * e = j * e => i = j
    <3>1. ASSUME NEW i \in Nat, NEW j \in Nat, i < j PROVE i * e < j * e
      <4>1. i * e + e <= j * e
        <5>1. (i + 1) * e <= j * e
          BY <3>1
        <5>2. (i + 1) * e = i * e + e
          OBVIOUS
        <5> QED BY <5>1, <5>2
      <4> QED BY <4>1
    <3> QED BY <1>3, <3>1
  <2>2. h \in Bijection(I, S)
    BY <2>1 DEF Bijection, Injection, IsInjective, Surjection
  <2> HIDE DEF h, S
  <2>3. ExistsBijection(I, S)
    BY <2>2 DEF ExistsBijection
  <2> QED BY <1>3, <2>3, FS_Bijection
<1>5. ASSUME NEW b PROVE b \in S <=> b \in (a * e)..((a + k) * e - 1) /\ b % e = 0
  <2>1. ASSUME b \in S PROVE b \in (a * e)..((a + k) * e - 1) /\ b % e = 0
    <3>1. PICK f \in Nat : a <= f /\ f < a + k /\ b = f * e
      BY <1>3, <2>1
    <3>2. a * e <= f * e /\ (f + 1) * e <= (a + k) * e
      BY <3>1
    <3>3. (f + 1) * e = f * e + e
      OBVIOUS
    <3>4. b % e = 0
      BY <3>1, Product
    <3> QED BY <3>1, <3>2, <3>3, <3>4
  <2>2. ASSUME b \in (a * e)..((a + k) * e - 1), b % e = 0 PROVE b \in S
    <3>1. b \in Int
      BY <2>2
    <3>2. PICK f \in Int : b = e * f
      <4>1. b = e * (b \div e) + (b % e) /\ b \div e \in Int
        BY <3>1, DivMod
      <4>2. PICK f \in Int : f = b \div e
        BY <4>1
      <4>3. b = e * f + 0
        BY <2>2, <4>1, <4>2
      <4> QED BY <4>3
    <3>3. a <= f
      <4>1. CASE f < a
        <5>1. (f + 1) * e <= a * e
          BY <4>1
        <5>2. (f + 1) * e = f * e + e /\ f * e = e * f
          OBVIOUS
        <5> QED BY <2>2, <3>2, <5>1, <5>2
      <4> QED BY <4>1
    <3>4. f < a + k
      <4>1. CASE a + k <= f
        <5>1. (a + k) * e <= f * e
          BY <4>1
        <5>2. f * e = e * f
          OBVIOUS
        <5> QED BY <2>2, <3>2, <5>1, <5>2
      <4> QED BY <4>1
    <3>5. b = f * e
      BY <3>2
    <3>6. f \in I
      BY <1>3, <3>3, <3>4
    <3> QED BY <3>5, <3>6
  <2> QED BY <2>1, <2>2
<1>6. S = {b \in (a * e)..((a + k) * e - 1) : b % e = 0}
  <2> HIDE DEF S
  <2> QED BY <1>5
<1> QED BY <1>1, <1>2, <1>4, <1>6

\* New files hold as many bytes as they make the swap longer.
LEMMA ExtendedTotals ==
    ASSUME NEW A, NEW B, NEW a \in Nat, NEW k \in Nat,
           Tiles(A, a * PageFileSize), Extended(A, B, a * PageFileSize, (a + k) * PageFileSize)
    PROVE  Total(SizesOf(B), DOMAIN B) = Total(SizesOf(A), DOMAIN A) + k * PageFileSize
<1> DEFINE v == SizesOf(A)
           w == SizesOf(B)
<1>1. PICK e \in Nat \ {0} : e = PageFileSize
  BY Constants
<1>2. PICK S : /\ S = {b \in (a * e)..((a + k) * e - 1) : b % e = 0}
               /\ IsFiniteSet(S) /\ Cardinality(S) = k
  <2>1. PICK T : T = {f * PageFileSize : f \in a..(a + k - 1)}
    OBVIOUS
  <2>2. /\ IsFiniteSet(T) /\ Cardinality(T) = k
        /\ T = {b \in (a * PageFileSize)..((a + k) * PageFileSize - 1) : b % PageFileSize = 0}
    BY <2>1, Borders
  <2> QED BY <1>1, <2>2
<1>3. a * e \in Nat
  BY <1>1
<1>4. /\ DOMAIN A \subseteq 0..(a * e - 1) /\ Weights(v, DOMAIN A) /\ Total(v, DOMAIN A) \in Nat
      /\ \A o \in DOMAIN A : v[o] = A[o].size /\ v[o] \in Nat
  <2>1. PICK end \in Nat : end = a * e
    BY <1>3
  <2>2. Tiles(A, end)
    BY <1>1, <2>1
  <2>3. DOMAIN A \subseteq 0..(end - 1)
    BY <2>2 DEF Tiles
  <2>4. /\ Weights(v, DOMAIN A) /\ \A T \in SUBSET DOMAIN A : Total(v, T) \in Nat
        /\ \A o \in DOMAIN A : v[o] = A[o].size /\ v[o] \in Nat
    BY <2>2, MapWeights
  <2>5. Total(v, DOMAIN A) \in Nat
    BY <2>4
  <2> QED BY <2>1, <2>3, <2>4, <2>5
<1>5. /\ DOMAIN B = DOMAIN A \cup S /\ \A o \in DOMAIN A : B[o] = A[o]
      /\ \A o \in DOMAIN B \ DOMAIN A : B[o] = Location(PageFileSize, "PAGE_FREE")
  BY <1>1, <1>2 DEF Extended
<1>6. S \cap DOMAIN A = {}
  <2>1. ASSUME NEW o \in DOMAIN A PROVE o \notin S
    <3>1. o \in 0..(a * e - 1)
      BY <1>4
    <3>2. PICK z \in Nat : z = a * e
      BY <1>3
    <3> QED BY <1>2, <3>1, <3>2
  <2> QED BY <2>1
<1>7. /\ \A o \in DOMAIN B : w[o] = B[o].size
      /\ \A o \in DOMAIN A : w[o] = v[o]
      /\ \A o \in S : w[o] = e
  <2>1. \A o \in DOMAIN B : w[o] = B[o].size
    BY DEF SizesOf
  <2>2. \A o \in S : B[o].size = e
    BY <1>1, <1>5, <1>6 DEF Location
  <2> HIDE DEF v, w
  <2> QED BY <1>4, <1>5, <2>1, <2>2
<1> HIDE DEF v, w
<1>8. Weights(w, DOMAIN A) /\ Total(w, DOMAIN A) = Total(v, DOMAIN A)
  BY <1>4, <1>7, TotalSame DEF Weights
<1>9. Weights(w, S) /\ Total(w, S) = k * e
  <2>1. Weights(w, S)
    BY <1>2, <1>7 DEF Weights
  <2>2. Cells(w, S) = S \X (1..e)
    <3>1. \A p : p \in Cells(w, S) <=> \E x \in S : p \in {x} \X (1..w[x])
      BY CellsAre
    <3>2. \A p : p \in Cells(w, S) <=> \E x \in S : p \in {x} \X (1..e)
      BY <1>7, <3>1
    <3> QED BY <3>2
  <2>3. IsFiniteSet(1..e) /\ Cardinality(1..e) = e
    BY FS_Interval
  <2>4. Cardinality(S \X (1..e)) = Cardinality(S) * Cardinality(1..e)
    BY <1>2, <2>3, FS_Product
  <2> QED BY <1>2, <2>1, <2>2, <2>3, <2>4 DEF Total
<1>10. Total(w, DOMAIN A \cup S) = Total(w, DOMAIN A) + Total(w, S)
  BY <1>6, <1>8, <1>9, TotalUnion
<1> QED BY <1>1, <1>5, <1>8, <1>9, <1>10 DEF v, w

\* n files, each one free location.
LEMMA FreshMap ==
    ASSUME NEW B, NEW n \in Nat, B = [o \in DOMAIN B |-> B[o]],
           DOMAIN B = {b \in 0..(n * PageFileSize - 1) : b % PageFileSize = 0},
           \A o \in DOMAIN B : B[o] = Location(PageFileSize, "PAGE_FREE")
    PROVE  Tiles(B, n * PageFileSize) /\ Total(SizesOf(B), DOMAIN B) = n * PageFileSize
<1>1. PICK A : A = [o \in {} |-> 0]
  OBVIOUS
<1>2. Tiles(A, 0)
  <2>1. DOMAIN A = {} /\ A \in [DOMAIN A -> [size : Nat \ {0}, status : {"PAGE_FREE", "PAGE_PART", "PAGE_END"}]]
    BY <1>1
  <2>2. \A o, m : ~ Follows(DOMAIN A, 0, o, m)
    BY <2>1 DEF Follows
  <2>3. \A b \in 0..(0 - 1) : FALSE
    OBVIOUS
  <2> QED BY <2>1, <2>2, <2>3 DEF Tiles, IsMap
<1>3. Extended(A, B, 0, n * PageFileSize)
  BY <1>1 DEF Extended
<1>4. 0 * PageFileSize = 0 /\ (0 + n) * PageFileSize = n * PageFileSize /\ n * PageFileSize \in Nat
      /\ 0 % PageFileSize = 0 /\ (n * PageFileSize) % PageFileSize = 0
  <2>1. PageFileSize \in Nat \ {0} /\ 0 \in Int /\ n \in Int
    BY Constants
  <2>2. 0 * PageFileSize = 0 /\ 0 + n = n /\ n * PageFileSize \in Nat
    BY <2>1
  <2>3. (0 * PageFileSize) % PageFileSize = 0 /\ (n * PageFileSize) % PageFileSize = 0
    BY <2>1, Product
  <2> QED BY <2>2, <2>3
<1>5. Tiles(B, n * PageFileSize)
  <2>1. 0 \in Nat /\ 0 <= n * PageFileSize
    BY <1>4
  <2> QED BY <1>2, <1>3, <1>4, <2>1, ExtendedTiles
<1>6. Total(SizesOf(B), DOMAIN B) = Total(SizesOf(A), DOMAIN A) + n * PageFileSize
  <2>1. Tiles(A, 0 * PageFileSize) /\ Extended(A, B, 0 * PageFileSize, (0 + n) * PageFileSize)
    BY <1>2, <1>3, <1>4
  <2>2. 0 \in Nat /\ n \in Nat
    OBVIOUS
  <2> QED BY <2>1, <2>2, ExtendedTotals
<1>7. Total(SizesOf(A), DOMAIN A) = 0
  <2>1. DOMAIN A = {}
    BY <1>1
  <2> QED BY <2>1, TotalNone
<1> QED BY <1>4, <1>5, <1>6, <1>7
-----------------------------------------------------------------------------
(* Chains: a set of offsets in ascending order.                            *)

Increasing(q, n) == \A i, j \in 1..n : i < j => q[i] < q[j]

\* Every bounded set of numbers can be put in order: of the sets that cannot, a smallest
\* one would have a greatest element, and the rest of it could.
LEMMA CanBeOrdered ==
    ASSUME NEW S \in SUBSET Nat, NEW N \in Nat, \A x \in S : x <= N
    PROVE  \E q \in [1..Cardinality(S) -> S] : Increasing(q, Cardinality(S))
<1> DEFINE Bad == {n \in Nat : \E T \in SUBSET S :
                      Cardinality(T) = n /\ ~ \E q \in [1..n -> T] : Increasing(q, n)}
<1>1. IsFiniteSet(S) /\ \A T \in SUBSET S : IsFiniteSet(T) /\ Cardinality(T) \in Nat
  <2>1. IsFiniteSet(S)
    BY FS_BoundedSetOfNaturals
  <2> QED BY <2>1, FS_Subset, FS_CardinalityType
<1>2. ASSUME Bad # {} PROVE FALSE
  <2>1. PICK n \in Bad : \A k \in Bad : n <= k
    <3>1. Bad \in SUBSET Nat
      OBVIOUS
    <3> HIDE DEF Bad
    <3> QED BY <1>2, <3>1, Least
  <2>2. PICK T \in SUBSET S : Cardinality(T) = n /\ ~ \E q \in [1..n -> T] : Increasing(q, n)
    OBVIOUS
  <2>3. n \in Nat
    OBVIOUS
  <2>4. T # {}
    <3>1. ASSUME T = {} PROVE FALSE
      <4>1. n = 0
        BY <2>2, <3>1, FS_EmptySet
      <4>2. 1..0 = {} /\ [i \in 1..0 |-> i] \in [1..0 -> {}]
        OBVIOUS
      <4>3. Increasing([i \in 1..0 |-> i], 0)
        BY <4>2 DEF Increasing
      <4> QED BY <2>2, <3>1, <4>1, <4>2, <4>3
    <3> QED BY <3>1
  <2>5. PICK x \in T : \A y \in T : y <= x
    <3>1. T \in SUBSET Nat /\ \A y \in T : y <= N
      OBVIOUS
    <3> QED BY <2>4, <3>1, Greatest
  <2>6. PICK U \in SUBSET S : U = T \ {x}
    OBVIOUS
  <2>7. Cardinality(U) = n - 1 /\ n - 1 \in Nat
    <3>1. Cardinality(U) = Cardinality(T) - 1 /\ Cardinality(U) \in Nat
      BY <1>1, <2>6, FS_RemoveElement
    <3> QED BY <2>2, <3>1
  <2>8. PICK p \in [1..(n - 1) -> U] : Increasing(p, n - 1)
    <3>1. n - 1 \notin Bad
      <4> HIDE DEF Bad
      <4>1. n \in Nat
        BY <2>3
      <4> QED BY <2>1, <4>1
    <3> QED BY <2>7, <3>1
  <2> DEFINE q == [i \in 1..n |-> IF i = n THEN x ELSE p[i]]
  <2>9. q \in [1..n -> T]
    <3>1. ASSUME NEW i \in 1..n, i # n PROVE p[i] \in T
      <4>1. i \in 1..(n - 1)
        BY <2>3, <3>1
      <4> QED BY <2>6, <2>8, <4>1
    <3> QED BY <3>1
  <2>10. Increasing(q, n)
    <3>1. ASSUME NEW i \in 1..n, NEW j \in 1..n, i < j PROVE q[i] < q[j]
      <4>1. i \in 1..(n - 1) /\ p[i] \in U /\ q[i] = p[i]
        <5>1. i \in 1..(n - 1)
          BY <2>3, <3>1
        <5> QED BY <2>3, <2>8, <5>1
      <4>2. CASE j = n
        <5>1. p[i] <= x /\ p[i] # x /\ p[i] \in Nat /\ x \in Nat
          BY <2>5, <2>6, <4>1
        <5> QED BY <4>1, <4>2, <5>1
      <4>3. CASE j # n
        <5>1. j \in 1..(n - 1)
          BY <2>3, <4>3
        <5>2. p[i] < p[j]
          BY <2>8, <3>1, <4>1, <5>1 DEF Increasing
        <5> QED BY <4>1, <4>3, <5>2
      <4> QED BY <4>2, <4>3
    <3> HIDE DEF q
    <3> QED BY <3>1 DEF Increasing
  <2> HIDE DEF q
  <2> QED BY <2>2, <2>9, <2>10
<1>3. Cardinality(S) \in Nat /\ S \in SUBSET S
  BY <1>1
<1> QED BY <1>2, <1>3

LEMMA AscendingIs ==
    ASSUME NEW S \in SUBSET Nat, NEW N \in Nat, \A x \in S : x <= N,
           NEW last \in S, \A x \in S : x <= last
    PROVE  /\ Ascending(S) \in Seq(S) /\ Range(Ascending(S)) = S
           /\ \A i, j \in DOMAIN Ascending(S) : Ascending(S)[i] = Ascending(S)[j] => i = j
           /\ Len(Ascending(S)) \in Nat \ {0} /\ Ascending(S)[Len(Ascending(S))] = last
           /\ DOMAIN Ascending(S) = 1..Len(Ascending(S))
<1> DEFINE n == Cardinality(S)
           q == Ascending(S)
<1>1. IsFiniteSet(S) /\ n \in Nat
  BY FS_BoundedSetOfNaturals, FS_CardinalityType
<1>2. q \in [1..n -> S] /\ \A i, j \in 1..n : i < j => q[i] < q[j]
  <2>1. \E p \in [1..n -> S] : \A i, j \in 1..n : i < j => p[i] < p[j]
    BY CanBeOrdered DEF Increasing
  <2> QED BY <2>1 DEF Ascending
<1> HIDE DEF q, n
<1>3. \A i \in 1..n : q[i] \in Nat
  BY <1>2
<1>4. \A i, j \in 1..n : q[i] = q[j] => i = j
  <2>1. ASSUME NEW i \in 1..n, NEW j \in 1..n, q[i] = q[j], i # j PROVE FALSE
    <3>1. i < j \/ j < i
      BY <1>1, <2>1
    <3> QED BY <1>2, <1>3, <2>1, <3>1
  <2> QED BY <2>1
<1>5. q \in Surjection(1..n, S)
  <2>1. q \in Injection(1..n, S)
    BY <1>2, <1>4 DEF Injection, IsInjective
  <2>2. Cardinality(1..n) = n
    <3>1. 1 \in Int /\ n \in Int
      BY <1>1
    <3>2. Cardinality(1..n) = IF 1 > n THEN 0 ELSE n - 1 + 1
      BY <3>1, FS_Interval
    <3> QED BY <1>1, <3>2
  <2> QED BY <1>1, <2>1, <2>2, FS_Injection DEF n
<1>6. Range(q) = S
  BY <1>2, <1>5 DEF Surjection, Range
<1>7. q \in Seq(S) /\ Len(q) = n /\ DOMAIN q = 1..n
  BY <1>1, <1>2
<1>8. n # 0
  BY <1>1, FS_EmptySet DEF n
<1>9. q[n] = last
  <2>1. PICK i \in 1..n : q[i] = last
    BY <1>2, <1>6 DEF Range
  <2>2. CASE i = n
    BY <2>1, <2>2
  <2>3. CASE i # n
    <3>1. i < n /\ n \in 1..n
      BY <1>1, <1>8, <2>3
    <3>2. last < q[n] /\ q[n] \in S
      BY <1>2, <2>1, <3>1
    <3>3. q[n] \in Nat /\ last \in Nat /\ q[n] <= last
      BY <3>2
    <3> QED BY <3>2, <3>3
  <2> QED BY <2>2, <2>3
<1> QED BY <1>1, <1>4, <1>6, <1>7, <1>8, <1>9 DEF q

-----------------------------------------------------------------------------
(* Chains and owners.                                                      *)

LEMMA SeqInto ==
    ASSUME NEW S, NEW T, NEW s \in Seq(S), \A i \in DOMAIN s : s[i] \in T
    PROVE  s \in Seq(T)
<1>1. Len(s) \in Nat /\ DOMAIN s = 1..Len(s) /\ s = [i \in 1..Len(s) |-> s[i]]
  OBVIOUS
<1>2. s \in [1..Len(s) -> T]
  BY <1>1
<1> QED BY <1>1, <1>2

LEMMA OwnsIs ==
    ASSUME NEW A, NEW P, OwnersOf(A, P), NEW c \in Chunk
    PROVE  /\ P[c] \in Seq(DOMAIN A) /\ Len(P[c]) \in Nat /\ DOMAIN P[c] = 1..Len(P[c])
           /\ P[c] # <<>> <=> Len(P[c]) # 0
           /\ P[c] = <<>> => Range(P[c]) = {}
           /\ \A o \in Range(P[c]) : o \in DOMAIN A /\ A[o].status # "PAGE_FREE"
           /\ \A d \in Chunk : d # c => Range(P[c]) \cap Range(P[d]) = {}
           /\ \A i \in DOMAIN P[c] : P[c][i] \in DOMAIN A /\ P[c][i] \in Range(P[c])
<1>1. P[c] \in Seq(DOMAIN A)
  BY DEF OwnersOf
<1>2. Len(P[c]) \in Nat /\ DOMAIN P[c] = 1..Len(P[c]) /\ (P[c] # <<>> <=> Len(P[c]) # 0)
  BY <1>1
<1>3. \A i \in DOMAIN P[c] : P[c][i] \in DOMAIN A /\ P[c][i] \in Range(P[c])
  BY <1>1, <1>2 DEF Range
<1>4. ASSUME NEW o \in Range(P[c]) PROVE o \in DOMAIN A /\ A[o].status # "PAGE_FREE"
  <2>1. PICK i \in DOMAIN P[c] : o = P[c][i]
    BY DEF Range
  <2>2. A[P[c][i]].status = IF i = Len(P[c]) THEN "PAGE_END" ELSE "PAGE_PART"
    BY DEF OwnersOf
  <2> QED BY <1>3, <2>1, <2>2
<1>5. ASSUME NEW d \in Chunk, d # c, NEW o, o \in Range(P[c]), o \in Range(P[d]) PROVE FALSE
  <2>1. PICK i \in DOMAIN P[c] : o = P[c][i]
    BY <1>5 DEF Range
  <2>2. PICK j \in DOMAIN P[d] : o = P[d][j]
    BY <1>5 DEF Range
  <2> QED BY <1>5, <2>1, <2>2 DEF OwnersOf
<1>6. P[c] = <<>> => Range(P[c]) = {}
  BY <1>2 DEF Range
<1> QED BY <1>1, <1>2, <1>3, <1>4, <1>5, <1>6

\* An empty chain has no locations; those of two chains are in use, and not the same.
LEMMA ChainsApart ==
    ASSUME NEW A, NEW P, OwnersOf(A, P), NEW c \in Chunk
    PROVE  /\ P[c] = <<>> => Range(P[c]) = {}
           /\ \A p \in Range(P[c]) : p \in DOMAIN A /\ A[p].status # "PAGE_FREE"
           /\ \A d \in Chunk : d # c => \A p \in Range(P[c]) : p \notin Range(P[d])
BY OwnsIs

\* The locations of A a chunk gets in B, and its chain of them.
GetsChain(A, B, taken, last, q) ==
    /\ last \notin taken
    /\ \A p \in taken \cup {last} : p \in DOMAIN A /\ A[p].status = "PAGE_FREE"
    /\ taken \cup {last} \subseteq DOMAIN B
    /\ B[last].status = "PAGE_END" /\ \A p \in taken : B[p].status = "PAGE_PART"
    /\ \A p \in DOMAIN A : A[p].status # "PAGE_FREE" => p \in DOMAIN B /\ B[p] = A[p]
    /\ \A p \in DOMAIN B : B[p].status # "PAGE_FREE" =>
           p \in taken \cup {last} \/ (p \in DOMAIN A /\ A[p].status # "PAGE_FREE")
    /\ q \in Seq(taken \cup {last}) /\ Range(q) = taken \cup {last}
    /\ Len(q) \in Nat \ {0} /\ DOMAIN q = 1..Len(q) /\ q[Len(q)] = last
    /\ \A i, j \in DOMAIN q : q[i] = q[j] => i = j

\* A chunk without locations gets free ones.
LEMMA AllocOwners ==
    ASSUME NEW A, NEW B, NEW P, NEW c \in Chunk, NEW taken, NEW last, NEW q,
           OwnersOf(A, P), P[c] = <<>>, GetsChain(A, B, taken, last, q)
    PROVE  OwnersOf(B, [P EXCEPT ![c] = q])
<1> USE DEF GetsChain
<1> DEFINE Q == [P EXCEPT ![c] = q]
<1>1. DOMAIN P = Chunk /\ Q[c] = q /\ \A d \in Chunk : d # c => Q[d] = P[d]
  BY DEF OwnersOf
<1>2. /\ \A d \in Chunk : Q[d] \in Seq(DOMAIN B)
      /\ Q = [d \in Chunk |-> Q[d]]
  <2>1. q \in Seq(DOMAIN B)
    BY SeqMonotonic
  <2>2. ASSUME NEW d \in Chunk, d # c PROVE P[d] \in Seq(DOMAIN B)
    <3>1. /\ P[d] \in Seq(DOMAIN A) /\ Len(P[d]) \in Nat /\ DOMAIN P[d] = 1..Len(P[d])
          /\ \A i \in DOMAIN P[d] : P[d][i] \in DOMAIN A /\ P[d][i] \in Range(P[d])
          /\ \A o \in Range(P[d]) : o \in DOMAIN A /\ A[o].status # "PAGE_FREE"
      BY OwnsIs
    <3>2. \A i \in DOMAIN P[d] : P[d][i] \in DOMAIN B
      BY <3>1
    <3> QED BY <3>1, <3>2, SeqInto
  <2>3. Q = [d \in Chunk |-> Q[d]]
    BY <1>1
  <2> QED BY <1>1, <2>1, <2>2, <2>3
<1> HIDE DEF Q
<1>3. Q \in [Chunk -> Seq(DOMAIN B)]
  BY <1>2
<1>4. ASSUME NEW d \in Chunk, NEW i \in DOMAIN Q[d]
      PROVE  B[Q[d][i]].status = IF i = Len(Q[d]) THEN "PAGE_END" ELSE "PAGE_PART"
  <2>1. CASE d = c
    <3>1. Q[d] = q
      BY <1>1, <2>1
    <3>2. CASE i = Len(q)
      BY <3>1, <3>2
    <3>3. CASE i # Len(q)
      <4>1. i \in DOMAIN q /\ Len(q) \in DOMAIN q
        BY <3>1
      <4>2. q[i] # last
        BY <3>3, <4>1
      <4>3. q[i] \in taken
        BY <4>1, <4>2 DEF Range
      <4> QED BY <3>1, <3>3, <4>3
    <3> QED BY <3>2, <3>3
  <2>2. CASE d # c
    <3>1. Q[d] = P[d] /\ i \in DOMAIN P[d]
      BY <1>1, <2>2
    <3>2. A[P[d][i]].status = IF i = Len(P[d]) THEN "PAGE_END" ELSE "PAGE_PART"
      BY <3>1 DEF OwnersOf
    <3>3. P[d][i] \in DOMAIN A
      BY <3>1, OwnsIs
    <3>4. B[P[d][i]] = A[P[d][i]]
      BY <3>2, <3>3
    <3> QED BY <3>1, <3>2, <3>4
  <2> QED BY <2>1, <2>2
<1>5. \A d \in Chunk : d # c => Range(Q[d]) \cap Range(q) = {}
  <2>1. ASSUME NEW d \in Chunk, d # c PROVE Range(Q[d]) \cap Range(q) = {}
    <3>1. \A o \in Range(P[d]) : o \in DOMAIN A /\ A[o].status # "PAGE_FREE"
      BY OwnsIs
    <3> QED BY <1>1, <2>1, <3>1
  <2> QED BY <2>1
<1>6. ASSUME NEW d \in Chunk, NEW e \in Chunk, NEW i \in DOMAIN Q[d], NEW j \in DOMAIN Q[e],
             Q[d][i] = Q[e][j]
      PROVE  d = e /\ i = j
  <2>1. Q[d][i] \in Range(Q[d]) /\ Q[e][j] \in Range(Q[e])
    BY DEF Range
  <2>2. CASE d = c /\ e = c
    BY <1>1, <1>6, <2>2
  <2>3. CASE d # c /\ e # c
    BY <1>1, <1>6, <2>3 DEF OwnersOf
  <2>4. CASE d # c /\ e = c
    BY <1>1, <1>5, <1>6, <2>1, <2>4
  <2>5. CASE d = c /\ e # c
    BY <1>1, <1>5, <1>6, <2>1, <2>5
  <2> QED BY <2>2, <2>3, <2>4, <2>5
<1>7. ASSUME NEW o \in DOMAIN B, B[o].status # "PAGE_FREE" PROVE \E d \in Chunk : o \in Range(Q[d])
  <2>1. CASE o \in taken \cup {last}
    BY <1>1, <2>1
  <2>2. CASE o \in DOMAIN A /\ A[o].status # "PAGE_FREE"
    <3>1. PICK d \in Chunk : o \in Range(P[d])
      BY <2>2 DEF OwnersOf
    <3>2. d # c
      BY <3>1, OwnsIs
    <3> QED BY <1>1, <3>1, <3>2
  <2> QED BY <1>7, <2>1, <2>2
<1> QED BY <1>3, <1>4, <1>6, <1>7 DEF OwnersOf, Q

\* The chain of d loses its first location.
ChainFreed(A, B, P, Q, d, o) ==
    /\ OwnersOf(B, Q) /\ o \in Range(P[d])
    /\ Q[d] = Tail(P[d]) /\ \A c \in Chunk : c # d => Q[c] = P[c]
    /\ Range(Q[d]) = Range(P[d]) \ {o}
    /\ Len(P[d]) = 1 <=> Q[d] = <<>>

LEMMA FreeOwners ==
    ASSUME NEW A, NEW B, NEW P, NEW Q, NEW d \in Chunk, NEW o,
           OwnersOf(A, P), P[d] # <<>>, o = Head(P[d]), OnlyFreed(A, B, o),
           Q = [P EXCEPT ![d] = Tail(P[d])]
    PROVE  ChainFreed(A, B, P, Q, d, o)
<1> DEFINE t == Tail(P[d])
<1>0. /\ \A p \in DOMAIN A : p # o /\ A[p].status # "PAGE_FREE" => p \in DOMAIN B /\ B[p] = A[p]
      /\ \A p \in DOMAIN B : B[p].status # "PAGE_FREE" =>
             p \in DOMAIN A /\ A[p].status # "PAGE_FREE" /\ p # o
  BY DEF OnlyFreed
<1>1. DOMAIN P = Chunk /\ Q[d] = t /\ \A c \in Chunk : c # d => Q[c] = P[c]
  BY DEF OwnersOf
<1>2. PICK n \in Nat \ {0} : n = Len(P[d]) /\ DOMAIN P[d] = 1..n /\ P[d] \in Seq(DOMAIN A)
  BY OwnsIs
<1>3. /\ Len(t) = n - 1 /\ DOMAIN t = 1..(n - 1) /\ t \in Seq(DOMAIN A)
      /\ \A i \in 1..(n - 1) : t[i] = P[d][i + 1] /\ i + 1 \in 1..n
      /\ o = P[d][1] /\ 1 \in 1..n
  <2>1. PICK s \in Seq(DOMAIN A) : s = P[d] /\ s # <<>> /\ Len(s) = n
    BY <1>2
  <2>2. /\ Tail(s) \in Seq(DOMAIN A) /\ Len(Tail(s)) = Len(s) - 1
        /\ \A i \in 1..Len(Tail(s)) : Tail(s)[i] = s[i + 1]
    BY <2>1, HeadTailProperties
  <2>3. DOMAIN t = 1..(n - 1) /\ Len(t) = n - 1
    BY <2>1, <2>2
  <2>4. \A i \in 1..(n - 1) : t[i] = P[d][i + 1] /\ i + 1 \in 1..n
    BY <2>1, <2>2, <2>3
  <2>5. o = P[d][1] /\ 1 \in 1..n
    BY <2>1
  <2> QED BY <2>1, <2>2, <2>3, <2>4, <2>5
<1>4. \A i, j \in 1..n : P[d][i] = P[d][j] => i = j
  BY <1>2 DEF OwnersOf
<1>5. n = 1 <=> t = <<>>
  <2>1. PICK s \in Seq(DOMAIN A) : s = t /\ Len(s) = n - 1
    BY <1>3
  <2>2. s = <<>> <=> Len(s) = 0
    BY EmptySeq
  <2> QED BY <1>2, <2>1, <2>2
<1> HIDE DEF t
<1>6. o \in Range(P[d]) /\ Range(t) = Range(P[d]) \ {o}
  <2>1. o \in Range(P[d])
    BY <1>2, <1>3 DEF Range
  <2>2. ASSUME NEW x \in Range(t) PROVE x \in Range(P[d]) \ {o}
    <3>1. PICK i \in 1..(n - 1) : x = t[i]
      BY <1>3 DEF Range
    <3>2. i + 1 \in 1..n /\ x = P[d][i + 1] /\ i + 1 # 1
      BY <1>3, <3>1
    <3>3. x # o
      BY <1>3, <1>4, <3>2
    <3>4. x \in Range(P[d])
      BY <1>2, <3>2 DEF Range
    <3> QED BY <3>3, <3>4
  <2>3. ASSUME NEW x \in Range(P[d]) \ {o} PROVE x \in Range(t)
    <3>1. PICK i \in 1..n : x = P[d][i]
      BY <1>2 DEF Range
    <3>2. i # 1
      BY <1>3, <3>1
    <3>3. i - 1 \in 1..(n - 1) /\ (i - 1) + 1 = i
      BY <1>2, <3>2
    <3>4. x = t[i - 1]
      BY <1>3, <3>1, <3>3
    <3> QED BY <1>3, <3>3, <3>4 DEF Range
  <2> QED BY <2>1, <2>2, <2>3
<1>7. ASSUME NEW c \in Chunk, NEW i \in DOMAIN Q[c]
      PROVE  Q[c][i] \in DOMAIN B /\ B[Q[c][i]] = A[Q[c][i]]
  <2>1. Q[c][i] \in Range(Q[c])
    BY DEF Range
  <2>2. Q[c][i] \in Range(P[c]) /\ Q[c][i] # o
    <3>1. CASE c = d
      BY <1>1, <1>6, <2>1, <3>1
    <3>2. CASE c # d
      <4>1. Q[c][i] \in Range(P[c]) /\ o \in Range(P[d])
        BY <1>1, <1>6, <2>1, <3>2
      <4>2. \A p \in Range(P[d]) : p \notin Range(P[c])
        BY <3>2, ChainsApart
      <4> QED BY <4>1, <4>2
    <3> QED BY <3>1, <3>2
  <2>3. \A p \in Range(P[c]) : p \in DOMAIN A /\ A[p].status # "PAGE_FREE"
    BY OwnsIs
  <2> QED BY <1>0, <2>2, <2>3
<1>8. Q \in [Chunk -> Seq(DOMAIN B)]
  <2>1. ASSUME NEW c \in Chunk PROVE Q[c] \in Seq(DOMAIN B)
    <3>1. Len(Q[c]) \in Nat /\ DOMAIN Q[c] = 1..Len(Q[c]) /\ Q[c] \in Seq(DOMAIN A)
      <4>1. CASE c = d
        BY <1>1, <1>2, <1>3, <4>1
      <4>2. CASE c # d
        <5>1. Len(P[c]) \in Nat /\ DOMAIN P[c] = 1..Len(P[c]) /\ P[c] \in Seq(DOMAIN A)
          BY OwnsIs
        <5> QED BY <1>1, <4>2, <5>1
      <4> QED BY <4>1, <4>2
    <3>2. \A i \in DOMAIN Q[c] : Q[c][i] \in DOMAIN B
      BY <1>7
    <3> QED BY <3>1, <3>2, SeqInto
  <2>2. Q = [c \in Chunk |-> Q[c]]
    BY <1>1, <1>2 DEF OwnersOf
  <2> QED BY <2>1, <2>2
<1>9. ASSUME NEW c \in Chunk, NEW i \in DOMAIN Q[c]
      PROVE  \E k \in DOMAIN P[c] : /\ Q[c][i] = P[c][k] /\ (i = Len(Q[c]) <=> k = Len(P[c]))
                                    /\ k = IF c = d THEN i + 1 ELSE i
  <2>1. CASE c = d
    <3>1. i \in 1..(n - 1) /\ Q[c][i] = P[c][i + 1] /\ i + 1 \in 1..n
      BY <1>1, <1>3, <2>1
    <3>2. i = Len(Q[c]) <=> i + 1 = Len(P[c])
      BY <1>1, <1>2, <1>3, <2>1, <3>1
    <3> QED BY <1>2, <2>1, <3>1, <3>2
  <2>2. CASE c # d
    BY <1>1, <2>2
  <2> QED BY <2>1, <2>2
<1>10. ASSUME NEW c \in Chunk, NEW i \in DOMAIN Q[c]
       PROVE  B[Q[c][i]].status = IF i = Len(Q[c]) THEN "PAGE_END" ELSE "PAGE_PART"
  <2>1. PICK k \in DOMAIN P[c] : Q[c][i] = P[c][k] /\ (i = Len(Q[c]) <=> k = Len(P[c]))
    BY <1>9
  <2>2. A[P[c][k]].status = IF k = Len(P[c]) THEN "PAGE_END" ELSE "PAGE_PART"
    BY DEF OwnersOf
  <2> QED BY <1>7, <2>1, <2>2
<1>11. ASSUME NEW c \in Chunk, NEW e \in Chunk, NEW i \in DOMAIN Q[c], NEW j \in DOMAIN Q[e],
              Q[c][i] = Q[e][j]
       PROVE  c = e /\ i = j
  <2>1. PICK k \in DOMAIN P[c] : Q[c][i] = P[c][k] /\ k = IF c = d THEN i + 1 ELSE i
    BY <1>9
  <2>2. PICK l \in DOMAIN P[e] : Q[e][j] = P[e][l] /\ l = IF e = d THEN j + 1 ELSE j
    BY <1>9
  <2>3. c = e /\ k = l
    <3>1. P[c][k] = P[e][l]
      BY <1>11, <2>1, <2>2
    <3>2. P[c][k] = P[e][l] => c = e /\ k = l
      BY DEF OwnersOf
    <3> QED BY <3>1, <3>2
  <2>4. i \in Nat /\ j \in Nat
    <3>1. DOMAIN Q[c] \subseteq Nat
      <4>1. Q[c] \in Seq(DOMAIN B)
        BY <1>8
      <4> QED BY <4>1
    <3>2. DOMAIN Q[e] \subseteq Nat
      <4>1. Q[e] \in Seq(DOMAIN B)
        BY <1>8
      <4> QED BY <4>1
    <3> QED BY <3>1, <3>2
  <2> QED BY <2>1, <2>2, <2>3, <2>4
<1>12. ASSUME NEW p \in DOMAIN B, B[p].status # "PAGE_FREE" PROVE \E c \in Chunk : p \in Range(Q[c])
  <2>1. p \in DOMAIN A /\ A[p].status # "PAGE_FREE" /\ p # o
    BY <1>0, <1>12
  <2>2. PICK c \in Chunk : p \in Range(P[c])
    BY <2>1 DEF OwnersOf
  <2> QED BY <1>1, <1>6, <2>1, <2>2
<1>13. OwnersOf(B, Q)
  BY <1>8, <1>10, <1>11, <1>12 DEF OwnersOf
<1> QED BY <1>1, <1>2, <1>5, <1>6, <1>13 DEF ChainFreed, t

\* More free locations change nothing.
LEMMA GrowOwners ==
    ASSUME NEW A, NEW B, NEW P, OwnersOf(A, P), \A p \in DOMAIN A : p \in DOMAIN B /\ B[p] = A[p],
           \A p \in DOMAIN B \ DOMAIN A : B[p].status = "PAGE_FREE"
    PROVE  OwnersOf(B, P)
<1>1. P \in [Chunk -> Seq(DOMAIN B)]
  <2>1. P \in [Chunk -> Seq(DOMAIN A)] /\ DOMAIN A \subseteq DOMAIN B
    BY DEF OwnersOf
  <2>2. ASSUME NEW c \in Chunk PROVE P[c] \in Seq(DOMAIN B)
    BY <2>1, SeqMonotonic
  <2> QED BY <2>1, <2>2
<1>2. ASSUME NEW c \in Chunk, NEW i \in DOMAIN P[c] PROVE B[P[c][i]] = A[P[c][i]]
  BY OwnsIs
<1> QED BY <1>1, <1>2 DEF OwnersOf

-----------------------------------------------------------------------------
(* Steps.                                                                  *)

LEMMA LayoutIs ==
    ASSUME Layout
    PROVE  /\ SwapSize \in Nat /\ Tiles(all_space, SwapSize) /\ SwapSize % PageFileSize = 0
           /\ SwapSize % MemoryAlignment = 0 /\ pageFileNumber \in Nat \ {0}
           /\ Offsets = DOMAIN all_space /\ Offsets \in SUBSET Nat
           /\ Offsets \subseteq 0..(SwapSize - 1)
           /\ free_space = FreeOf(all_space)
           /\ \A o \in Offsets : IsFree(o) <=> all_space[o].status = "PAGE_FREE"
<1>1. SwapSize \in Nat /\ SwapSize % PageFileSize = 0 /\ Tiles(all_space, SwapSize)
      /\ pageFileNumber \in Nat \ {0}
  BY SwapSizeIs DEF Layout
<1>2. Offsets \subseteq 0..(SwapSize - 1) /\ Offsets = DOMAIN all_space
  BY <1>1 DEF Tiles, Offsets
<1>3. SwapSize % MemoryAlignment = 0
  <2>1. SwapSize \in Int
    BY <1>1
  <2> QED BY <1>1, <2>1, Constants, MultipleOfMultiple
<1>4. free_space = FreeOf(all_space)
  BY DEF Layout, FreeOf, IsFree, Offsets
<1> QED BY <1>1, <1>2, <1>3, <1>4 DEF IsFree

\* What is free is not in use.
LEMMA FreeOfIs ==
    ASSUME NEW A, NEW P, OwnersOf(A, P), NEW c \in Chunk, NEW o \in FreeOf(A)
    PROVE  o \notin Range(P[c])
BY OwnsIs DEF FreeOf

\* What a chunk holds does not change if its chain and its locations stay.
LEMMA LeftStays ==
    ASSUME NEW A, NEW B, NEW P, NEW Q, NEW end \in Nat, Tiles(A, end), OwnersOf(A, P), NEW c \in Chunk,
           Q[c] = P[c], \A o \in Range(P[c]) : o \in DOMAIN B /\ B[o] = A[o]
    PROVE  Total(SizesOf(B), Range(Q[c])) = Total(SizesOf(A), Range(P[c]))
<1>1. \A o \in Range(P[c]) : o \in DOMAIN A
  BY OwnsIs
<1>2. \A o \in Range(P[c]) : SizesOf(B)[o] = SizesOf(A)[o]
  BY <1>1 DEF SizesOf
<1> QED BY <1>2, TotalSame

\* The claims on swapFree.
LEMMA Claims ==
    ASSUME NEW b \in [Chunk -> BOOLEAN], NEW c \in Chunk
    PROVE  LET C(B) == Total(Size, {d \in Chunk : B[d]})
           IN  /\ C(b) \in Nat
               /\ ~ b[c] => C([b EXCEPT ![c] = TRUE]) = C(b) + Size[c]
               /\ b[c] => C([b EXCEPT ![c] = FALSE]) = C(b) - Size[c]
<1> DEFINE S == {d \in Chunk : b[d]}
           T == {d \in Chunk : [b EXCEPT ![c] = TRUE][d]}
           U == {d \in Chunk : [b EXCEPT ![c] = FALSE][d]}
<1>1. \A X \in SUBSET Chunk : Weights(Size, X) /\ Total(Size, X) \in Nat
  <2>1. ASSUME NEW X \in SUBSET Chunk PROVE Weights(Size, X) /\ Total(Size, X) \in Nat
    <3>1. IsFiniteSet(X) /\ \A x \in X : Size[x] \in Nat
      BY Constants, FS_Subset
    <3> QED BY <3>1, TotalType DEF Weights
  <2> QED BY <2>1
<1>2. S \in SUBSET Chunk /\ T = S \cup {c} /\ U = S \ {c} /\ (b[c] <=> c \in S)
  OBVIOUS
<1> HIDE DEF S, T, U
<1>3. Size[c] \in Nat
  BY Constants
<1>4. Total(Size, S) \in Nat
  BY <1>1, <1>2
<1>5. c \notin S => Total(Size, T) = Total(Size, S) + Size[c]
  BY <1>1, <1>2, <1>3, TotalMore
<1>6. c \in S => Total(Size, U) = Total(Size, S) - Size[c]
  BY <1>1, <1>2, TotalLess
<1> QED BY <1>2, <1>4, <1>5, <1>6 DEF S, T, U

LEMMA Claimed == Total(Size, {c \in Chunk : booked[c]}) \in Nat
<1>1. IsFiniteSet({c \in Chunk : booked[c]}) /\ \A c \in Chunk : Size[c] \in Nat
  BY Constants, FS_Subset
<1> QED BY <1>1, TotalType DEF Weights

\* Two changes of swapFree, in unsigned arithmetic.
LEMMA ExactMoves ==
    ASSUME NEW s \in Int, NEW d \in Int
    PROVE  ((s % Modulus) + d) % Modulus = (s + d) % Modulus
BY Constants, ModSum

LEMMA StoredIs == ASSUME Layout PROVE Stored \in Nat /\ Spare \in Nat
<1>1. Tiles(all_space, SwapSize) /\ SwapSize \in Nat /\ Offsets = DOMAIN all_space
  BY LayoutIs
<1>2. FreeOf(all_space) \in SUBSET DOMAIN all_space
  BY DEF FreeOf
<1> QED BY <1>1, <1>2, MapWeights DEF Stored, Spare
\* pfmalloc keeps everything in order.
LEMMA AllocStep ==
    ASSUME Layout, Owners, Whole, Exact, booked \in [Chunk -> BOOLEAN],
           NEW c \in Chunk, parts[c] = <<>>, NEW taken, NEW last, NEW left,
           last \in free_space, taken \subseteq free_space \ {last}, \A f \in taken : f < last,
           left \in Nat \ {0}, left <= all_space[last].size, left % MemoryAlignment = 0,
           Total(SizesOf(all_space), taken) + left = Size[c],
           AllocAt(c, taken, last, left), UNCHANGED <<pageFileNumber, deleting>>,
           op.freeing = NoChunk, op'.freeing = NoChunk
    PROVE  /\ Layout' /\ Owners' /\ Whole' /\ Exact'
           /\ parts'[c] # <<>> /\ booked' = [booked EXCEPT ![c] = TRUE]
           /\ parts' = [parts EXCEPT ![c] = parts'[c]]
           /\ \A p \in Offsets : ~ IsFree(p) => p \in DOMAIN all_space' /\ all_space'[p] = all_space[p]
<1>0. PICK A, B, end : A = all_space /\ B = all_space' /\ end = SwapSize
  OBVIOUS
<1> DEFINE S == taken \cup {last}
           q == Ascending(S)
           g == IF A[last].size - left < LocationSize THEN A[last].size - left ELSE 0
<1>1. /\ end \in Nat /\ Tiles(A, end) /\ Offsets = DOMAIN A /\ Offsets \in SUBSET Nat
      /\ Offsets \subseteq 0..(end - 1) /\ free_space = FreeOf(A)
      /\ \A o \in Offsets : IsFree(o) <=> A[o].status = "PAGE_FREE"
  BY <1>0, LayoutIs
<1>2. Allots(A, end, taken, last, left)
  BY <1>0, <1>1 DEF Allots, FreeOf
<1>3. Padded(left) = left
  BY PaddedSame
<1>4. Allotted(A, B, taken, last, left)
  <2>1. PICK C : C = TakenMap(A, taken)
    OBVIOUS
  <2>2. B = AllocInFree(C, last, left, "PAGE_END")
    BY <1>0, <1>1, <2>1 DEF AllocAt, TakenMap
  <2>3. B = SplitMap(A, C, last, left)
    BY <1>0, <1>3, <2>2 DEF AllocInFree, TakesBlock, SplitMap
  <2>4. Tiles(A, end) /\ end \in Nat
    BY <1>1
  <2> QED BY <1>2, <2>1, <2>3, <2>4, AllotsMap
<1> HIDE DEF S, q, g
<1>5. Tiles(A, end) /\ end \in Nat /\ Tiles(B, end)
  <2>1. Tiles(A, end) /\ end \in Nat
    BY <1>1
  <2> QED BY <1>2, <1>4, <2>1, AllotsTiles
<1>6. /\ \A o \in DOMAIN A : /\ o \in DOMAIN B
                             /\ B[o].status = "PAGE_FREE" => A[o].status = "PAGE_FREE"
                             /\ o = last \/ o \in taken => B[o].status # "PAGE_FREE"
                             /\ o # last /\ o \notin taken => B[o].status = A[o].status
  <2>1. StatusMoves(A, B, taken, last)
    BY <1>2, <1>4, <1>5, AllotsStatus
  <2> QED BY <2>1 DEF StatusMoves
<1>7. /\ g \in Nat /\ Total(SizesOf(B), DOMAIN B) = Total(SizesOf(A), DOMAIN A) - g
      /\ S \subseteq DOMAIN B /\ Total(SizesOf(B), S) = Total(SizesOf(A), taken) + left
      /\ \A p \in DOMAIN A : A[p].status # "PAGE_FREE" => p \in DOMAIN B /\ B[p] = A[p]
      /\ \A p \in DOMAIN B : B[p].status # "PAGE_FREE" =>
             p \in S \/ (p \in DOMAIN A /\ A[p].status # "PAGE_FREE")
  <2>1. AllotSums(A, B, taken, last, left, g)
    BY <1>2, <1>4, <1>5, AllottedTotals DEF g
  <2> QED BY <2>1 DEF AllotSums, S
<1>8. /\ last \in DOMAIN A /\ last \notin taken /\ taken \subseteq DOMAIN A
      /\ \A p \in S : p \in DOMAIN A /\ A[p].status = "PAGE_FREE"
      /\ B[last].status = "PAGE_END" /\ \A p \in taken : B[p].status = "PAGE_PART"
      /\ A[last].size \in Nat /\ left \in Nat
  <2>1. last \in DOMAIN A /\ last \notin taken /\ taken \subseteq DOMAIN A
        /\ \A p \in S : p \in DOMAIN A /\ A[p].status = "PAGE_FREE"
    BY <1>2 DEF Allots, S
  <2>2. B[last].status = "PAGE_END" /\ \A p \in taken : B[p].status = "PAGE_PART"
    <3>1. /\ B[last] = Location(left, "PAGE_END")
          /\ \A p \in taken : B[p] = Location(A[p].size, "PAGE_PART")
      BY <1>4 DEF Allotted
    <3>2. \A s, t : Location(s, t).status = t
      BY DEF Location
    <3> QED BY <3>1, <3>2
  <2>3. A[last].size \in Nat
    BY <1>1, <2>1 DEF Tiles, IsMap
  <2> QED BY <2>1, <2>2, <2>3
<1>9. /\ free_space' = (free_space \ S) \cup Rest(last, left)
      /\ parts' = [parts EXCEPT ![c] = q] /\ aio' = aio \cup S
      /\ swapFree' = (swapFree - Overhead(last, left) - Size[c]) % Modulus
      /\ booked' = [booked EXCEPT ![c] = TRUE]
  BY DEF AllocAt, S, q
<1>10. free_space' = FreeOf(B)
  <2>1. DOMAIN B = DOMAIN A \cup Rest(last, left) /\ Rest(last, left) \cap DOMAIN A = {}
        /\ \A p \in Rest(last, left) : B[p].status = "PAGE_FREE"
    <3>1. Rest(last, left) = IF A[last].size - left < LocationSize THEN {} ELSE {last + left}
      BY <1>0, <1>3 DEF Rest, TakesBlock
    <3> QED BY <1>4, <3>1 DEF Allotted, Location
  <2>2. ASSUME NEW p PROVE p \in free_space' <=> p \in FreeOf(B)
    <3>1. CASE p \in Rest(last, left)
      BY <1>9, <2>1, <3>1 DEF FreeOf
    <3>2. CASE p \in DOMAIN A
      BY <1>1, <1>6, <1>9, <2>1, <3>2 DEF FreeOf, S
    <3>3. CASE p \notin DOMAIN B
      BY <1>1, <1>9, <2>1, <3>3 DEF FreeOf
    <3> QED BY <2>1, <3>1, <3>2, <3>3
  <2> QED BY <2>2
<1>11. Layout'
  <2>1. SwapSize' = end /\ pageFileNumber' = pageFileNumber
    BY <1>0 DEF SwapSize
  <2>2. pageFileNumber' \in InitialFiles..MaxFiles
    BY <2>1 DEF Layout
  <2>3. free_space' = {o \in Offsets : IsFree(o)}'
    BY <1>0, <1>10 DEF FreeOf, IsFree, Offsets
  <2> QED BY <1>0, <1>5, <2>1, <2>2, <2>3 DEF Layout
<1>12. /\ q \in Seq(S) /\ Range(q) = S /\ \A i, j \in DOMAIN q : q[i] = q[j] => i = j
       /\ Len(q) \in Nat \ {0} /\ q[Len(q)] = last /\ DOMAIN q = 1..Len(q)
  <2>1. S \in SUBSET Nat /\ last \in S /\ \A x \in S : x <= end
    <3>1. \A x \in S : x \in 0..(end - 1)
      BY <1>1, <1>8
    <3> QED BY <1>1, <3>1 DEF S
  <2>2. \A x \in S : x <= last
    BY <2>1 DEF S
  <2> QED BY <1>1, <2>1, <2>2, AscendingIs DEF q
<1>13. OwnersOf(A, parts)
  BY <1>0 DEF Owners
<1>14. OwnersOf(B, parts')
  <2>1. OwnersOf(B, [parts EXCEPT ![c] = q])
    <3>1. GetsChain(A, B, taken, last, q)
      BY <1>7, <1>8, <1>12 DEF S, GetsChain
    <3>2. parts[c] = <<>>
      OBVIOUS
    <3> QED BY <1>13, <3>1, <3>2, AllocOwners
  <2> QED BY <1>9, <2>1
<1>15. /\ parts'[c] = q /\ q # <<>> /\ \A d \in Chunk : d # c => parts'[d] = parts[d]
       /\ parts' = [parts EXCEPT ![c] = parts'[c]]
  <2>1. DOMAIN parts = Chunk
    BY <1>13 DEF OwnersOf
  <2>2. q # <<>>
    BY <1>12
  <2> QED BY <1>9, <2>1, <2>2
<1>16. Owners'
  <2>1. \A p \in aio : p \in Offsets /\ A[p].status # "PAGE_FREE"
    BY <1>0, <1>1 DEF Owners
  <2>2. \A p \in aio \cup S : p \in DOMAIN B /\ B[p].status # "PAGE_FREE"
    BY <1>1, <1>6, <1>7, <1>8, <2>1 DEF S
  <2>3. aio' \subseteq {o \in Offsets : ~IsFree(o)}'
    BY <1>0, <1>9, <2>2 DEF Offsets, IsFree
  <2> QED BY <1>0, <1>14, <2>3 DEF Owners
<1>17. Whole'
  <2>1. ASSUME NEW d \in Chunk, d # c
        PROVE  /\ Left(d)' = Left(d)
               /\ Range(parts'[d]) \cap aio' = Range(parts[d]) \cap aio
    <3>1. \A o \in Range(parts[d]) : o \in DOMAIN A /\ A[o].status # "PAGE_FREE"
      BY <1>13, OwnsIs
    <3>2. \A o \in Range(parts[d]) : o \in DOMAIN B /\ B[o] = A[o]
      BY <1>7, <3>1
    <3>3. Total(SizesOf(B), Range(parts'[d])) = Total(SizesOf(A), Range(parts[d]))
      BY <1>1, <1>13, <1>15, <2>1, <3>2, LeftStays
    <3>4. Range(parts[d]) \cap S = {}
      BY <1>8, <3>1
    <3> QED BY <1>0, <1>9, <1>15, <2>1, <3>3, <3>4 DEF Left
  <2>2. Left(c)' = Size[c]
    BY <1>0, <1>7, <1>12, <1>15 DEF Left
  <2>3. /\ booked'[c] /\ \A d \in Chunk : d # c => booked'[d] = booked[d]
    BY <1>9
  <2>4. ASSUME NEW d \in Chunk
        PROVE  /\ parts'[d] # <<>> /\ d \notin deleting' /\ op'.freeing # d => Left(d)' = Size[d]
               /\ booked'[d] => parts'[d] # <<>>
               /\ ~booked'[d] => Range(parts'[d]) \cap aio' = {}
    <3>1. CASE d = c
      BY <1>15, <2>2, <2>3, <3>1
    <3>2. CASE d # c
      <4>1. /\ parts[d] # <<>> /\ d \notin deleting /\ op.freeing # d => Left(d) = Size[d]
            /\ booked[d] => parts[d] # <<>>
            /\ ~booked[d] => Range(parts[d]) \cap aio = {}
        BY DEF Whole
      <4>2. op.freeing # d /\ deleting' = deleting /\ parts'[d] = parts[d] /\ booked'[d] = booked[d]
        BY <1>15, <2>3, <3>2, Constants
      <4> QED BY <2>1, <3>2, <4>1, <4>2
    <3> QED BY <3>1, <3>2
  <2> QED BY <2>4 DEF Whole
<1>18. Exact'
  <2>1. ~ booked[c]
    BY DEF Whole
  <2>2. /\ Total(Size, {d \in Chunk : booked'[d]}) = Total(Size, {d \in Chunk : booked[d]}) + Size[c]
        /\ Total(Size, {d \in Chunk : booked[d]}) \in Nat
    BY <1>9, <2>1, Claims
  <2>3. Overhead(last, left) = g
    <3>1. CASE A[last].size - left < LocationSize
      BY <1>0, <1>3, <3>1 DEF Overhead, TakesBlock, g
    <3>2. CASE ~ (A[last].size - left < LocationSize)
      BY <1>0, <1>3, <1>8, <3>2 DEF Overhead, TakesBlock, g
    <3> QED BY <3>1, <3>2
  <2>4. Total(SizesOf(A), DOMAIN A) \in Nat
    BY <1>1, MapWeights
  <2>5. PICK t \in Nat, k \in Nat, s \in Nat :
           /\ t = Total(SizesOf(A), DOMAIN A) /\ k = Total(Size, {d \in Chunk : booked[d]})
           /\ s = Size[c]
    BY <2>2, <2>4, Constants
  <2>6. swapFree = (t - k) % Modulus
    BY <1>0, <1>1, <2>5 DEF Exact, Stored
  <2>7. swapFree' = (((t - k) % Modulus) + (- g - s)) % Modulus
    <3>1. ((t - k) % Modulus) \in Int
      BY Constants, DivMod
    <3>2. PICK x \in Int : x = (t - k) % Modulus
      BY <3>1
    <3>3. x - g - s = x + (- g - s)
      BY <1>7
    <3> QED BY <1>9, <2>3, <2>5, <2>6, <3>2, <3>3
  <2>8. swapFree' = ((t - k) + (- g - s)) % Modulus
    BY <1>7, <2>7, ExactMoves
  <2>9. (t - k) + (- g - s) = (t - g) - (k + s)
    BY <1>7
  <2>10. Stored' = t - g
    BY <1>0, <1>7, <2>5 DEF Stored, Offsets
  <2>11. Total(Size, {d \in Chunk : booked[d]})' = k + s
    BY <2>2, <2>5
  <2> QED BY <2>8, <2>9, <2>10, <2>11 DEF Exact
<1>19. \A p \in Offsets : ~ IsFree(p) => p \in DOMAIN all_space' /\ all_space'[p] = all_space[p]
  BY <1>0, <1>1, <1>7
<1> QED BY <1>9, <1>11, <1>15, <1>16, <1>17, <1>18, <1>19


\* pffree keeps everything in order, and leaves the other locations in use alone.
LEMMA FreeStep ==
    ASSUME PageInv, FreeNext
    PROVE  /\ PageInv'
           /\ op.freeing \in Chunk /\ parts[op.freeing] # <<>>
           /\ Head(parts[op.freeing]) \in Range(parts[op.freeing])
           /\ Range(parts'[op.freeing]) = Range(parts[op.freeing]) \ {Head(parts[op.freeing])}
           /\ \A p \in Offsets : p # Head(parts[op.freeing]) /\ ~ IsFree(p) =>
                  p \in DOMAIN all_space' /\ all_space'[p] = all_space[p]
<1>0. PICK A, B, end, d, o, back :
         /\ A = all_space /\ B = all_space' /\ end = SwapSize /\ d = op.freeing
         /\ o = Head(parts[d]) /\ back = IF Len(parts[d]) = 1 /\ booked[d] THEN Size[d] ELSE 0
  OBVIOUS
<1>1. Layout /\ Owners /\ Whole /\ Working /\ Promised /\ Exact
  BY DEF PageInv
<1>2. /\ d \in Chunk /\ parts[d] # <<>> /\ o \notin aio /\ PfFree(o, back)
      /\ parts' = [parts EXCEPT ![d] = Tail(parts[d])]
      /\ booked' = [booked EXCEPT ![d] = booked[d] /\ ~ (Len(parts[d]) = 1)]
      /\ deleting' = IF Len(parts[d]) = 1 THEN deleting \ {d} ELSE deleting
      /\ op' = IF ~ (Len(parts[d]) = 1) THEN op
               ELSE IF op.kind \in {"discard", "delete"} THEN NoOp
               ELSE [op EXCEPT !.freeing = NoChunk]
      /\ pageFileNumber' = pageFileNumber /\ aio' = aio
  BY <1>0, <1>1 DEF FreeNext, Working
<1>3. /\ op.kind \in {"pfmalloc", "cleanup", "discard", "delete"}
      /\ op.kind = "delete" <=> d \in deleting
      /\ op.kind = "delete" <=> booked[d]
  BY <1>0, <1>1, <1>2, Constants DEF Working
<1>4. /\ end \in Nat /\ Tiles(A, end) /\ end % MemoryAlignment = 0
      /\ Offsets = DOMAIN A /\ Offsets \in SUBSET Nat /\ free_space = FreeOf(A)
      /\ \A p \in Offsets : IsFree(p) <=> A[p].status = "PAGE_FREE"
  BY <1>0, <1>1, LayoutIs
<1>5. OwnersOf(A, parts) /\ \A p \in aio : p \in DOMAIN A /\ A[p].status # "PAGE_FREE"
  BY <1>0, <1>1, <1>4 DEF Owners
<1>6. o \in Offsets /\ A[o].status # "PAGE_FREE" /\ ~ IsFree(o)
  <2>1. /\ parts[d] \in Seq(DOMAIN A) /\ Len(parts[d]) \in Nat /\ Len(parts[d]) # 0
        /\ DOMAIN parts[d] = 1..Len(parts[d])
        /\ \A i \in DOMAIN parts[d] : parts[d][i] \in DOMAIN A /\ parts[d][i] \in Range(parts[d])
        /\ \A p \in Range(parts[d]) : p \in DOMAIN A /\ A[p].status # "PAGE_FREE"
    BY <1>2, <1>5, OwnsIs
  <2>2. o = parts[d][1] /\ 1 \in DOMAIN parts[d]
    BY <1>0, <2>1
  <2> QED BY <1>4, <2>1, <2>2
<1>7. PICK f \in Nat, m \in Nat, g \in Nat :
         /\ Merges(A, end, f, m) /\ Merged(A, B, f, m) /\ f <= o /\ o < m
         /\ free_space' = FreeOf(B)
         /\ swapFree' = (swapFree + g + back) % Modulus
         /\ \A p \in Block(A, f, m) \ {o} : A[p].status = "PAGE_FREE"
         /\ Total(SizesOf(A), Block(A, f, m)) + g = m - f
  <2>1. PICK f1, m1, g1 \in Nat :
           /\ Merges(all_space, SwapSize, f1, m1) /\ Merged(all_space, all_space', f1, m1)
           /\ f1 <= o /\ o < m1
           /\ free_space' = {p \in DOMAIN all_space' : all_space'[p].status = "PAGE_FREE"}
           /\ swapFree' = (swapFree + g1 + back) % Modulus
           /\ \A p \in Block(all_space, f1, m1) \ {o} : IsFree(p)
           /\ Total(SizesOf(all_space), Block(all_space, f1, m1)) + g1 = m1 - f1
    BY <1>1, <1>2, <1>6, FreesBlock
  <2>2. free_space' = FreeOf(B)
    BY <1>0, <2>1 DEF FreeOf
  <2>3. \A p \in Block(A, f1, m1) \ {o} : A[p].status = "PAGE_FREE"
    BY <1>0, <2>1 DEF IsFree
  <2> QED BY <1>0, <2>1, <2>2, <2>3
<1>8. /\ OnlyFreed(A, B, o)
      /\ Total(SizesOf(B), DOMAIN B) = Total(SizesOf(A), DOMAIN A) + g
      /\ Total(SizesOf(B), FreeOf(B)) = Total(SizesOf(A), FreeOf(A)) + A[o].size + g
      /\ \A p \in DOMAIN A : p # o /\ A[p].status # "PAGE_FREE" => p \in DOMAIN B /\ B[p] = A[p]
      /\ \A p \in DOMAIN B : B[p].status # "PAGE_FREE" =>
             p \in DOMAIN A /\ A[p].status # "PAGE_FREE" /\ p # o
  <2>1. Tiles(A, end) /\ end \in Nat /\ FreesOf(A, f, m, o, g)
    BY <1>4, <1>6, <1>7 DEF FreesOf
  <2>2. Merges(A, end, f, m) /\ Merged(A, B, f, m)
    BY <1>7
  <2>3. MergeSums(A, B, o, g) /\ OnlyFreed(A, B, o)
    BY <2>1, <2>2, MergedTotals
  <2> QED BY <2>3 DEF MergeSums, OnlyFreed
<1>9. Tiles(B, end)
  BY <1>4, <1>7, MergesTiles
<1>10. Layout'
  <2>1. SwapSize' = end /\ pageFileNumber' \in InitialFiles..MaxFiles
    BY <1>0, <1>1, <1>2 DEF SwapSize, Layout
  <2>2. free_space' = {p \in Offsets : IsFree(p)}'
    BY <1>0, <1>7 DEF FreeOf, IsFree, Offsets
  <2> QED BY <1>0, <1>9, <2>1, <2>2 DEF Layout
<1>11. /\ OwnersOf(B, parts') /\ o \in Range(parts[d])
       /\ parts'[d] = Tail(parts[d]) /\ \A c \in Chunk : c # d => parts'[c] = parts[c]
       /\ Range(parts'[d]) = Range(parts[d]) \ {o}
       /\ Len(parts[d]) = 1 <=> parts'[d] = <<>>
  <2>1. ChainFreed(A, B, parts, parts', d, o)
    BY <1>0, <1>2, <1>5, <1>8, FreeOwners
  <2> QED BY <2>1 DEF ChainFreed
<1>12. Owners'
  <2>1. \A p \in aio : p \in DOMAIN B /\ B[p].status # "PAGE_FREE"
    BY <1>2, <1>5, <1>8
  <2>2. aio' \subseteq {p \in Offsets : ~ IsFree(p)}'
    BY <1>0, <1>2, <2>1 DEF Offsets, IsFree
  <2> QED BY <1>0, <1>11, <2>2 DEF Owners
<1>13. /\ Left(d) \in Nat /\ A[o].size \in Nat
       /\ Left(d)' = Left(d) - A[o].size
       /\ parts'[d] = <<>> => Left(d)' = 0
  <2>1. /\ Range(parts[d]) \in SUBSET DOMAIN A /\ \A p \in Range(parts[d]) : A[p].status # "PAGE_FREE"
    BY <1>2, <1>5, OwnsIs
  <2>2. /\ Weights(SizesOf(A), Range(parts[d])) /\ Total(SizesOf(A), Range(parts[d])) \in Nat
        /\ SizesOf(A)[o] = A[o].size /\ A[o].size \in Nat
    BY <1>4, <1>6, <2>1, MapWeights
  <2>3. Total(SizesOf(A), Range(parts[d]) \ {o}) = Total(SizesOf(A), Range(parts[d])) - A[o].size
    <3>1. o \in Range(parts[d]) /\ Weights(SizesOf(A), Range(parts[d]))
      BY <1>11, <2>2
    <3>2. Total(SizesOf(A), Range(parts[d]) \ {o})
             = Total(SizesOf(A), Range(parts[d])) - SizesOf(A)[o]
      BY <3>1, TotalLess
    <3> QED BY <2>2, <3>2
  <2>4. \A p \in Range(parts[d]) \ {o} : SizesOf(B)[p] = SizesOf(A)[p]
    BY <1>8, <2>1 DEF SizesOf
  <2>5. Total(SizesOf(B), Range(parts[d]) \ {o}) = Total(SizesOf(A), Range(parts[d]) \ {o})
    BY <2>4, TotalSame
  <2>6. Left(d) = Total(SizesOf(A), Range(parts[d])) /\ Left(d)' = Total(SizesOf(B), Range(parts'[d]))
    BY <1>0 DEF Left
  <2>7. parts'[d] = <<>> => Range(parts'[d]) = {}
    BY <1>2, <1>11, ChainsApart
  <2> QED BY <1>11, <2>2, <2>3, <2>5, <2>6, <2>7, TotalNone
<1>14. \A c \in Chunk : c # d => Left(c)' = Left(c)
  <2>1. ASSUME NEW c \in Chunk, c # d PROVE Left(c)' = Left(c)
    <3>1. \A p \in Range(parts[c]) : p \in DOMAIN A /\ A[p].status # "PAGE_FREE" /\ p # o
      <4>1. \A p \in Range(parts[c]) : p \in DOMAIN A /\ A[p].status # "PAGE_FREE"
        BY <1>5, ChainsApart
      <4>2. \A p \in Range(parts[c]) : p \notin Range(parts[d])
        BY <1>2, <1>5, <2>1, ChainsApart
      <4> QED BY <1>11, <4>1, <4>2
    <3>2. \A p \in Range(parts[c]) : p \in DOMAIN B /\ B[p] = A[p]
      BY <1>8, <3>1
    <3>3. Total(SizesOf(B), Range(parts'[c])) = Total(SizesOf(A), Range(parts[c]))
      BY <1>4, <1>5, <1>11, <2>1, <3>2, LeftStays
    <3> QED BY <1>0, <3>3 DEF Left
  <2> QED BY <2>1
<1>15. booked \in [Chunk -> BOOLEAN]
       /\ booked'[d] = (booked[d] /\ ~ (Len(parts[d]) = 1))
       /\ \A c \in Chunk : c # d => booked'[c] = booked[c]
  BY <1>1, <1>2 DEF Working
<1>16. Whole'
  <2>1. ASSUME NEW c \in Chunk
        PROVE  /\ parts'[c] # <<>> /\ c \notin deleting' /\ op'.freeing # c => Left(c)' = Size[c]
               /\ booked'[c] => parts'[c] # <<>>
               /\ ~ booked'[c] => Range(parts'[c]) \cap aio' = {}
    <3>1. /\ parts[c] # <<>> /\ c \notin deleting /\ op.freeing # c => Left(c) = Size[c]
          /\ booked[c] => parts[c] # <<>>
          /\ ~ booked[c] => Range(parts[c]) \cap aio = {}
      BY <1>1 DEF Whole
    <3>2. CASE c # d
      BY <1>0, <1>2, <1>11, <1>14, <1>15, <3>1, <3>2
    <3>3. CASE c = d /\ Len(parts[d]) = 1
      <4>1. parts'[d] = <<>> /\ Range(parts'[d]) = {}
        BY <1>2, <1>11, <3>3, ChainsApart
      <4> QED BY <1>15, <3>3, <4>1
    <3>4. CASE c = d /\ Len(parts[d]) # 1
      BY <1>0, <1>2, <1>11, <1>15, <3>1, <3>4
    <3> QED BY <3>2, <3>3, <3>4
  <2> QED BY <2>1 DEF Whole
<1>17. /\ op' = op \/ op' = NoOp \/ op' = [op EXCEPT !.freeing = NoChunk]
       /\ op'.kind = "pfmalloc" => op.kind = "pfmalloc" /\ op'.chunk = op.chunk
              /\ op'.needed = op.needed /\ op'.cleaned = op.cleaned
       /\ op'.freeing = d \/ op'.freeing = NoChunk
       /\ op'.freeing = d <=> Len(parts[d]) # 1
       /\ op'.freeing = d => op' = op
       /\ op'.kind \in {"discard", "delete"} => op'.freeing # NoChunk
       /\ op \in [kind : {"none", "pfmalloc", "cleanup", "discard", "delete", "thrown"},
               chunk : Chunk \cup {NoChunk}, freeing : Chunk \cup {NoChunk},
               needed : Nat, cleaned : Nat]
  BY <1>0, <1>1, <1>2, <1>3, Constants DEF Working, NoOp, NewOp
<1>18. Working'
  <2>1. booked' \in [Chunk -> BOOLEAN]
    BY <1>2, <1>15
  <2>2. deleting' \subseteq {c \in Chunk : booked'[c]}
    BY <1>1, <1>2, <1>15 DEF Working
  <2>3. op' \in [kind : {"none", "pfmalloc", "cleanup", "discard", "delete", "thrown"},
               chunk : Chunk \cup {NoChunk}, freeing : Chunk \cup {NoChunk},
               needed : Nat, cleaned : Nat]
    BY <1>17 DEF NoOp, NewOp
  <2>4. op'.freeing # NoChunk =>
          /\ op'.kind \in {"pfmalloc", "cleanup", "discard", "delete"}
          /\ parts'[op'.freeing] # <<>>
          /\ op'.kind = "delete" <=> op'.freeing \in deleting'
          /\ op'.kind = "delete" <=> booked'[op'.freeing]
    BY <1>2, <1>3, <1>11, <1>15, <1>17
  <2>5. op'.kind = "pfmalloc" => op'.chunk \in Chunk /\ parts'[op'.chunk] = <<>>
    <3>1. op.kind = "pfmalloc" => op.chunk \in Chunk /\ parts[op.chunk] = <<>> /\ op.chunk # d
      BY <1>1, <1>2 DEF Working
    <3> QED BY <1>11, <1>17, <3>1
  <2> QED BY <1>17, <2>1, <2>2, <2>3, <2>4, <2>5 DEF Working
<1>19. Promised'
  <2>1. Spare' = Spare + A[o].size + g /\ Spare \in Nat
    <3>1. FreeOf(A) \in SUBSET DOMAIN A
      BY DEF FreeOf
    <3>2. Total(SizesOf(A), FreeOf(A)) \in Nat
      BY <1>4, <3>1, MapWeights
    <3> QED BY <1>0, <1>8, <3>2 DEF Spare
  <2>2. ASSUME op'.kind = "pfmalloc"
        PROVE  Size[op'.chunk] - op'.needed + op'.cleaned <=
                   Spare' + (IF op'.freeing = NoChunk THEN 0 ELSE (Left(op.freeing))')
    <3>1. Size[op.chunk] - op.needed + op.cleaned <= Spare + Left(d)
      BY <1>0, <1>1, <1>2, <1>17, <2>2, Constants DEF Promised
    <3>2. op.chunk \in Chunk
      BY <1>1, <1>17, <2>2 DEF Working
    <3>3. PICK k \in Int, s \in Nat, l \in Nat, z \in Nat :
             /\ k = Size[op.chunk] - op.needed + op.cleaned
             /\ s = Spare /\ l = Left(d) /\ z = A[o].size
      <4>1. Size[op.chunk] \in Nat /\ op.needed \in Nat /\ op.cleaned \in Nat
        BY <1>17, <3>2, Constants
      <4>2. Size[op.chunk] - op.needed + op.cleaned \in Int
        BY <4>1
      <4>3. Spare \in Nat /\ Left(d) \in Nat /\ A[o].size \in Nat
        BY <1>13, <2>1
      <4> HIDE DEF Spare, Left
      <4> QED BY <4>2, <4>3
    <3>4. k <= s + l /\ Spare' = s + z + g /\ Left(d)' = l - z
      BY <1>13, <2>1, <3>1, <3>3
    <3>5. k = Size[op'.chunk] - op'.needed + op'.cleaned
      BY <1>17, <2>2, <3>3
    <3>6. CASE op'.freeing = NoChunk
      <4>1. l = z
        <5>1. op'.freeing # d
          BY <1>2, <3>6, Constants
        <5>2. parts'[d] = <<>>
          BY <1>11, <1>17, <5>1
        <5>3. l - z = 0
          BY <1>13, <3>4, <5>2
        <5> QED BY <3>3, <5>3
      <4> QED BY <3>4, <3>5, <3>6, <4>1
    <3>7. CASE op'.freeing # NoChunk
      <4>1. (Left(op.freeing))' = Left(d)'
        BY <1>17, <3>7 DEF Left
      <4> QED BY <3>4, <3>5, <3>7, <4>1
    <3> QED BY <3>6, <3>7
  <2> QED BY <2>2 DEF Promised
<1>20. Exact'
  <2>1. PICK t \in Nat, k \in Nat :
           t = Total(SizesOf(A), DOMAIN A) /\ k = Total(Size, {c \in Chunk : booked[c]})
    <3>1. Total(SizesOf(A), DOMAIN A) \in Nat
      BY <1>4, MapWeights
    <3>2. Total(Size, {c \in Chunk : booked[c]}) \in Nat
      BY <1>2, <1>15, Claims
    <3> QED BY <3>1, <3>2
  <2>2. back \in Nat /\ Total(Size, {c \in Chunk : booked'[c]}) = k - back
    <3>1. CASE Len(parts[d]) = 1 /\ booked[d]
      <4>1. booked' = [booked EXCEPT ![d] = FALSE]
        BY <1>2, <3>1
      <4>2. back = Size[d] /\ back \in Nat
        BY <1>0, <1>2, <3>1, Constants
      <4>3. Total(Size, {c \in Chunk : [booked EXCEPT ![d] = FALSE][c]})
               = Total(Size, {c \in Chunk : booked[c]}) - Size[d]
        BY <1>2, <1>15, <3>1, Claims
      <4> QED BY <2>1, <4>1, <4>2, <4>3
    <3>2. CASE ~ (Len(parts[d]) = 1 /\ booked[d])
      <4>1. booked' = booked /\ back = 0
        BY <1>0, <1>2, <1>15, <3>2
      <4> QED BY <2>1, <4>1
    <3> QED BY <3>1, <3>2
  <2>3. swapFree = (t - k) % Modulus
    BY <1>0, <1>1, <1>4, <2>1 DEF Exact, Stored
  <2>4. swapFree' = ((t - k) + (g + back)) % Modulus
    <3>1. ((t - k) % Modulus) \in Int
      BY Constants, DivMod
    <3>2. PICK x \in Int : x = (t - k) % Modulus
      BY <3>1
    <3>3. x + g + back = x + (g + back)
      BY <2>2
    <3>4. swapFree' = (((t - k) % Modulus) + (g + back)) % Modulus
      BY <1>7, <2>3, <3>2, <3>3
    <3> QED BY <2>2, <3>4, ExactMoves
  <2>5. (t - k) + (g + back) = (t + g) - (k - back)
    BY <2>2
  <2>6. Stored' = t + g
    BY <1>0, <1>8, <2>1 DEF Stored, Offsets
  <2> QED BY <2>2, <2>4, <2>5, <2>6 DEF Exact
<1>21. \A p \in Offsets : p # Head(parts[op.freeing]) /\ ~ IsFree(p) =>
           p \in DOMAIN all_space' /\ all_space'[p] = all_space[p]
  BY <1>0, <1>4, <1>8
<1>22. /\ Head(parts[op.freeing]) \in Range(parts[op.freeing])
       /\ Range(parts'[op.freeing]) = Range(parts[op.freeing]) \ {Head(parts[op.freeing])}
  BY <1>0, <1>11
<1> QED BY <1>0, <1>2, <1>10, <1>12, <1>16, <1>18, <1>19, <1>20, <1>21, <1>22 DEF PageInv

\* The map A with a free location of a whole file at every offset of `new'.
GrownMap(A, new) ==
    [o \in DOMAIN A \cup new |-> IF o \in new THEN Location(PageFileSize, "PAGE_FREE") ELSE A[o]]

\* More files keep everything in order.
LEMMA ExtendStep ==
    ASSUME PageInv, NEW min \in Requests, Extend(min)
    PROVE  /\ PageInv' /\ parts' = parts
           /\ SwapSize \in Nat /\ SwapSize' \in Nat /\ SwapSize' > SwapSize
           /\ \A p \in Offsets : p \in DOMAIN all_space' /\ all_space'[p] = all_space[p]
<1>1. Layout /\ Owners /\ Whole /\ Working /\ Promised /\ Exact
  BY DEF PageInv
<1>2. PICK A, B, a : A = all_space /\ B = all_space' /\ a = pageFileNumber
  OBVIOUS
<1>3. /\ a \in Nat \ {0} /\ PageFileSize \in Nat \ {0}
      /\ Tiles(A, a * PageFileSize) /\ Offsets = DOMAIN A
      /\ SwapSize = a * PageFileSize /\ a * PageFileSize \in Nat /\ (a * PageFileSize) % PageFileSize = 0 /\ free_space = FreeOf(A)
      /\ DOMAIN A \subseteq 0..(a * PageFileSize - 1)
  BY <1>1, <1>2, LayoutIs, Constants DEF SwapSize
<1>4. swapFree \in Nat /\ min \in Nat /\ min > swapFree
  <2>1. PICK t \in Nat, k \in Nat :
           t = Total(SizesOf(A), DOMAIN A) /\ k = Total(Size, {c \in Chunk : booked[c]})
    <3>1. Total(SizesOf(A), DOMAIN A) \in Nat
      BY <1>3, MapWeights
    <3> QED BY <3>1, Claimed
  <2>2. swapFree = (t - k) % Modulus
    BY <1>1, <1>2, <1>3, <2>1 DEF Exact, Stored
  <2>3. swapFree \in Nat
    <3>1. t - k \in Int
      BY <2>1
    <3> QED BY <2>2, <3>1, DivMod, Constants
  <2>4. min \in Nat
    BY PageFileAssumption
  <2> QED BY <2>3, <2>4 DEF Extend
<1>5. PICK k, new :
         /\ k \in ((min - swapFree + PageFileSize - 1) \div PageFileSize)..(MaxFiles - a)
         /\ new = {f * PageFileSize : f \in a..(a + k - 1)}
         /\ B = GrownMap(A, new)
         /\ free_space' = free_space \cup new /\ pageFileNumber' = a + k
         /\ swapFree' = (swapFree + k * PageFileSize) % Modulus
  <2>1. PICK k1 \in ((min - swapFree + PageFileSize - 1) \div PageFileSize)..(MaxFiles - pageFileNumber) :
           /\ all_space' = GrownMap(all_space, {f * PageFileSize :
                               f \in pageFileNumber..(pageFileNumber + k1 - 1)})
           /\ free_space' = free_space \cup {f * PageFileSize :
                               f \in pageFileNumber..(pageFileNumber + k1 - 1)}
           /\ pageFileNumber' = pageFileNumber + k1
           /\ swapFree' = (swapFree + k1 * PageFileSize) % Modulus
    BY DEF Extend, GrownMap, Offsets
  <2> QED BY <1>2, <2>1
<1>6. k \in Nat \ {0} /\ a + k <= MaxFiles
  <2>1. min - swapFree \in Nat \ {0}
    BY <1>4
  <2>2. (min - swapFree + PageFileSize - 1) \div PageFileSize \in Nat \ {0}
    BY <1>3, <2>1, RoundedUp
  <2>3. PICK n \in Nat : n # 0 /\ n = (min - swapFree + PageFileSize - 1) \div PageFileSize
    BY <2>2
  <2>4. k \in n..(MaxFiles - a)
    BY <1>5, <2>3
  <2>5. a \in Nat /\ MaxFiles \in Nat
    BY <1>3, Constants
  <2> QED BY <2>3, <2>4, <2>5
<1>7. PICK to \in Nat : to = (a + k) * PageFileSize /\ to % PageFileSize = 0 /\ a * PageFileSize < to /\ to = a * PageFileSize + k * PageFileSize
                        /\ k * PageFileSize \in Nat /\ SwapSize' = to
  <2>1. (a + k) * PageFileSize = a * PageFileSize + k * PageFileSize /\ k * PageFileSize \in Nat \ {0}
    BY <1>3, <1>6
  <2>2. ((a + k) * PageFileSize) % PageFileSize = 0
    <3>1. a + k \in Int
      BY <1>3, <1>6
    <3> QED BY <1>3, <3>1, Product
  <2>3. SwapSize' = (a + k) * PageFileSize
    BY <1>2, <1>5 DEF SwapSize
  <2>4. PICK x \in Nat, y \in Nat : x = a * PageFileSize /\ y = k * PageFileSize /\ y # 0
    BY <1>3, <2>1
  <2>5. (a + k) * PageFileSize = x + y
    BY <2>1, <2>4
  <2>6. x + y \in Nat /\ x < x + y
    BY <2>4
  <2> QED BY <2>2, <2>3, <2>4, <2>5, <2>6
<1>8. new = {b \in (a * PageFileSize)..(to - 1) : b % PageFileSize = 0}
  <2>1. a \in Nat /\ k \in Nat
    BY <1>3, <1>6
  <2>2. {f * PageFileSize : f \in a..(a + k - 1)}
           = {b \in (a * PageFileSize)..((a + k) * PageFileSize - 1) : b % PageFileSize = 0}
    BY <2>1, Borders
  <2> QED BY <1>5, <1>7, <2>2
<1>9. /\ DOMAIN B = DOMAIN A \cup new /\ \A o \in DOMAIN A : o \notin new /\ B[o] = A[o]
      /\ \A o \in new : B[o] = Location(PageFileSize, "PAGE_FREE") /\ o \notin DOMAIN A
      /\ B = [o \in DOMAIN B |-> B[o]]
  <2>1. \A o \in DOMAIN A : o \notin new
    BY <1>3, <1>8
  <2> QED BY <1>3, <1>5, <2>1 DEF GrownMap
<1>10. Extended(A, B, a * PageFileSize, to)
  BY <1>2, <1>8, <1>9 DEF Extended
<1>11. Tiles(B, to)
  BY <1>2, <1>3, <1>7, <1>10, ExtendedTiles
<1>12. Total(SizesOf(B), DOMAIN B) = Total(SizesOf(A), DOMAIN A) + k * PageFileSize
  <2>1. a \in Nat /\ k \in Nat
    BY <1>3, <1>6
  <2>2. Extended(A, B, a * PageFileSize, (a + k) * PageFileSize) /\ Tiles(A, a * PageFileSize)
    BY <1>3, <1>7, <1>10
  <2> QED BY <2>1, <2>2, ExtendedTotals
<1>13. free_space' = FreeOf(B)
  <2>1. \A o \in new : B[o].status = "PAGE_FREE"
    BY <1>9 DEF Location
  <2> QED BY <1>3, <1>5, <1>9, <2>1 DEF FreeOf
<1>14. Layout'
  <2>1. pageFileNumber' \in InitialFiles..MaxFiles
    BY <1>1, <1>2, <1>5, <1>6, Constants DEF Layout
  <2>2. free_space' = {o \in Offsets : IsFree(o)}'
    BY <1>2, <1>13 DEF FreeOf, IsFree, Offsets
  <2> QED BY <1>2, <1>7, <1>11, <2>1, <2>2 DEF Layout
<1>15. op.kind = "none" /\ op' = op /\ parts' = parts /\ aio' = aio /\ booked' = booked /\ deleting' = deleting
  BY DEF Extend, Idle
<1>16. OwnersOf(A, parts)
  BY <1>1, <1>2 DEF Owners
<1>17. Owners'
  <2>1. \A p \in DOMAIN B \ DOMAIN A : B[p].status = "PAGE_FREE"
    BY <1>9 DEF Location
  <2>2. OwnersOf(B, parts)
    BY <1>9, <1>16, <2>1, GrowOwners
  <2>3. \A p \in aio : p \in DOMAIN A /\ A[p].status # "PAGE_FREE"
    BY <1>1, <1>2 DEF Owners, Offsets, IsFree
  <2>4. aio' \subseteq {o \in Offsets : ~ IsFree(o)}'
    BY <1>2, <1>9, <1>15, <2>3 DEF Offsets, IsFree
  <2> QED BY <1>2, <1>15, <2>2, <2>4 DEF Owners
<1>18. Whole'
  <2>1. ASSUME NEW c \in Chunk PROVE Left(c)' = Left(c)
    <3>1. \A o \in Range(parts[c]) : o \in DOMAIN B /\ B[o] = A[o]
      BY <1>9, <1>16, ChainsApart
    <3>2. Total(SizesOf(B), Range(parts'[c])) = Total(SizesOf(A), Range(parts[c]))
      BY <1>3, <1>15, <1>16, <3>1, LeftStays
    <3> QED BY <1>2, <3>2 DEF Left
  <2> QED BY <1>1, <1>15, <2>1 DEF Whole
<1>19. Working'
  BY <1>1, <1>15 DEF Working
<1>20. Promised'
  BY <1>15 DEF Promised
<1>21. Exact'
  <2>1. PICK t \in Int, s \in Nat :
           /\ t = Total(SizesOf(A), DOMAIN A) - Total(Size, {c \in Chunk : booked[c]})
           /\ s = k * PageFileSize
    <3>1. Total(SizesOf(A), DOMAIN A) \in Nat
      BY <1>3, MapWeights
    <3>2. Total(SizesOf(A), DOMAIN A) - Total(Size, {c \in Chunk : booked[c]}) \in Int
      BY <3>1, Claimed
    <3> QED BY <1>7, <3>2
  <2>2. swapFree = t % Modulus
    BY <1>1, <1>2, <1>3, <2>1 DEF Exact, Stored
  <2>3. swapFree' = (t + s) % Modulus
    BY <1>5, <2>1, <2>2, ExactMoves
  <2>4. t + s = Total(SizesOf(B), DOMAIN B) - Total(Size, {c \in Chunk : booked[c]})
    <3>1. Total(SizesOf(A), DOMAIN A) \in Nat
      BY <1>3, MapWeights
    <3> QED BY <1>12, <2>1, <3>1, Claimed
  <2> QED BY <1>2, <1>15, <2>3, <2>4 DEF Exact, Stored, Offsets
<1> QED BY <1>2, <1>3, <1>7, <1>9, <1>14, <1>15, <1>17, <1>18, <1>19, <1>20, <1>21 DEF PageInv

\* Steps that leave the map and the chains alone.
LEMMA MapStays ==
    ASSUME PageInv, UNCHANGED <<all_space, free_space, pageFileNumber, parts>>,
           aio' \subseteq aio
    PROVE  /\ Layout' /\ Owners' /\ Stored' = Stored /\ Spare' = Spare
           /\ \A c \in Chunk : Left(c)' = Left(c)
<1>1. Layout /\ Owners
  BY DEF PageInv
<1>2. Layout'
  BY <1>1 DEF Layout, SwapSize, Offsets, IsFree
<1>3. Owners'
  BY <1>1 DEF Owners, Offsets, IsFree
<1> QED BY <1>2, <1>3 DEF Stored, Spare, Left, Offsets

LEMMA IdleIs ==
    ASSUME PageInv, Idle
    PROVE  op.freeing = NoChunk /\ op.kind = "none"
BY DEF PageInv, Idle, Working

\* What the chains need of a chunk that is not being freed.
LEMMA WholeIs ==
    ASSUME PageInv, NEW c \in Chunk
    PROVE  /\ parts[c] # <<>> /\ c \notin deleting /\ op.freeing # c => Left(c) = Size[c]
           /\ booked[c] => parts[c] # <<>>
           /\ ~ booked[c] => Range(parts[c]) \cap aio = {}
           /\ booked[c] \in BOOLEAN /\ (c \in deleting => booked[c])
           /\ c # NoChunk /\ Size[c] \in Nat \ {0}
BY Constants DEF PageInv, Whole, Working

\* The size of a chunk is claimed.
LEMMA DropStep ==
    ASSUME PageInv, NEW c \in Chunk, Drop(c)
    PROVE  PageInv'
<1>1. /\ Idle /\ parts[c] # <<>> /\ ~ booked[c] /\ booked' = [booked EXCEPT ![c] = TRUE]
      /\ swapFree' = (swapFree - Size[c]) % Modulus
      /\ UNCHANGED <<all_space, free_space, pageFileNumber, parts, aio, deleting, op>>
  BY DEF Drop, Cached
<1>2. booked \in [Chunk -> BOOLEAN] /\ Size[c] \in Nat
  BY WholeIs DEF PageInv, Working
<1>3. Layout' /\ Owners' /\ Stored' = Stored /\ \A d \in Chunk : Left(d)' = Left(d)
  BY <1>1, MapStays
<1>4. Whole'
  <2>1. ASSUME NEW d \in Chunk
        PROVE  /\ parts'[d] # <<>> /\ d \notin deleting' /\ op'.freeing # d => Left(d)' = Size[d]
               /\ booked'[d] => parts'[d] # <<>>
               /\ ~ booked'[d] => Range(parts'[d]) \cap aio' = {}
    BY <1>1, <1>2, <1>3, WholeIs
  <2> QED BY <2>1 DEF Whole
<1>5. Working'
  <2>1. op.freeing = NoChunk
    BY <1>1, IdleIs
  <2>2. booked' \in [Chunk -> BOOLEAN] /\ \A d \in Chunk : booked[d] => booked'[d]
    BY <1>1, <1>2
  <2> QED BY <1>1, <2>1, <2>2 DEF PageInv, Working
<1>6. Promised'
  BY <1>1, IdleIs DEF Promised
<1>7. Exact'
  <2>1. PICK s \in Int, z \in Nat :
           s = Stored - Total(Size, {d \in Chunk : booked[d]}) /\ z = Size[c]
    <3>1. Stored \in Nat
      BY StoredIs DEF PageInv
    <3>2. Stored - Total(Size, {d \in Chunk : booked[d]}) \in Int
      BY <3>1, Claimed
    <3> QED BY <1>2, <3>2
  <2>2. swapFree = s % Modulus
    BY <2>1 DEF PageInv, Exact
  <2>3. swapFree' = (s + (- z)) % Modulus
    <3>1. swapFree \in Int /\ swapFree' = (swapFree - z) % Modulus
      BY <1>1, <2>1, <2>2, DivMod, Constants
    <3>2. swapFree - z = swapFree + (- z)
      BY <2>1, <3>1
    <3>3. swapFree' = ((s % Modulus) + (- z)) % Modulus
      BY <2>2, <3>1, <3>2
    <3>4. - z \in Int
      OBVIOUS
    <3> QED BY <3>3, <3>4, ExactMoves
  <2>4. Total(Size, {d \in Chunk : [booked EXCEPT ![c] = TRUE][d]})
           = Total(Size, {d \in Chunk : booked[d]}) + z
    BY <1>1, <1>2, <2>1, Claims
  <2>5. s + (- z) = Stored - (Total(Size, {d \in Chunk : booked[d]}) + z)
    BY <2>1, StoredIs, Claimed DEF PageInv
  <2> QED BY <1>1, <1>3, <2>3, <2>4, <2>5 DEF Exact
<1> QED BY <1>3, <1>4, <1>5, <1>6, <1>7 DEF PageInv

\* It is claimed back.
LEMMA SwapInStep ==
    ASSUME PageInv, NEW c \in Chunk, SwapInArrived(c)
    PROVE  PageInv'
<1>1. /\ Idle /\ booked[c] /\ c \notin deleting /\ Range(parts[c]) \cap aio = {}
      /\ booked' = [booked EXCEPT ![c] = FALSE]
      /\ swapFree' = (swapFree + Size[c]) % Modulus
      /\ UNCHANGED <<all_space, free_space, pageFileNumber, parts, aio, deleting, op>>
  BY DEF SwapInArrived
<1>2. booked \in [Chunk -> BOOLEAN] /\ Size[c] \in Nat
  BY WholeIs DEF PageInv, Working
<1>3. Layout' /\ Owners' /\ Stored' = Stored /\ \A d \in Chunk : Left(d)' = Left(d)
  BY <1>1, MapStays
<1>4. Whole'
  <2>1. ASSUME NEW d \in Chunk
        PROVE  /\ parts'[d] # <<>> /\ d \notin deleting' /\ op'.freeing # d => Left(d)' = Size[d]
               /\ booked'[d] => parts'[d] # <<>>
               /\ ~ booked'[d] => Range(parts'[d]) \cap aio' = {}
    BY <1>1, <1>2, <1>3, WholeIs
  <2> QED BY <2>1 DEF Whole
<1>5. Working'
  <2>1. op.freeing = NoChunk
    BY <1>1, IdleIs
  <2>2. booked' \in [Chunk -> BOOLEAN] /\ \A d \in Chunk : booked[d] /\ d # c => booked'[d]
    BY <1>1, <1>2
  <2> QED BY <1>1, <2>1, <2>2 DEF PageInv, Working
<1>6. Promised'
  BY <1>1, IdleIs DEF Promised
<1>7. Exact'
  <2>1. PICK s \in Int, z \in Nat :
           s = Stored - Total(Size, {d \in Chunk : booked[d]}) /\ z = Size[c]
    <3>1. Stored \in Nat
      BY StoredIs DEF PageInv
    <3>2. Stored - Total(Size, {d \in Chunk : booked[d]}) \in Int
      BY <3>1, Claimed
    <3> QED BY <1>2, <3>2
  <2>2. swapFree = s % Modulus
    BY <2>1 DEF PageInv, Exact
  <2>3. swapFree' = (s + z) % Modulus
    <3>1. swapFree' = ((s % Modulus) + z) % Modulus
      BY <1>1, <2>1, <2>2
    <3>2. z \in Int
      OBVIOUS
    <3> QED BY <3>1, <3>2, ExactMoves
  <2>4. Total(Size, {d \in Chunk : [booked EXCEPT ![c] = FALSE][d]})
           = Total(Size, {d \in Chunk : booked[d]}) - z
    BY <1>1, <1>2, <2>1, Claims
  <2>5. s + z = Stored - (Total(Size, {d \in Chunk : booked[d]}) - z)
    BY <2>1, StoredIs, Claimed DEF PageInv
  <2> QED BY <1>1, <1>3, <2>3, <2>4, <2>5 DEF Exact
<1> QED BY <1>3, <1>4, <1>5, <1>6, <1>7 DEF PageInv

\* A write arrives: nothing new is under way.
LEMMA ArrivedStep ==
    ASSUME PageInv, NEW o \in aio, WriteArrived(o)
    PROVE  PageInv'
<1>1. /\ Idle /\ aio' \subseteq aio
      /\ UNCHANGED <<all_space, free_space, pageFileNumber, swapFree, parts, booked, deleting, op>>
  BY DEF WriteArrived
<1>2. Layout' /\ Owners' /\ Stored' = Stored /\ \A d \in Chunk : Left(d)' = Left(d)
  BY <1>1, MapStays
<1>3. Whole'
  <2>1. ASSUME NEW d \in Chunk
        PROVE  /\ parts'[d] # <<>> /\ d \notin deleting' /\ op'.freeing # d => Left(d)' = Size[d]
               /\ booked'[d] => parts'[d] # <<>>
               /\ ~ booked'[d] => Range(parts'[d]) \cap aio' = {}
    BY <1>1, <1>2, WholeIs
  <2> QED BY <2>1 DEF Whole
<1>4. Working' /\ Promised' /\ Exact'
  BY <1>1, <1>2, IdleIs DEF PageInv, Working, Promised, Exact
<1> QED BY <1>2, <1>3, <1>4 DEF PageInv

\* Steps of the control alone.
Op == [kind : {"none", "pfmalloc", "cleanup", "discard", "delete", "thrown"},
       chunk : Chunk \cup {NoChunk}, freeing : Chunk \cup {NoChunk},
       needed : Nat, cleaned : Nat]

Controls ==
    /\ UNCHANGED <<all_space, free_space, pageFileNumber, swapFree, parts, aio, booked>>
    /\ deleting' \subseteq {c \in Chunk : booked[c]}
    /\ \A c \in Chunk : parts[c] # <<>> /\ (c \in deleting \/ c = op.freeing) =>
                             c \in deleting' \/ c = op'.freeing
    /\ op' \in Op
    /\ op'.kind \in {"discard", "delete"} => op'.freeing # NoChunk
    /\ op'.freeing # NoChunk =>
          /\ op'.kind \in {"pfmalloc", "cleanup", "discard", "delete"}
          /\ parts[op'.freeing] # <<>>
          /\ op'.kind = "delete" <=> op'.freeing \in deleting'
          /\ op'.kind = "delete" <=> booked[op'.freeing]
    /\ op'.kind = "pfmalloc" =>
          /\ op'.chunk \in Chunk /\ parts[op'.chunk] = <<>>
          /\ Size[op'.chunk] - op'.needed + op'.cleaned <=
                Spare + (IF op'.freeing = NoChunk THEN 0
                         ELSE Total(SizesOf(all_space), Range(parts[op'.freeing])))

LEMMA ControlStep ==
    ASSUME PageInv, Controls
    PROVE  PageInv'
<1>1. Layout' /\ Owners' /\ Stored' = Stored /\ Spare' = Spare /\ \A d \in Chunk : Left(d)' = Left(d)
  BY MapStays DEF Controls
<1>2. Whole'
  <2>1. ASSUME NEW d \in Chunk
        PROVE  /\ parts'[d] # <<>> /\ d \notin deleting' /\ op'.freeing # d => Left(d)' = Size[d]
               /\ booked'[d] => parts'[d] # <<>>
               /\ ~ booked'[d] => Range(parts'[d]) \cap aio' = {}
    BY <1>1, WholeIs DEF Controls
  <2> QED BY <2>1 DEF Whole
<1>3. Working'
  BY DEF PageInv, Working, Controls, Op
<1>4. Promised'
  BY <1>1 DEF Promised, Controls, Left
<1>5. Exact'
  BY <1>1 DEF PageInv, Exact, Controls
<1> QED BY <1>1, <1>2, <1>3, <1>4, <1>5 DEF PageInv

\* Where an allocation leaves the locations in use.
Keeps == \A p \in Offsets : ~ IsFree(p) => p \in DOMAIN all_space' /\ all_space'[p] = all_space[p]

\* pfmalloc, from one free block or from several.
LEMMA AllocatesStep ==
    ASSUME PageInv, NEW c \in Chunk, parts[c] = <<>>, AllocWhole(c) \/ AllocParts(c),
           UNCHANGED <<pageFileNumber, deleting>>, op.freeing = NoChunk,
           op'.freeing = NoChunk, op'.kind = "none",
           op' \in Op
    PROVE  /\ PageInv' /\ Keeps /\ parts'[c] # <<>>
           /\ parts' = [parts EXCEPT ![c] = parts'[c]]
           /\ c \notin deleting'
<1>1. /\ Layout /\ Owners /\ Whole /\ Exact /\ booked \in [Chunk -> BOOLEAN]
      /\ deleting \subseteq {d \in Chunk : booked[d]}
  BY DEF PageInv, Working
<1>2. /\ SwapSize \in Nat /\ Tiles(all_space, SwapSize) /\ Offsets = DOMAIN all_space
      /\ free_space \subseteq Offsets /\ Offsets \in SUBSET Nat
      /\ \A S \in SUBSET Offsets :
             /\ Weights(SizesOf(all_space), S) /\ Total(SizesOf(all_space), S) \in Nat
             /\ \A p \in S : SizesOf(all_space)[p] = all_space[p].size
  BY <1>1, LayoutIs, MapWeights DEF FreeOf
<1>3. Size[c] \in Nat \ {0} /\ Size[c] % MemoryAlignment = 0
  BY Constants
<1>4. PICK taken, last, left :
         /\ last \in free_space /\ taken \subseteq free_space \ {last} /\ \A f \in taken : f < last
         /\ left \in Nat \ {0} /\ left <= all_space[last].size /\ left % MemoryAlignment = 0
         /\ Total(SizesOf(all_space), taken) + left = Size[c]
         /\ AllocAt(c, taken, last, left)
  <2>1. CASE AllocWhole(c)
    <3>1. PICK o \in free_space : all_space[o].size >= Size[c] /\ AllocAt(c, {}, o, Size[c])
      BY <2>1 DEF AllocWhole, FirstFit
    <3>2. all_space[o].size \in Nat
      BY <1>2, <3>1 DEF Tiles, IsMap
    <3>3. Size[c] <= all_space[o].size /\ Total(SizesOf(all_space), {}) + Size[c] = Size[c]
      BY <1>3, <3>1, <3>2, TotalNone
    <3> QED BY <1>3, <3>1, <3>3
  <2>2. CASE AllocParts(c)
    <3>1. PICK o \in free_space :
             /\ 0 < Size[c] - FreeBelow(o) /\ Size[c] - FreeBelow(o) <= all_space[o].size
             /\ AllocAt(c, {f \in free_space : f < o}, o, Size[c] - FreeBelow(o))
      BY <2>2 DEF AllocParts
    <3>2. PICK T : T = {f \in free_space : f < o}
      OBVIOUS
    <3>3. T \in SUBSET Offsets /\ o \notin T /\ o \in Nat /\ T \subseteq free_space \ {o}
      <4>1. o \in Nat /\ free_space \subseteq Offsets
        BY <1>2, <3>1
      <4>2. \A f \in T : f \in free_space /\ f < o
        BY <3>2
      <4>3. ~ (o < o)
        BY <4>1
      <4> QED BY <4>1, <4>2, <4>3
    <3>4. FreeBelow(o) = Total(SizesOf(all_space), T) /\ FreeBelow(o) \in Nat
      BY <1>2, <3>2, <3>3, BytesAtIs DEF FreeBelow
    <3>5. FreeBelow(o) % MemoryAlignment = 0
      <4>1. \A p \in T : SizesOf(all_space)[p] % MemoryAlignment = 0
        <5>1. \A p \in DOMAIN all_space : all_space[p].size % MemoryAlignment = 0
          BY <1>2 DEF Tiles
        <5>2. \A p \in T : p \in DOMAIN all_space /\ SizesOf(all_space)[p] = all_space[p].size
          BY <1>2, <3>3
        <5> QED BY <5>1, <5>2
      <4>2. Weights(SizesOf(all_space), T) /\ MemoryAlignment \in Nat \ {0}
        BY <1>2, <3>3, Constants
      <4> QED BY <3>4, <4>1, <4>2, TotalMultiple
    <3>6. PICK l \in Nat, b \in Nat : l = Size[c] - FreeBelow(o) /\ b = FreeBelow(o) /\ l # 0 /\ b + l = Size[c]
      BY <1>3, <3>1, <3>4
    <3>7. l % MemoryAlignment = 0
      <4>1. PICK z \in Nat : z = Size[c] /\ z % MemoryAlignment = 0 /\ l = z - b /\ b % MemoryAlignment = 0
        BY <1>3, <3>5, <3>6
      <4>2. (z - b) % MemoryAlignment = z % MemoryAlignment
        <5>1. z \in Int /\ b \in Int /\ MemoryAlignment \in Nat \ {0} /\ b % MemoryAlignment = 0
          BY <4>1, Constants
        <5> QED BY <5>1, Multiples
      <4> QED BY <4>1, <4>2
    <3>8. /\ o \in free_space /\ T \subseteq free_space \ {o} /\ \A f \in T : f < o
          /\ l \in Nat \ {0} /\ l <= all_space[o].size /\ l % MemoryAlignment = 0
          /\ Total(SizesOf(all_space), T) + l = Size[c]
          /\ AllocAt(c, T, o, l)
      BY <3>1, <3>2, <3>3, <3>4, <3>6, <3>7
    <3> QED BY <3>8
  <2> QED BY <2>1, <2>2
<1>5. /\ Layout' /\ Owners' /\ Whole' /\ Exact'
      /\ parts'[c] # <<>> /\ booked' = [booked EXCEPT ![c] = TRUE]
      /\ parts' = [parts EXCEPT ![c] = parts'[c]]
      /\ Keeps
  BY <1>1, <1>4, AllocStep DEF Keeps
<1>6. Working'
  <2>1. booked' \in [Chunk -> BOOLEAN] /\ \A d \in Chunk : booked[d] => booked'[d]
    BY <1>1, <1>5
  <2>2. deleting' \subseteq {d \in Chunk : booked'[d]}
    BY <1>1, <2>1
  <2> QED BY <2>1, <2>2 DEF Working, Op
<1>7. Promised'
  BY DEF Promised
<1>8. c \notin deleting'
  BY <1>1, WholeIs
<1> QED BY <1>5, <1>6, <1>7, <1>8 DEF PageInv

LEMMA OpIs == ASSUME PageInv PROVE op \in Op
BY DEF PageInv, Working, Op

LEMMA NewOpIs ==
    \A k, c, d, n :
        /\ NewOp(k, c, d, n).kind = k /\ NewOp(k, c, d, n).chunk = c
        /\ NewOp(k, c, d, n).freeing = d /\ NewOp(k, c, d, n).needed = n
        /\ NewOp(k, c, d, n).cleaned = 0
        /\ (k \in {"none", "pfmalloc", "cleanup", "discard", "delete", "thrown"} /\ n \in Nat
              /\ c \in Chunk \cup {NoChunk} /\ d \in Chunk \cup {NoChunk}) =>
                NewOp(k, c, d, n) \in Op
BY DEF NewOp, Op

LEMMA NoOpIs ==
    NoOp.kind = "none" /\ NoOp.freeing = NoChunk /\ NoOp \in Op
BY NewOpIs DEF NoOp

LEMMA DiscardStep ==
    ASSUME PageInv, NEW c \in Chunk, Discard(c)
    PROVE  PageInv'
<1>1. /\ parts[c] # <<>> /\ ~ booked[c] /\ op' = NewOp("discard", NoChunk, c, 0)
      /\ UNCHANGED <<all_space, free_space, pageFileNumber, swapFree, parts, aio, booked, deleting>>
  BY DEF Discard, Cached
<1>2. op.freeing = NoChunk /\ deleting \subseteq {d \in Chunk : booked[d]} /\ c # NoChunk
  BY IdleIs, WholeIs DEF Discard, PageInv, Working
<1>3. op' \in Op /\ op'.kind = "discard" /\ op'.freeing = c
  BY <1>1, NewOpIs
<1>4. Controls
  BY <1>1, <1>2, <1>3, Constants DEF Controls
<1> QED BY <1>4, ControlStep

LEMMA SwapDeleteStep ==
    ASSUME PageInv, NEW c \in Chunk, SwapDelete(c)
    PROVE  PageInv'
<1>1. /\ booked[c] /\ c \notin deleting /\ op' = NewOp("delete", NoChunk, c, 0)
      /\ deleting' = deleting \cup {c}
      /\ UNCHANGED <<all_space, free_space, pageFileNumber, swapFree, parts, aio, booked>>
  BY DEF SwapDelete
<1>2. /\ op.freeing = NoChunk /\ deleting \subseteq {d \in Chunk : booked[d]} /\ c # NoChunk
      /\ parts[c] # <<>>
  BY <1>1, IdleIs, WholeIs DEF SwapDelete, PageInv, Working
<1>3. op' \in Op /\ op'.kind = "delete" /\ op'.freeing = c
  BY <1>1, NewOpIs
<1>4. Controls
  BY <1>1, <1>2, <1>3, Constants DEF Controls
<1> QED BY <1>4, ControlStep

LEMMA FreeResumesStep ==
    ASSUME PageInv, NEW c \in Chunk, FreeResumes(c)
    PROVE  PageInv'
<1>1. /\ c \in deleting /\ op' = NewOp("delete", NoChunk, c, 0)
      /\ UNCHANGED <<all_space, free_space, pageFileNumber, swapFree, parts, aio, booked, deleting>>
  BY DEF FreeResumes
<1>2. /\ op.freeing = NoChunk /\ deleting \subseteq {d \in Chunk : booked[d]} /\ c # NoChunk
      /\ booked[c] /\ parts[c] # <<>>
  BY <1>1, IdleIs, WholeIs DEF FreeResumes, PageInv, Working
<1>3. op' \in Op /\ op'.kind = "delete" /\ op'.freeing = c
  BY <1>1, NewOpIs
<1>4. Controls
  BY <1>1, <1>2, <1>3, Constants DEF Controls
<1> QED BY <1>4, ControlStep

LEMMA CleanUpStep ==
    ASSUME PageInv, NEW min \in Requests, CleanUp(min)
    PROVE  PageInv'
<1>1. /\ op' = NewOp("cleanup", NoChunk, NoChunk, min) /\ min \in Nat
      /\ UNCHANGED <<all_space, free_space, pageFileNumber, swapFree, parts, aio, booked, deleting>>
  BY PageFileAssumption DEF CleanUp
<1>2. op.freeing = NoChunk /\ deleting \subseteq {d \in Chunk : booked[d]}
  BY IdleIs DEF CleanUp, PageInv, Working
<1>3. op' \in Op /\ op'.kind = "cleanup" /\ op'.freeing = NoChunk
  BY <1>1, NewOpIs
<1>4. Controls
  BY <1>1, <1>2, <1>3, Constants DEF Controls
<1> QED BY <1>4, ControlStep

\* Only swapDelete has to wait: what is being written is claimed.
LEMMA FreeWaitsStep ==
    ASSUME PageInv, FreeWaits
    PROVE  PageInv'
<1>1. PICK d : d = op.freeing
  OBVIOUS
<1>2. /\ d # NoChunk /\ Head(parts[d]) \in aio /\ op' = NoOp
      /\ UNCHANGED <<all_space, free_space, pageFileNumber, swapFree, parts, aio, booked, deleting>>
  BY <1>1 DEF FreeWaits
<1>3. /\ d \in Chunk /\ parts[d] # <<>> /\ (op.kind = "delete" <=> d \in deleting)
      /\ (op.kind = "delete" <=> booked[d]) /\ deleting \subseteq {c \in Chunk : booked[c]}
  BY <1>1, <1>2 DEF PageInv, Working
<1>4. Head(parts[d]) \in Range(parts[d])
  <2>1. /\ parts[d] \in Seq(DOMAIN all_space) /\ Len(parts[d]) \in Nat /\ Len(parts[d]) # 0
        /\ DOMAIN parts[d] = 1..Len(parts[d])
        /\ \A i \in DOMAIN parts[d] : parts[d][i] \in Range(parts[d])
    BY <1>3, OwnsIs DEF PageInv, Owners
  <2>2. Head(parts[d]) = parts[d][1] /\ 1 \in DOMAIN parts[d]
    BY <2>1
  <2> QED BY <2>1, <2>2
<1>5. d \in deleting
  BY <1>2, <1>3, <1>4, WholeIs
<1>6. Controls
  <2>1. \A c \in Chunk : parts[c] # <<>> /\ (c \in deleting \/ c = op.freeing) =>
                             c \in deleting' \/ c = op'.freeing
    BY <1>1, <1>2, <1>5
  <2> QED BY <1>2, <1>3, <2>1, NoOpIs DEF Controls
<1> QED BY <1>6, ControlStep

\* The next cached chunk is cleaned: it has all of its size.
LEMMA CleanNextStep ==
    ASSUME PageInv, NEW d \in Chunk, CleanNext(d)
    PROVE  PageInv'
<1>1. /\ op.kind \in {"pfmalloc", "cleanup"} /\ op.freeing = NoChunk /\ parts[d] # <<>> /\ ~ booked[d]
      /\ op' = [op EXCEPT !.freeing = d, !.cleaned = op.cleaned + Size[d]]
      /\ UNCHANGED <<all_space, free_space, pageFileNumber, swapFree, parts, aio, booked, deleting>>
  BY DEF CleanNext, Cleaning, Cached
<1>2. /\ deleting \subseteq {c \in Chunk : booked[c]} /\ d # NoChunk /\ Size[d] \in Nat
      /\ Left(d) = Size[d] /\ op \in Op
  <2>1. d \notin deleting /\ op.freeing # d
    BY <1>1, WholeIs
  <2> QED BY <1>1, <2>1, WholeIs, OpIs DEF PageInv, Working
<1>3. /\ op' \in Op /\ op'.kind = op.kind /\ op'.freeing = d /\ op'.chunk = op.chunk
      /\ op'.needed = op.needed /\ op'.cleaned = op.cleaned + Size[d]
  <2>1. op.cleaned + Size[d] \in Nat
    BY <1>2 DEF Op
  <2> QED BY <1>1, <1>2, <2>1 DEF Op
<1>4. ASSUME op.kind = "pfmalloc"
      PROVE  /\ op.chunk \in Chunk /\ parts[op.chunk] = <<>>
             /\ Size[op.chunk] - op'.needed + op'.cleaned <= Spare + Left(d)
  <2>1. /\ op.chunk \in Chunk /\ parts[op.chunk] = <<>>
        /\ Size[op.chunk] - op.needed + op.cleaned <= Spare + 0
    BY <1>1, <1>4 DEF PageInv, Working, Promised
  <2>2. Size[op.chunk] \in Nat /\ op.needed \in Nat /\ op.cleaned \in Nat
    BY <1>2, <2>1, WholeIs DEF Op
  <2>3. Spare \in Nat
    BY StoredIs DEF PageInv
  <2> QED BY <1>2, <1>3, <2>1, <2>2, <2>3
<1>5. Controls
  <2>1. op'.kind = "pfmalloc" =>
          /\ op'.chunk \in Chunk /\ parts[op'.chunk] = <<>>
          /\ Size[op'.chunk] - op'.needed + op'.cleaned <=
                Spare + (IF op'.freeing = NoChunk THEN 0
                         ELSE Total(SizesOf(all_space), Range(parts[op'.freeing])))
    BY <1>2, <1>3, <1>4 DEF Left
  <2>2. /\ op'.kind \notin {"discard", "delete"} /\ op'.freeing = d /\ op'.kind \in {"pfmalloc", "cleanup"}
        /\ d \notin deleting'
    BY <1>1, <1>2, <1>3
  <2>3. \A c \in Chunk : parts[c] # <<>> /\ (c \in deleting \/ c = op.freeing) =>
                             c \in deleting' \/ c = op'.freeing
    BY <1>1, Constants
  <2>4. deleting' \subseteq {c \in Chunk : booked[c]} /\ op' \in Op
    BY <1>1, <1>2, <1>3
  <2> QED BY <1>1, <2>1, <2>2, <2>3, <2>4 DEF Controls
<1> QED BY <1>5, ControlStep

\* Steps that give a chunk its locations, and steps that touch none.
Acquires(c) ==
    /\ parts[c] = <<>> /\ parts'[c] # <<>> /\ parts' = [parts EXCEPT ![c] = parts'[c]]
    /\ Keeps /\ c \notin deleting' /\ op'.freeing # c /\ pageFileNumber' = pageFileNumber

Rests == UNCHANGED <<all_space, parts, pageFileNumber>>

LEMMA SpareIs == ASSUME PageInv PROVE BytesAt(free_space) = Spare /\ Spare \in Nat
<1>1. Layout /\ free_space = FreeOf(all_space) /\ free_space \in SUBSET Offsets
  BY LayoutIs DEF PageInv, FreeOf
<1> QED BY <1>1, BytesAtIs, StoredIs DEF Spare

LEMMA SwapOutStep ==
    ASSUME PageInv, NEW c \in Chunk, SwapOut(c)
    PROVE  PageInv' /\ (Acquires(c) \/ Rests)
<1>1. /\ Idle /\ parts[c] = <<>> /\ UNCHANGED <<pageFileNumber, deleting>>
      /\ \/ (AllocWhole(c) \/ AllocParts(c)) /\ UNCHANGED op
         \/ /\ ~ (BytesAt(free_space) >= Size[c])
            /\ op' = NewOp("pfmalloc", c, NoChunk, Size[c] - BytesAt(free_space))
            /\ UNCHANGED <<all_space, free_space, swapFree, parts, aio, booked>>
  BY DEF SwapOut
<1>2. op.kind = "none" /\ op.freeing = NoChunk /\ op \in Op /\ c # NoChunk /\ Size[c] \in Nat
  BY <1>1, IdleIs, OpIs, WholeIs
<1>3. CASE (AllocWhole(c) \/ AllocParts(c)) /\ UNCHANGED op
  <2>1. op'.freeing = NoChunk /\ op'.kind = "none" /\ op' \in Op
    BY <1>2, <1>3
  <2>2. /\ PageInv' /\ Keeps /\ parts'[c] # <<>>
        /\ parts' = [parts EXCEPT ![c] = parts'[c]]
        /\ c \notin deleting'
    BY <1>1, <1>2, <1>3, <2>1, AllocatesStep
  <2> QED BY <1>1, <1>2, <2>1, <2>2 DEF Acquires
<1>4. CASE /\ ~ (BytesAt(free_space) >= Size[c])
           /\ op' = NewOp("pfmalloc", c, NoChunk, Size[c] - BytesAt(free_space))
           /\ UNCHANGED <<all_space, free_space, swapFree, parts, aio, booked>>
  <2>1. PICK s \in Nat, n \in Nat : s = Spare /\ n = Size[c] - s /\ op' = NewOp("pfmalloc", c, NoChunk, n)
    BY <1>2, <1>4, SpareIs
  <2>2. /\ op' \in Op /\ op'.kind = "pfmalloc" /\ op'.freeing = NoChunk /\ op'.chunk = c
        /\ op'.needed = n /\ op'.cleaned = 0
    BY <2>1, NewOpIs
  <2>3. Size[c] - n + 0 <= Spare + 0
    BY <1>2, <2>1
  <2>4. deleting \subseteq {d \in Chunk : booked[d]}
    BY DEF PageInv, Working
  <2>5. op'.kind = "pfmalloc" =>
          /\ op'.chunk \in Chunk /\ parts[op'.chunk] = <<>>
          /\ Size[op'.chunk] - op'.needed + op'.cleaned <=
                Spare + (IF op'.freeing = NoChunk THEN 0
                         ELSE Total(SizesOf(all_space), Range(parts[op'.freeing])))
    BY <1>1, <2>2, <2>3
  <2>6. \A d \in Chunk : parts[d] # <<>> /\ (d \in deleting \/ d = op.freeing) =>
                             d \in deleting' \/ d = op'.freeing
    BY <1>1, <1>2, Constants
  <2>7. Controls
    BY <1>1, <1>4, <2>2, <2>4, <2>5, <2>6 DEF Controls
  <2> QED BY <1>1, <1>4, <2>7, ControlStep DEF Rests
<1> QED BY <1>1, <1>3, <1>4

LEMMA CleanDoneStep ==
    ASSUME PageInv, CleanDone
    PROVE  PageInv' /\ (Rests \/ \E c \in Chunk : Acquires(c))
<1>1. /\ op.kind \in {"pfmalloc", "cleanup"} /\ op.freeing = NoChunk /\ UNCHANGED <<pageFileNumber, deleting>>
      /\ \/ op.kind = "pfmalloc" /\ AllocParts(op.chunk) /\ op' = NoOp
         \/ /\ op' = NoOp \/ (op.kind = "pfmalloc" /\ op' = [op EXCEPT !.kind = "thrown"])
            /\ UNCHANGED <<all_space, free_space, swapFree, parts, aio, booked>>
  BY DEF CleanDone, Cleaning
<1>2. op \in Op /\ deleting \subseteq {d \in Chunk : booked[d]}
  BY OpIs DEF PageInv, Working
<1>3. CASE op.kind = "pfmalloc" /\ AllocParts(op.chunk) /\ op' = NoOp
  <2>1. PICK c \in Chunk : c = op.chunk /\ parts[c] = <<>> /\ AllocParts(c)
    BY <1>3 DEF PageInv, Working
  <2>2. op'.freeing = NoChunk /\ op'.kind = "none" /\ op' \in Op /\ c # NoChunk
    BY <1>3, NoOpIs, Constants
  <2>3. /\ PageInv' /\ Keeps /\ parts'[c] # <<>>
        /\ parts' = [parts EXCEPT ![c] = parts'[c]]
        /\ c \notin deleting'
    BY <1>1, <2>1, <2>2, AllocatesStep
  <2> QED BY <1>1, <2>1, <2>2, <2>3 DEF Acquires
<1>4. CASE /\ op' = NoOp \/ (op.kind = "pfmalloc" /\ op' = [op EXCEPT !.kind = "thrown"])
           /\ UNCHANGED <<all_space, free_space, swapFree, parts, aio, booked>>
  <2>1. op' \in Op /\ op'.freeing = NoChunk /\ op'.kind \in {"none", "thrown"}
    BY <1>1, <1>2, <1>4, NoOpIs DEF Op
  <2>2. \A d \in Chunk : parts[d] # <<>> /\ (d \in deleting \/ d = op.freeing) =>
                             d \in deleting' \/ d = op'.freeing
    BY <1>1, Constants
  <2>3. Controls
    BY <1>1, <1>2, <1>4, <2>1, <2>2 DEF Controls
  <2> QED BY <1>1, <1>4, <2>3, ControlStep DEF Rests
<1> QED BY <1>1, <1>3, <1>4

\* The constructor leaves everything in order: every file is one free block.
LEMMA InitPageInv == ASSUME Init PROVE PageInv
<1>1. PICK B, n : /\ B = all_space /\ n = InitialFiles /\ n \in Nat \ {0} /\ n <= MaxFiles
  BY Constants
<1>2. /\ pageFileNumber = n /\ free_space = {f * PageFileSize : f \in 0..(n - 1)}
      /\ B = [o \in free_space |-> Location(PageFileSize, "PAGE_FREE")]
      /\ swapFree = SwapSize /\ parts = [c \in Chunk |-> <<>>] /\ booked = [c \in Chunk |-> FALSE]
      /\ aio = {} /\ deleting = {} /\ op = NoOp
  BY <1>1 DEF Init
<1>3. 0 * PageFileSize = 0 /\ (0 + n) * PageFileSize = n * PageFileSize /\ PageFileSize \in Nat \ {0}
      /\ 0 + n = n
  BY <1>1, Constants
<1>4. free_space = {b \in 0..(n * PageFileSize - 1) : b % PageFileSize = 0}
  <2>1. 0 \in Nat /\ n \in Nat
    BY <1>1
  <2>2. {f * PageFileSize : f \in 0..(0 + n - 1)}
           = {b \in (0 * PageFileSize)..((0 + n) * PageFileSize - 1) : b % PageFileSize = 0}
    BY <2>1, Borders
  <2>3. 0..(n - 1) = 0..(0 + n - 1)
    BY <2>1
  <2> QED BY <1>2, <1>3, <2>2, <2>3
<1>5. Tiles(B, n * PageFileSize) /\ Total(SizesOf(B), DOMAIN B) = n * PageFileSize
  <2>1. B = [o \in DOMAIN B |-> B[o]] /\ DOMAIN B = free_space
        /\ \A o \in DOMAIN B : B[o] = Location(PageFileSize, "PAGE_FREE")
    BY <1>2
  <2> QED BY <1>1, <1>4, <2>1, FreshMap
<1>6. n * PageFileSize \in Nat
      /\ SwapSize = n * PageFileSize /\ n * PageFileSize < Modulus
  <2>1. pageFileNumber \in InitialFiles..MaxFiles
    BY <1>1, <1>2, Constants
  <2>2. SwapSize \in Nat \ {0} /\ SwapSize % PageFileSize = 0 /\ SwapSize < Modulus
    BY <2>1, SwapSizeIs
  <2> QED BY <1>2, <2>2 DEF SwapSize
<1>7. /\ \A o \in DOMAIN B : B[o].status = "PAGE_FREE"
      /\ DOMAIN B = free_space
  BY <1>2 DEF Location
<1>8. Layout
  <2>1. pageFileNumber \in InitialFiles..MaxFiles
    BY <1>1, <1>2, Constants
  <2>2. Tiles(all_space, SwapSize)
    BY <1>1, <1>5, <1>6
  <2>3. free_space = {o \in Offsets : IsFree(o)}
    <3>1. B = all_space
      BY <1>1
    <3>2. Offsets = free_space
      BY <1>7, <3>1 DEF Offsets
    <3>3. ASSUME NEW o \in Offsets PROVE IsFree(o)
      BY <1>7, <3>1 DEF Offsets, IsFree
    <3> QED BY <3>2, <3>3
  <2> QED BY <2>1, <2>2, <2>3 DEF Layout
<1>9. \A c \in Chunk : parts[c] = <<>> /\ booked[c] = FALSE /\ DOMAIN parts[c] = {} /\ Range(parts[c]) = {}
  BY <1>2 DEF Range
<1>10. Owners
  <2>1. parts \in [Chunk -> Seq(DOMAIN B)]
    BY <1>2
  <2> QED BY <1>1, <1>2, <1>7, <1>9, <2>1 DEF Owners, OwnersOf
<1>11. Whole
  BY <1>9 DEF Whole
<1>12. Working
  BY <1>2, NoOpIs DEF Working, Op
<1>13. Promised
  BY <1>2, NoOpIs DEF Promised
<1>14. Exact
  <2>1. {c \in Chunk : booked[c]} = {}
    BY <1>9
  <2>2. Total(Size, {c \in Chunk : booked[c]}) = 0
    BY <2>1, TotalNone
  <2>3. Stored = SwapSize
    BY <1>1, <1>5, <1>6 DEF Stored, Offsets
  <2>4. SwapSize \in Nat /\ SwapSize < Modulus /\ Modulus \in Nat \ {0}
    BY <1>6, Constants
  <2>5. PICK x \in Nat, m \in Nat \ {0} : x = SwapSize /\ m = Modulus /\ x < m
    BY <2>4
  <2>6. (x - 0) % m = x
    <3>1. m * 0 + x = x - 0 /\ x \in 0..(m - 1)
      BY <2>5
    <3> QED BY <3>1, ModOf
  <2> QED BY <1>2, <2>2, <2>3, <2>5, <2>6 DEF Exact
<1> QED BY <1>8, <1>10, <1>11, <1>12, <1>13, <1>14 DEF PageInv

\* A step gives back a location of the chunk being freed, or adds files.
Frees(d) ==
    /\ parts[d] # <<>> /\ parts' = [parts EXCEPT ![d] = Tail(parts[d])]
    /\ Head(parts[d]) \in Range(parts[d]) /\ Range(parts'[d]) = Range(parts[d]) \ {Head(parts[d])}
    /\ \A p \in Offsets : p # Head(parts[d]) /\ ~ IsFree(p) =>
           p \in DOMAIN all_space' /\ all_space'[p] = all_space[p]
    /\ pageFileNumber' = pageFileNumber

Grows ==
    /\ parts' = parts /\ SwapSize' \in Nat /\ SwapSize' > SwapSize
    /\ \A p \in Offsets : p \in DOMAIN all_space' /\ all_space'[p] = all_space[p]

Moves == Rests \/ Grows \/ \E c \in Chunk : Acquires(c) \/ Frees(c)

LEMMA NextStep ==
    ASSUME PageInv, [Next]_vars
    PROVE  PageInv' /\ Moves
<1>1. ASSUME NEW c \in Chunk, SwapOut(c) PROVE PageInv' /\ Moves
  BY <1>1, SwapOutStep DEF Moves
<1>2. ASSUME NEW c \in Chunk, Drop(c) PROVE PageInv' /\ Moves
  BY <1>2, DropStep DEF Moves, Rests, Drop
<1>3. ASSUME NEW c \in Chunk, SwapInArrived(c) PROVE PageInv' /\ Moves
  BY <1>3, SwapInStep DEF Moves, Rests, SwapInArrived
<1>4. ASSUME NEW c \in Chunk, Discard(c) PROVE PageInv' /\ Moves
  BY <1>4, DiscardStep DEF Moves, Rests, Discard
<1>5. ASSUME NEW c \in Chunk, SwapDelete(c) PROVE PageInv' /\ Moves
  BY <1>5, SwapDeleteStep DEF Moves, Rests, SwapDelete
<1>6. ASSUME NEW c \in Chunk, FreeResumes(c) PROVE PageInv' /\ Moves
  BY <1>6, FreeResumesStep DEF Moves, Rests, FreeResumes
<1>7. ASSUME NEW c \in Chunk, CleanNext(c) PROVE PageInv' /\ Moves
  BY <1>7, CleanNextStep DEF Moves, Rests, CleanNext
<1>8. ASSUME NEW o \in aio, WriteArrived(o) PROVE PageInv' /\ Moves
  BY <1>8, ArrivedStep DEF Moves, Rests, WriteArrived
<1>9. ASSUME NEW min \in Requests, CleanUp(min) PROVE PageInv' /\ Moves
  BY <1>9, CleanUpStep DEF Moves, Rests, CleanUp
<1>10. ASSUME NEW min \in Requests, Extend(min) PROVE PageInv' /\ Moves
  BY <1>10, ExtendStep DEF Moves, Grows
<1>11. ASSUME FreeNext PROVE PageInv' /\ Moves
  <2>1. /\ PageInv'
        /\ op.freeing \in Chunk /\ parts[op.freeing] # <<>>
        /\ Head(parts[op.freeing]) \in Range(parts[op.freeing])
        /\ Range(parts'[op.freeing]) = Range(parts[op.freeing]) \ {Head(parts[op.freeing])}
        /\ \A p \in Offsets : p # Head(parts[op.freeing]) /\ ~ IsFree(p) =>
               p \in DOMAIN all_space' /\ all_space'[p] = all_space[p]
    BY <1>11, FreeStep
  <2>2. parts' = [parts EXCEPT ![op.freeing] = Tail(parts[op.freeing])] /\ pageFileNumber' = pageFileNumber
    BY <1>11 DEF FreeNext
  <2> QED BY <2>1, <2>2 DEF Moves, Frees
<1>12. ASSUME FreeWaits PROVE PageInv' /\ Moves
  BY <1>12, FreeWaitsStep DEF Moves, Rests, FreeWaits
<1>13. ASSUME CleanDone PROVE PageInv' /\ Moves
  BY <1>13, CleanDoneStep DEF Moves
<1>14. ASSUME UNCHANGED vars PROVE PageInv' /\ Moves
  <2>1. op \in Op /\ deleting \subseteq {c \in Chunk : booked[c]}
    BY OpIs DEF PageInv, Working
  <2>2. /\ UNCHANGED <<all_space, free_space, pageFileNumber, swapFree, parts, aio, booked>>
        /\ deleting' = deleting /\ op' = op
    BY <1>14 DEF vars
  <2>3. Layout' /\ Owners' /\ Stored' = Stored /\ Spare' = Spare /\ \A d \in Chunk : Left(d)' = Left(d)
    BY <2>2, MapStays
  <2>4. Whole' /\ Working' /\ Promised' /\ Exact'
    BY <2>2 DEF PageInv, Whole, Working, Promised, Exact, Stored, Spare, Left, Offsets
  <2> QED BY <2>2, <2>3, <2>4 DEF PageInv, Moves, Rests
<1>15. CASE Next
  BY <1>1, <1>2, <1>3, <1>4, <1>5, <1>6, <1>7, <1>8, <1>9, <1>10, <1>11, <1>12, <1>13, <1>14, <1>15
     DEF Next, Unwound
<1> QED BY <1>14, <1>15

-----------------------------------------------------------------------------
(* The theorems.                                                           *)

\* The inductive invariant: the layout of the files, the owners of what is not free, the
\* accounts, and where the code is in its loops, in every reachable state.
THEOREM PageInvariant == Spec => []PageInv
<1>1. Init => PageInv
  BY InitPageInv
<1>2. PageInv /\ [Next]_vars => PageInv'
  BY NextStep
<1> QED BY <1>1, <1>2, PTL DEF Spec

LEMMA InvTypeOK == ASSUME PageInv PROVE TypeOK
<1>1. /\ SwapSize \in Nat /\ Tiles(all_space, SwapSize) /\ Offsets = DOMAIN all_space
      /\ Offsets \subseteq 0..(SwapSize - 1) /\ free_space = FreeOf(all_space)
  BY LayoutIs DEF PageInv
<1>2. all_space \in [Offsets -> [size : Nat \ {0}, status : {"PAGE_FREE", "PAGE_PART", "PAGE_END"}]]
  BY <1>1 DEF Tiles, IsMap
<1>3. swapFree \in 0..(Modulus - 1)
  <2>1. Stored - Total(Size, {c \in Chunk : booked[c]}) \in Int
    BY StoredIs, Claimed DEF PageInv
  <2> QED BY <2>1, Constants, DivMod DEF PageInv, Exact
<1>4. free_space \subseteq Offsets /\ pageFileNumber \in InitialFiles..MaxFiles
  BY <1>1 DEF FreeOf, PageInv, Layout
<1>5. aio \subseteq Offsets /\ parts \in [Chunk -> Seq(Offsets)]
  BY <1>1 DEF PageInv, Owners, OwnersOf
<1> QED BY <1>1, <1>2, <1>3, <1>4, <1>5 DEF TypeOK, PageInv, Working

\* Types, for any sizes: offsets stay inside of the swap, swapFree in its width.
THEOREM PageFileTypes == Spec => []TypeOK
<1>1. PageInv => TypeOK
  BY InvTypeOK
<1> QED BY <1>1, PageInvariant, PTL

\* A location and the one that follows it are in one file.
LEMMA InOneFile ==
    ASSUME NEW A, NEW end \in Nat, Tiles(A, end), end % PageFileSize = 0,
           NEW o, NEW n, Follows(DOMAIN A, end, o, n)
    PROVE  /\ (o % PageFileSize) + (n - o) <= PageFileSize
           /\ o % PageFileSize \in Nat
<1>1. /\ o \in Nat /\ n \in Nat /\ o < n /\ o \in 0..(end - 1) /\ n <= end
      /\ \A p \in DOMAIN A : p <= o \/ n <= p
  <2>1. /\ o \in 0..(end - 1) /\ n \in 1..end /\ o < n
        /\ \A p \in DOMAIN A : p <= o \/ n <= p
    BY TileAt
  <2> QED BY <2>1
<1>2. PICK E \in Nat \ {0} : E = PageFileSize
  BY Constants
<1>3. PICK b \in Nat : b % E = 0 /\ (b + E) % E = 0 /\ b <= o /\ o < b + E
  BY <1>1, <1>2, MultipleBelow
<1>4. n <= b + E
  <2>1. CASE b + E < end
    <3>1. b + E \in 0..(end - 1)
      BY <1>2, <1>3, <2>1
    <3>2. b + E \in DOMAIN A
      BY <1>2, <1>3, <3>1 DEF Tiles
    <3>3. ~ (b + E <= o)
      BY <1>1, <1>2, <1>3
    <3> QED BY <1>1, <3>2, <3>3
  <2>2. CASE ~ (b + E < end)
    BY <1>1, <1>2, <1>3, <2>2
  <2> QED BY <2>1, <2>2
<1>5. o % E = o - b
  <2>1. PICK q \in Int : b = E * q
    <3>1. b = E * (b \div E) + (b % E) /\ b \div E \in Int
      BY DivMod
    <3>2. PICK q1 \in Int : q1 = b \div E
      BY <3>1
    <3>3. b = E * q1 + 0
      BY <1>3, <3>1, <3>2
    <3> QED BY <3>3
  <2>2. PICK r \in 0..(E - 1) : r = o - b
    BY <1>1, <1>2, <1>3
  <2>3. (E * q + r) % E = r
    BY <1>2, <2>1, <2>2, ModOf
  <2>4. E * q + r = o
    BY <1>1, <1>3, <2>1, <2>2
  <2> QED BY <2>2, <2>3, <2>4
<1> QED BY <1>1, <1>2, <1>3, <1>4, <1>5

LEMMA InvTiling == ASSUME PageInv PROVE Tiling
<1>1. /\ Layout /\ SwapSize \in Nat /\ Tiles(all_space, SwapSize) /\ Offsets = DOMAIN all_space
      /\ Offsets \subseteq 0..(SwapSize - 1) /\ SwapSize % PageFileSize = 0
  BY LayoutIs DEF PageInv
<1>2. ASSUME NEW o \in Offsets, NEW n, n = NextOffset(o)
      PROVE  /\ 0 <= n - o - all_space[o].size /\ n - o - all_space[o].size < LocationSize
             /\ OffsetInFile(o) + all_space[o].size <= PageFileSize
             /\ IsFree(o) => /\ n - o - all_space[o].size = 0
                             /\ n \in Offsets /\ OffsetInFile(n) # 0 => ~ IsFree(n)
  <2>1. Follows(DOMAIN all_space, SwapSize, o, n) /\ n \in Nat /\ o \in Nat
    BY <1>1, <1>2, NextOffsetIs
  <2>2. TileOK(all_space, o, n, SwapSize) /\ all_space[o].size \in Nat \ {0}
    BY <1>1, <2>1, TileAt
  <2>3. /\ o + all_space[o].size <= n /\ n - o - all_space[o].size < LocationSize
        /\ all_space[o].status = "PAGE_FREE" =>
              /\ n = o + all_space[o].size
              /\ n # SwapSize /\ n % PageFileSize # 0 => all_space[n].status # "PAGE_FREE"
    BY <2>2 DEF TileOK
  <2>4. (o % PageFileSize) + (n - o) <= PageFileSize /\ o % PageFileSize \in Nat
    BY <1>1, <2>1, InOneFile
  <2>5. PICK s \in Nat, r \in Nat, e \in Nat : s = all_space[o].size /\ r = o % PageFileSize /\ e = PageFileSize
    BY <2>2, <2>4, Constants
  <2>6. 0 <= n - o - s /\ r + s <= e
    BY <2>1, <2>3, <2>4, <2>5
  <2>7. IsFree(o) => n - o - s = 0
    BY <2>1, <2>3, <2>5 DEF IsFree
  <2>8. IsFree(o) /\ n \in Offsets /\ OffsetInFile(n) # 0 => ~ IsFree(n)
    <3>1. n \in Offsets => n # SwapSize
      BY <1>1, <2>1
    <3> QED BY <2>3, <3>1 DEF IsFree, OffsetInFile
  <2> QED BY <2>3, <2>5, <2>6, <2>7, <2>8 DEF OffsetInFile
<1>3. free_space = {o \in Offsets : IsFree(o)}
  BY <1>1 DEF Layout
<1> QED BY <1>2, <1>3 DEF Tiling

\* Whatever is allocated, freed, cleaned and extended: locations tile every file, what lies
\* between them is too small for one, free space is merged, and free_space lists it.
THEOREM PageFileTiling == Spec => []Tiling
<1>1. PageInv => Tiling
  BY InvTiling
<1> QED BY <1>1, PageInvariant, PTL

LEMMA InvChains == ASSUME PageInv PROVE Chains
<1>1. /\ OwnersOf(all_space, parts) /\ Offsets = DOMAIN all_space /\ IsFiniteSet(Offsets)
  <2>1. Offsets \subseteq 0..(SwapSize - 1) /\ SwapSize \in Nat /\ Offsets = DOMAIN all_space
    BY LayoutIs DEF PageInv
  <2>2. IsFiniteSet(0..(SwapSize - 1))
    <3>1. 0 \in Int /\ SwapSize - 1 \in Int
      BY <2>1
    <3> QED BY <3>1, FS_Interval
  <2> QED BY <2>1, <2>2, FS_Subset DEF PageInv, Owners
<1>2. ASSUME NEW c \in Chunk, NEW i \in DOMAIN parts[c]
      PROVE  /\ parts[c][i] \in Offsets
             /\ all_space[parts[c][i]].status = IF i = Len(parts[c]) THEN "PAGE_END" ELSE "PAGE_PART"
  BY <1>1, OwnsIs DEF OwnersOf
<1>3. ASSUME NEW o \in Offsets, ~ IsFree(o)
      PROVE  Cardinality({ci \in Chunk \X (1..Cardinality(Offsets)) :
                            ci[2] \in DOMAIN parts[ci[1]] /\ parts[ci[1]][ci[2]] = o}) = 1
  <2>1. PICK c \in Chunk : o \in Range(parts[c])
    BY <1>1, <1>3 DEF OwnersOf, IsFree
  <2>2. PICK i \in DOMAIN parts[c] : o = parts[c][i]
    BY <2>1 DEF Range
  <2>3. i \in 1..Cardinality(Offsets)
    <3>1. PICK s \in Seq(Offsets), n \in Nat : s = parts[c] /\ n = Len(s) /\ DOMAIN s = 1..n
      BY <1>1, OwnsIs
    <3>2. \A j, k \in 1..n : s[j] = s[k] => j = k
      BY <1>1, <3>1 DEF OwnersOf
    <3>3. s \in [1..n -> Offsets]
      BY <3>1
    <3>4. s \in Injection(1..n, Offsets)
      BY <3>2, <3>3 DEF Injection, IsInjective
    <3>5. Cardinality(1..n) <= Cardinality(Offsets)
      BY <1>1, <3>4, FS_Injection
    <3>6. Cardinality(1..n) = n
      <4>1. 1 \in Int /\ n \in Int /\ (IF 1 > n THEN 0 ELSE n - 1 + 1) = n
        BY <3>1
      <4> QED BY <4>1, FS_Interval
    <3>7. Cardinality(Offsets) \in Nat
      BY <1>1, FS_CardinalityType
    <3> QED BY <2>2, <3>1, <3>5, <3>6, <3>7
  <2>4. \A d \in Chunk : \A j \in DOMAIN parts[d] : parts[d][j] = o => d = c /\ j = i
    BY <1>1, <2>2 DEF OwnersOf
  <2>5. {ci \in Chunk \X (1..Cardinality(Offsets)) :
            ci[2] \in DOMAIN parts[ci[1]] /\ parts[ci[1]][ci[2]] = o} = {<<c, i>>}
    BY <2>2, <2>3, <2>4
  <2> QED BY <2>5, FS_Singleton
<1> QED BY <1>2, <1>3 DEF Chains

\* Every location in use is at one place of one chain, and a chain ends at its only
\* PAGE_END.
THEOREM PageFileChains == Spec => []Chains
<1>1. PageInv => Chains
  BY InvChains
<1> QED BY <1>1, PageInvariant, PTL

LEMMA InvSwapFreeExact == ASSUME PageInv PROVE SwapFreeExact
<1>1. BytesAt(Offsets) = Stored
  BY BytesAtIs DEF Stored
<1> QED BY <1>1 DEF PageInv, Exact, SwapFreeExact, Total, Cells

\* swapFree is exact in unsigned arithmetic.
THEOREM PageFileExact == Spec => []SwapFreeExact
<1>1. PageInv => SwapFreeExact
  BY InvSwapFreeExact
<1> QED BY <1>1, PageInvariant, PTL

LEMMA InvRoomCounted == ASSUME PageInv PROVE RoomCounted
<1>1. ASSUME op.kind = "pfmalloc", op.freeing = NoChunk, op.cleaned > op.needed
      PROVE  BytesAt(free_space) >= Size[op.chunk]
  <2>1. Size[op.chunk] - op.needed + op.cleaned <= Spare + 0 /\ op.chunk \in Chunk
    BY <1>1 DEF PageInv, Promised, Working
  <2>2. Size[op.chunk] \in Nat /\ op.needed \in Nat /\ op.cleaned \in Nat
    BY <2>1, OpIs, Constants DEF Op
  <2>3. BytesAt(free_space) = Spare /\ Spare \in Nat
    BY SpareIs
  <2> QED BY <1>1, <2>1, <2>2, <2>3
<1> QED BY <1>1 DEF RoomCounted, CleanedUp

\* What pfmalloc walks free_space for after it has cleaned is there.
THEOREM PageFileRoom == Spec => []RoomCounted
<1>1. PageInv => RoomCounted
  BY InvRoomCounted
<1> QED BY <1>1, PageInvariant, PTL
\* If all chains are empty, all locations are free.
LEMMA NothingOwned ==
    ASSUME PageInv, \A c \in Chunk : parts[c] = <<>>
    PROVE  \A o \in Offsets : IsFree(o)
<1>1. OwnersOf(all_space, parts) /\ Offsets = DOMAIN all_space
  BY LayoutIs DEF PageInv, Owners
<1>2. \A c \in Chunk : Range(parts[c]) = {}
  BY <1>1, ChainsApart
<1> QED BY <1>1, <1>2 DEF OwnersOf, IsFree

\* A map without anything in use holds one location for each file.
LEMMA FreeFiles ==
    ASSUME Layout, \A o \in Offsets : IsFree(o)
    PROVE  /\ Offsets = {b \in 0..(SwapSize - 1) : b % PageFileSize = 0}
           /\ \A o \in Offsets : all_space[o] = Location(PageFileSize, "PAGE_FREE")
<1>1. /\ SwapSize \in Nat /\ Tiles(all_space, SwapSize) /\ SwapSize % PageFileSize = 0
      /\ Offsets = DOMAIN all_space /\ Offsets \subseteq 0..(SwapSize - 1)
  BY LayoutIs
<1>2. ASSUME NEW o \in Offsets PROVE o % PageFileSize = 0
  <2>1. SUFFICES ASSUME o % PageFileSize # 0 PROVE FALSE
    OBVIOUS
  <2>2. PICK p \in Offsets : Follows(Offsets, SwapSize, p, o)
    BY <2>1, PrevOffsetIs DEF OffsetInFile
  <2>3. TileOK(all_space, p, o, SwapSize)
    BY <1>1, <2>2, TileAt
  <2>4. all_space[p].status = "PAGE_FREE" /\ all_space[o].status = "PAGE_FREE"
    BY DEF IsFree
  <2>5. o # SwapSize
    BY <1>1
  <2> QED BY <2>1, <2>3, <2>4, <2>5 DEF TileOK
<1>3. ASSUME NEW o \in Offsets PROVE all_space[o] = Location(PageFileSize, "PAGE_FREE")
  <2>1. PICK n : n = NextOffset(o) /\ Follows(DOMAIN all_space, SwapSize, o, n)
    BY <1>1, NextOffsetIs
  <2>2. /\ TileOK(all_space, o, n, SwapSize) /\ o \in 0..(SwapSize - 1) /\ n \in 1..SwapSize /\ o < n
        /\ n \in DOMAIN all_space \cup {SwapSize}
    BY <1>1, <2>1, TileAt
  <2>3. all_space[o].size \in Nat \ {0} /\ DOMAIN all_space[o] = {"size", "status"}
        /\ all_space[o] = [size |-> all_space[o].size, status |-> all_space[o].status]
    BY <1>1 DEF Tiles, IsMap
  <2>4. all_space[o].status = "PAGE_FREE" /\ n = o + all_space[o].size
    BY <2>2 DEF IsFree, TileOK
  <2>5. (o % PageFileSize) + (n - o) <= PageFileSize
    BY <1>1, <2>1, InOneFile
  <2>6. o % PageFileSize = 0 /\ n % PageFileSize = 0
    BY <1>1, <1>2, <2>2
  <2>7. o + PageFileSize <= n
    <3>1. o \in Int /\ n \in Int
      BY <1>1, <2>2
    <3> QED BY <2>2, <2>6, <3>1, Constants, MultiplesApart
  <2>8. all_space[o].size = PageFileSize
    <3>1. PICK s \in Nat, e \in Nat, a \in Nat, b \in Nat :
              s = all_space[o].size /\ e = PageFileSize /\ a = o /\ b = n
      BY <2>2, <2>3, Constants
    <3>2. 0 + (b - a) <= e /\ a + e <= b /\ b = a + s
      BY <2>4, <2>5, <2>6, <2>7, <3>1
    <3> QED BY <3>1, <3>2
  <2> QED BY <2>3, <2>4, <2>8 DEF Location
<1>4. {b \in 0..(SwapSize - 1) : b % PageFileSize = 0} \subseteq Offsets
  BY <1>1 DEF Tiles
<1> QED BY <1>1, <1>2, <1>3, <1>4

LEMMA InvMergesBack == ASSUME PageInv PROVE MergesBack
<1>1. SUFFICES ASSUME \A c \in Chunk : parts[c] = <<>>
               PROVE  /\ free_space = {f * PageFileSize : f \in 0..(pageFileNumber - 1)}
                      /\ \A o \in free_space : all_space[o].size = PageFileSize
                      /\ swapFree = SwapSize
  BY DEF MergesBack
<1>2. PICK B, n : B = all_space /\ n = pageFileNumber
  OBVIOUS
<1>3. /\ Layout /\ SwapSize \in Nat /\ Tiles(B, SwapSize) /\ n \in Nat \ {0} /\ Offsets = DOMAIN B
      /\ SwapSize = n * PageFileSize /\ SwapSize < Modulus
  <2>1. Layout /\ SwapSize \in Nat /\ Tiles(B, SwapSize) /\ n \in Nat \ {0} /\ Offsets = DOMAIN B
    BY <1>2, LayoutIs DEF PageInv
  <2>2. SwapSize < Modulus
    BY <2>1, SwapSizeIs DEF Layout
  <2> QED BY <1>2, <2>1, <2>2 DEF SwapSize
<1>4. \A o \in Offsets : IsFree(o)
  BY <1>1, NothingOwned
<1>5. /\ Offsets = {b \in 0..(SwapSize - 1) : b % PageFileSize = 0}
      /\ \A o \in Offsets : B[o] = Location(PageFileSize, "PAGE_FREE")
  BY <1>2, <1>3, <1>4, FreeFiles
<1>6. free_space = Offsets
  <2>1. free_space = {o \in Offsets : IsFree(o)}
    BY <1>3 DEF Layout
  <2> QED BY <1>4, <2>1
<1>7. free_space = {f * PageFileSize : f \in 0..(pageFileNumber - 1)}
  <2>1. 0 \in Nat /\ n \in Nat
    BY <1>3
  <2>2. {f * PageFileSize : f \in 0..(0 + n - 1)}
           = {b \in (0 * PageFileSize)..((0 + n) * PageFileSize - 1) : b % PageFileSize = 0}
    BY <2>1, Borders
  <2>3. 0..(n - 1) = 0..(0 + n - 1) /\ 0 + n = n
    BY <2>1
  <2>4. 0 * PageFileSize = 0
    BY Constants
  <2> QED BY <1>2, <1>3, <1>5, <1>6, <2>2, <2>3, <2>4
<1>8. \A o \in free_space : all_space[o].size = PageFileSize
  BY <1>2, <1>5, <1>6 DEF Location
<1>9. swapFree = SwapSize
  <2>1. {c \in Chunk : booked[c]} = {}
    BY <1>1 DEF PageInv, Whole
  <2>2. Total(Size, {c \in Chunk : booked[c]}) = 0
    BY <2>1, TotalNone
  <2>3. Stored = SwapSize
    <3>1. B = [o \in DOMAIN B |-> B[o]]
      BY <1>3 DEF Tiles, IsMap
    <3>2. DOMAIN B = {b \in 0..(n * PageFileSize - 1) : b % PageFileSize = 0}
      BY <1>3, <1>5
    <3>3. n \in Nat
      BY <1>3
    <3>4. Total(SizesOf(B), DOMAIN B) = n * PageFileSize
      BY <1>3, <1>5, <3>1, <3>2, <3>3, FreshMap
    <3> QED BY <1>2, <1>3, <3>4 DEF Stored
  <2>4. PICK x \in Nat, m \in Nat \ {0} : x = SwapSize /\ m = Modulus /\ x < m
    BY <1>3, Constants
  <2>5. (x - 0) % m = x
    <3>1. m * 0 + x = x - 0 /\ x \in 0..(m - 1)
      BY <2>4
    <3> QED BY <3>1, ModOf
  <2> QED BY <2>2, <2>3, <2>4, <2>5 DEF PageInv, Exact
<1> QED BY <1>7, <1>8, <1>9

\* Once all is given back, every file is one free block and all of it booked free:
\* allocating and freeing in any order leaves no fragments and loses no byte.
THEOREM PageFileMergesBack == Spec => []MergesBack
<1>1. PageInv => MergesBack
  BY InvMergesBack
<1> QED BY <1>1, PageInvariant, PTL

-----------------------------------------------------------------------------
(* Room: the bytes the chunks own.                                         *)

BytesOf(A, S) == UNION {o..(o + A[o].size - 1) : o \in S}

LEMMA BytesAre ==
    ASSUME NEW A, NEW end \in Nat, Tiles(A, end), NEW S \in SUBSET DOMAIN A, NEW x
    PROVE  x \in BytesOf(A, S) <=> x \in Nat /\ \E o \in S : o <= x /\ x < o + A[o].size
<1>1. \A o \in S : o \in Nat /\ A[o].size \in Nat \ {0}
  BY MapWeights
<1>2. ASSUME NEW o \in S
      PROVE  x \in o..(o + A[o].size - 1) <=> x \in Nat /\ o <= x /\ x < o + A[o].size
  <2>1. PICK a \in Nat, s \in Nat \ {0} : a = o /\ s = A[o].size
    BY <1>1
  <2>2. x \in a..(a + s - 1) <=> x \in Nat /\ a <= x /\ x < a + s
    BY <2>1
  <2> QED BY <2>1, <2>2
<1>3. x \in BytesOf(A, S) <=> \E o \in S : x \in o..(o + A[o].size - 1)
  BY DEF BytesOf
<1> QED BY <1>2, <1>3

\* Locations do not overlap, nor reach past the end.
LEMMA TilesApart ==
    ASSUME NEW A, NEW end \in Nat, Tiles(A, end), NEW o \in DOMAIN A
    PROVE  /\ o + A[o].size <= end
           /\ \A p \in DOMAIN A : o < p => o + A[o].size <= p
<1>1. DOMAIN A \subseteq 0..(end - 1)
  BY DEF Tiles
<1>2. PICK n : Follows(DOMAIN A, end, o, n)
  BY <1>1, NextIs
<1>3. /\ TileOK(A, o, n, end) /\ o \in 0..(end - 1) /\ n \in 1..end
      /\ A[o].size \in Nat \ {0} /\ \A p \in DOMAIN A : p <= o \/ n <= p
  BY <1>2, TileAt
<1>4. PICK s \in Nat \ {0}, a \in Nat, m \in Nat : s = A[o].size /\ a = o /\ m = n /\ m <= end
  BY <1>3
<1>5. a + s <= m
  BY <1>3, <1>4 DEF TileOK
<1>6. ASSUME NEW p \in DOMAIN A, a < p PROVE a + s <= p
  <2>1. p \in Nat /\ (p <= a \/ m <= p)
    BY <1>1, <1>3, <1>4
  <2> QED BY <1>4, <1>5, <1>6, <2>1
<1>7. a + s <= end
  BY <1>4, <1>5
<1> QED BY <1>4, <1>6, <1>7

LEMMA ByteOfOne ==
    ASSUME NEW A, NEW end \in Nat, Tiles(A, end), NEW o \in DOMAIN A, NEW p \in DOMAIN A, NEW x \in Nat,
           o <= x, x < o + A[o].size, p <= x, x < p + A[p].size
    PROVE  o = p
<1>1. PICK a \in Nat, b \in Nat, s \in Nat, t \in Nat : a = o /\ b = p /\ s = A[o].size /\ t = A[p].size
  BY MapWeights
<1>2. a < b => a + s <= b
  BY <1>1, TilesApart
<1>3. b < a => b + t <= a
  BY <1>1, TilesApart
<1>4. a <= x /\ x < a + s /\ b <= x /\ x < b + t
  BY <1>1
<1>5. ~ (a < b) /\ ~ (b < a)
  BY <1>1, <1>2, <1>3, <1>4
<1> QED BY <1>1, <1>5

\* Together they hold as many bytes as their sizes say.
LEMMA BytesCount ==
    ASSUME NEW A, NEW end \in Nat, Tiles(A, end), NEW S \in SUBSET DOMAIN A
    PROVE  /\ BytesOf(A, S) \subseteq 0..(end - 1)
           /\ Cardinality(BytesOf(A, S)) = Total(SizesOf(A), S)
<1>1. \A o \in S : o \in Nat /\ A[o].size \in Nat \ {0} /\ SizesOf(A)[o] = A[o].size
  BY MapWeights
<1>2. ASSUME NEW x \in BytesOf(A, S) PROVE x \in 0..(end - 1)
  <2>1. PICK o \in S : x \in Nat /\ o <= x /\ x < o + A[o].size
    BY BytesAre
  <2>2. o + A[o].size <= end
    BY TilesApart
  <2>3. PICK z \in Nat : z = o + A[o].size
    BY <1>1
  <2>4. x < z /\ z <= end
    BY <2>1, <2>2, <2>3
  <2> QED BY <2>1, <2>3, <2>4
<1> DEFINE C == Cells(SizesOf(A), S)
           T == BytesOf(A, S)
           f == [p \in C |-> p[1] + p[2] - 1]
<1>3. \A p : p \in C <=> \E o \in S : p \in {o} \X (1..A[o].size)
  BY <1>1, CellsAre
<1>4. IsFiniteSet(C)
  <2>1. Weights(SizesOf(A), S)
    BY MapWeights
  <2> QED BY <2>1, CellsFinite
<1>5. ASSUME NEW p \in C
      PROVE  /\ p = <<p[1], p[2]>> /\ p[1] \in S /\ p[1] \in Nat /\ p[2] \in Nat
             /\ p[1] <= p[1] + p[2] - 1 /\ p[1] + p[2] - 1 < p[1] + A[p[1]].size
             /\ p[1] + p[2] - 1 \in Nat
  <2>1. PICK o \in S : p \in {o} \X (1..A[o].size)
    BY <1>3
  <2>2. PICK a \in Nat, s \in Nat : a = o /\ s = A[o].size
    BY <1>1
  <2>3. p \in {a} \X (1..s)
    BY <2>1, <2>2
  <2>4. p = <<p[1], p[2]>> /\ p[1] = a /\ p[2] \in 1..s
    BY <2>3
  <2>5. PICK i \in 1..s : i = p[2]
    BY <2>4
  <2>6. a <= a + i - 1 /\ a + i - 1 < a + s /\ a + i - 1 \in Nat /\ i \in Nat
    BY <2>2, <2>5
  <2> QED BY <2>2, <2>4, <2>5, <2>6
<1>6. ASSUME NEW p \in C PROVE p[1] + p[2] - 1 \in T
  BY <1>5, BytesAre
<1>7. ASSUME NEW p \in C, NEW q \in C, p[1] + p[2] - 1 = q[1] + q[2] - 1 PROVE p = q
  <2>1. PICK x \in Nat : x = p[1] + p[2] - 1 /\ x = q[1] + q[2] - 1
    BY <1>5, <1>7
  <2>2. /\ p[1] \in DOMAIN A /\ p[1] <= x /\ x < p[1] + A[p[1]].size
        /\ q[1] \in DOMAIN A /\ q[1] <= x /\ x < q[1] + A[q[1]].size
    BY <1>5, <2>1
  <2>3. p[1] = q[1]
    BY <2>2, ByteOfOne
  <2>4. PICK a \in Nat, i \in Nat, j \in Nat : a = p[1] /\ a = q[1] /\ i = p[2] /\ j = q[2]
    BY <1>5, <2>3
  <2>5. a + i - 1 = a + j - 1
    BY <1>7, <2>4
  <2>6. i = j
    BY <2>4, <2>5
  <2> QED BY <1>5, <2>4, <2>6
<1>8. ASSUME NEW x \in T PROVE \E p \in C : x = p[1] + p[2] - 1
  <2>1. PICK o \in S : x \in Nat /\ o <= x /\ x < o + A[o].size
    BY BytesAre
  <2>2. PICK a \in Nat, s \in Nat : a = o /\ s = A[o].size
    BY <1>1
  <2>3. PICK i : i = x - a + 1
    OBVIOUS
  <2>4. i \in 1..s /\ x = a + i - 1
    BY <2>1, <2>2, <2>3
  <2>5. <<a, i>> \in {o} \X (1..A[o].size)
    BY <2>2, <2>4
  <2>6. <<a, i>> \in C
    BY <1>3, <2>5
  <2> QED BY <2>4, <2>6
<1> HIDE DEF C, T
<1>9. f \in [C -> T]
  BY <1>6
<1>10. f \in Bijection(C, T)
  <2>1. f \in Injection(C, T)
    BY <1>7, <1>9 DEF Injection, IsInjective
  <2>2. \A x \in T : \E p \in C : f[p] = x
    BY <1>8
  <2>3. f \in Surjection(C, T)
    BY <1>9, <2>2 DEF Surjection
  <2> QED BY <2>1, <2>3 DEF Bijection
<1>11. Cardinality(T) = Cardinality(C)
  <2> HIDE DEF f
  <2>1. ExistsBijection(C, T)
    BY <1>10 DEF ExistsBijection
  <2> QED BY <1>4, <2>1, FS_Bijection
<1> QED BY <1>2, <1>11 DEF C, T, Total

-----------------------------------------------------------------------------
(* Every step is one of SwapSpace.                                         *)

LEMMA OwnedIs == ASSUME NEW c \in Chunk PROVE owned[c] = BytesOf(all_space, Range(parts[c]))
BY DEF owned, BytesOf

LEMMA OwnedNextIs ==
    ASSUME NEW c \in Chunk PROVE owned'[c] = BytesOf(all_space', Range(parts'[c]))
BY DEF owned, BytesOf

\* Equal functions of the chunks.
LEMMA OwnedSame ==
    ASSUME \A c \in Chunk : owned'[c] = owned[c]
    PROVE  owned' = owned
BY DEF owned

\* The locations stay, and so do their bytes.
LEMMA BytesStay ==
    ASSUME NEW A, NEW B, NEW S, \A o \in S : A[o] = B[o]
    PROVE  BytesOf(A, S) = BytesOf(B, S)
BY DEF BytesOf

\* What is known of the maps before and after a step.
Mapped(A, P, end) == end \in Nat /\ Tiles(A, end) /\ OwnersOf(A, P)

LEMMA MappedIs == ASSUME PageInv PROVE Mapped(all_space, parts, SwapSize)
BY LayoutIs DEF PageInv, Owners, Mapped

LEMMA MappedHolds == PageInv => Mapped(all_space, parts, SwapSize)
BY MappedIs

LEMMA MappedNext == PageInv' => Mapped(all_space', parts', SwapSize')
<1>1. PageInv' => Mapped(all_space, parts, SwapSize)'
  BY MappedHolds, PTL
<1> QED BY <1>1

\* SwapSpace counts like this module does.
LEMMA SameCount == \A S : Space!Cardinality(S) = Cardinality(S)
BY DEF Space!Cardinality, Cardinality, Space!IsFiniteSet, IsFiniteSet

\* The locations of a chain are on the map, and those of two chains apart.
LEMMA ChainOnMap ==
    ASSUME NEW A, NEW P, NEW end, Mapped(A, P, end), NEW c \in Chunk
    PROVE  /\ end \in Nat /\ Range(P[c]) \in SUBSET DOMAIN A
           /\ \A o \in Range(P[c]) : o \in DOMAIN A /\ A[o].status # "PAGE_FREE"
           /\ \A d \in Chunk : d # c => BytesOf(A, Range(P[c])) \cap BytesOf(A, Range(P[d])) = {}
           /\ P[c] = <<>> => BytesOf(A, Range(P[c])) = {}
<1>1. end \in Nat /\ Tiles(A, end) /\ OwnersOf(A, P)
  BY DEF Mapped
<1>2. \A d \in Chunk : Range(P[d]) \in SUBSET DOMAIN A
  BY <1>1, ChainsApart
<1>3. ASSUME NEW d \in Chunk, d # c, NEW x, x \in BytesOf(A, Range(P[c])), x \in BytesOf(A, Range(P[d]))
      PROVE  FALSE
  <2>1. PICK o \in Range(P[c]) : x \in Nat /\ o <= x /\ x < o + A[o].size
    BY <1>1, <1>2, <1>3, BytesAre
  <2>2. PICK p \in Range(P[d]) : p <= x /\ x < p + A[p].size
    BY <1>1, <1>2, <1>3, BytesAre
  <2>3. o \in DOMAIN A /\ p \in DOMAIN A
    BY <1>2
  <2>4. o = p
    BY <1>1, <2>1, <2>2, <2>3, ByteOfOne
  <2> QED BY <1>1, <1>3, <2>4, ChainsApart
<1>4. P[c] = <<>> => BytesOf(A, Range(P[c])) = {}
  <2>1. P[c] = <<>> => Range(P[c]) = {}
    BY <1>1, ChainsApart
  <2> QED BY <2>1 DEF BytesOf
<1> QED BY <1>1, <1>2, <1>3, <1>4, ChainsApart

\* The stutters.
LEMMA RestsStep == ASSUME Rests PROVE SwapSize' = SwapSize /\ owned' = owned
<1>1. SwapSize' = SwapSize
  BY DEF Rests, SwapSize
<1>2. \A c \in Chunk : owned'[c] = owned[c]
  BY OwnedIs, OwnedNextIs DEF Rests
<1> QED BY <1>1, <1>2, OwnedSame

\* More files.
LEMMA GrowsStep == ASSUME PageInv, Grows PROVE Space!Grow
<1>1. Mapped(all_space, parts, SwapSize) /\ Offsets = DOMAIN all_space
  BY MappedIs DEF Offsets
<1>2. ASSUME NEW c \in Chunk PROVE owned'[c] = owned[c]
  <2>1. Range(parts[c]) \in SUBSET DOMAIN all_space
    BY <1>1, ChainOnMap
  <2>2. \A o \in Range(parts[c]) : all_space'[o] = all_space[o]
    BY <1>1, <2>1 DEF Grows
  <2>3. BytesOf(all_space', Range(parts[c])) = BytesOf(all_space, Range(parts[c]))
    BY <2>2, BytesStay
  <2> QED BY <2>3, OwnedIs, OwnedNextIs DEF Grows
<1>3. owned' = owned
  BY <1>2, OwnedSame
<1> QED BY <1>3 DEF Grows, Space!Grow

\* A chunk gets its locations.
LEMMA AcquiresStep ==
    ASSUME PageInv, PageInv', NEW c \in Chunk, Acquires(c)
    PROVE  Space!Acquire(c)
<1>1. PICK A, B, P, Q, end : A = all_space /\ B = all_space' /\ P = parts /\ Q = parts' /\ end = SwapSize
  OBVIOUS
<1>2. SwapSize' = SwapSize
  BY DEF Acquires, SwapSize
<1>3. Mapped(A, P, end) /\ Mapped(B, Q, end)
  BY <1>1, <1>2, MappedIs, MappedNext
<1>4. \A d \in Chunk : owned[d] = BytesOf(A, Range(P[d])) /\ owned'[d] = BytesOf(B, Range(Q[d]))
  BY <1>1, OwnedIs, OwnedNextIs
<1>5. P[c] = <<>> /\ Q[c] # <<>> /\ Q = [P EXCEPT ![c] = Q[c]] /\ c \notin deleting' /\ op'.freeing # c
  BY <1>1 DEF Acquires
<1>6. P \in [Chunk -> Seq(DOMAIN A)]
  BY <1>3 DEF Mapped, OwnersOf
<1>7. owned[c] = {}
  BY <1>3, <1>4, <1>5, ChainOnMap
<1>8. ASSUME NEW d \in Chunk, d # c PROVE owned'[d] = owned[d]
  <2>1. Q[d] = P[d]
    BY <1>5, <1>6, <1>8
  <2>2. \A o \in Range(P[d]) : o \in DOMAIN A /\ A[o].status # "PAGE_FREE"
    BY <1>3, ChainOnMap
  <2>3. \A o \in DOMAIN A : A[o].status # "PAGE_FREE" => B[o] = A[o]
    BY <1>1 DEF Acquires, Keeps, Offsets, IsFree
  <2>4. BytesOf(B, Range(P[d])) = BytesOf(A, Range(P[d]))
    BY <2>2, <2>3, BytesStay
  <2> QED BY <1>4, <2>1, <2>4
<1>9. owned'[c] \subseteq 0..(end - 1) /\ Cardinality(owned'[c]) = Size[c]
  <2>1. end \in Nat /\ Tiles(B, end) /\ Range(Q[c]) \in SUBSET DOMAIN B
    BY <1>3, ChainOnMap DEF Mapped
  <2>2. owned'[c] \subseteq 0..(end - 1) /\ Cardinality(owned'[c]) = Total(SizesOf(B), Range(Q[c]))
    BY <1>4, <2>1, BytesCount
  <2>3. Total(SizesOf(B), Range(Q[c])) = Size[c]
    <3>1. Whole'
      BY DEF PageInv
    <3> QED BY <1>1, <1>5, <3>1 DEF Whole, Left
  <2> QED BY <2>2, <2>3
<1>10. ASSUME NEW d \in Chunk, NEW x, x \in owned'[c], x \in owned[d] PROVE FALSE
  <2>1. d # c
    BY <1>7, <1>10
  <2>2. x \in owned'[d]
    BY <1>8, <1>10, <2>1
  <2> QED BY <1>3, <1>4, <1>10, <2>1, <2>2, ChainOnMap
<1>11. owned'[c] \subseteq (0..(SwapSize - 1)) \ UNION {owned[d] : d \in Chunk}
  BY <1>1, <1>9, <1>10
<1> QED BY <1>2, <1>7, <1>8, <1>9, <1>11, SameCount DEF Space!Acquire, Space!OnlyFor

\* A location is given back.
LEMMA FreesStep ==
    ASSUME PageInv, PageInv', NEW c \in Chunk, Frees(c)
    PROVE  Space!GiveBack(c)
<1>1. PICK A, B, P, Q, end, h : /\ A = all_space /\ B = all_space' /\ P = parts /\ Q = parts'
                                /\ end = SwapSize /\ h = Head(parts[c])
  OBVIOUS
<1>2. SwapSize' = SwapSize
  BY DEF Frees, SwapSize
<1>3. Mapped(A, P, end) /\ Mapped(B, Q, end)
  BY <1>1, <1>2, MappedIs, MappedNext
<1>4. \A d \in Chunk : owned[d] = BytesOf(A, Range(P[d])) /\ owned'[d] = BytesOf(B, Range(Q[d]))
  BY <1>1, OwnedIs, OwnedNextIs
<1>5. /\ P[c] # <<>> /\ Q = [P EXCEPT ![c] = Tail(P[c])]
      /\ h \in Range(P[c]) /\ Range(Q[c]) = Range(P[c]) \ {h}
      /\ \A o \in DOMAIN A : o # h /\ A[o].status # "PAGE_FREE" => B[o] = A[o]
  BY <1>1 DEF Frees, Offsets, IsFree
<1>6. P \in [Chunk -> Seq(DOMAIN A)] /\ Tiles(A, end) /\ OwnersOf(A, P) /\ end \in Nat
  BY <1>3 DEF Mapped, OwnersOf
<1>7. \A d \in Chunk : /\ Range(P[d]) \in SUBSET DOMAIN A
                       /\ \A o \in Range(P[d]) : o \in DOMAIN A /\ A[o].status # "PAGE_FREE"
  BY <1>3, ChainOnMap
<1>8. ASSUME NEW d \in Chunk, d # c PROVE owned'[d] = owned[d]
  <2>1. Q[d] = P[d]
    BY <1>5, <1>6, <1>8
  <2>2. h \notin Range(P[d])
    BY <1>5, <1>6, <1>8, ChainsApart
  <2>3. \A o \in Range(P[d]) : B[o] = A[o]
    BY <1>5, <1>7, <2>2
  <2>4. BytesOf(B, Range(P[d])) = BytesOf(A, Range(P[d]))
    BY <2>3, BytesStay
  <2> QED BY <1>4, <2>1, <2>4
<1>9. owned'[c] = BytesOf(A, Range(P[c]) \ {h})
  <2>1. \A o \in Range(P[c]) \ {h} : B[o] = A[o]
    BY <1>5, <1>7
  <2>2. BytesOf(B, Range(P[c]) \ {h}) = BytesOf(A, Range(P[c]) \ {h})
    BY <2>1, BytesStay
  <2> QED BY <1>4, <1>5, <2>2
<1>10. owned'[c] \subseteq owned[c]
  BY <1>4, <1>9 DEF BytesOf
<1>11. h \in owned[c] /\ h \notin owned'[c]
  <2>1. h \in DOMAIN A /\ h \in Nat /\ A[h].size \in Nat \ {0}
    BY <1>5, <1>6, <1>7, MapWeights
  <2>2. h <= h /\ h < h + A[h].size
    BY <2>1
  <2>3. h \in owned[c]
    <3>1. Range(P[c]) \in SUBSET DOMAIN A /\ \E o \in Range(P[c]) : o <= h /\ h < o + A[o].size
      BY <1>5, <1>7, <2>2
    <3>2. h \in BytesOf(A, Range(P[c]))
      BY <1>6, <2>1, <3>1, BytesAre
    <3> QED BY <1>4, <3>2
  <2>4. ASSUME h \in owned'[c] PROVE FALSE
    <3>1. Range(P[c]) \ {h} \in SUBSET DOMAIN A
      BY <1>7
    <3>2. PICK o \in Range(P[c]) \ {h} : o <= h /\ h < o + A[o].size
      BY <1>6, <1>9, <2>4, <3>1, BytesAre
    <3>3. o = h
      BY <1>6, <2>1, <2>2, <3>1, <3>2, ByteOfOne
    <3> QED BY <3>3
  <2> QED BY <2>3, <2>4
<1> QED BY <1>2, <1>8, <1>10, <1>11 DEF Space!GiveBack, Space!OnlyFor

LEMMA SpaceStep ==
    ASSUME PageInv, PageInv', Moves
    PROVE  [Space!Next]_<<SwapSize, owned>>
<1>1. CASE Rests
  BY <1>1, RestsStep
<1>2. CASE Grows
  BY <1>2, GrowsStep DEF Space!Next
<1>3. CASE \E c \in Chunk : Acquires(c)
  BY <1>3, AcquiresStep DEF Space!Next
<1>4. CASE \E c \in Chunk : Frees(c)
  BY <1>4, FreesStep DEF Space!Next
<1> QED BY <1>1, <1>2, <1>3, <1>4 DEF Moves

LEMMA InitSpace == ASSUME Init PROVE Space!Init
<1>1. SwapSize \in Nat
  BY InitPageInv, LayoutIs DEF PageInv
<1>2. \A c \in Chunk : parts[c] = <<>> /\ DOMAIN parts[c] = {} /\ Range(parts[c]) = {}
  BY DEF Init, Range
<1>3. owned = [c \in Chunk |-> {}]
  BY <1>2 DEF owned
<1> QED BY <1>1, <1>3 DEF Space!Init

\* The page file implements SwapSpace: chunks get disjoint room inside of the swap, exactly
\* as much as they need, keep it until they give it back, and only files are added.
THEOREM PageFileImplementsSwapSpace == Spec => ImplementsSwapSpace
<1>1. Init => PageInv /\ Space!Init
  BY InitPageInv, InitSpace
<1>2. PageInv /\ [Next]_vars => PageInv' /\ [Space!Next]_<<SwapSize, owned>>
  BY NextStep, SpaceStep
<1> QED BY <1>1, <1>2, PTL DEF Spec, ImplementsSwapSpace, Space!Spec
=============================================================================
