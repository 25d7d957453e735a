----------------------- MODULE HandleProtocol_proofs -----------------------
(***************************************************************************)
(* Proofs about HandleProtocol, for any number of threads, managedPtrs,    *)
(* handles and chunks: the structure of the operations, Struct, holds      *)
(* always.  It says what each step that is left to take relies on, and     *)
(* that trackers count references.  What is counted is in                  *)
(* HandleProtocolCount_proofs.                                             *)
(***************************************************************************)
EXTENDS HandleProtocol, FiniteSetTheorems, SequenceTheorems, TLAPS

Steps ==
    [op : {"set", "await"}, b : Block, flag : Flags] \cup
    [op : {"unset"}, b : Block, n : {1, 2}] \cup
    [op : {"prepare", "mfree", "pffree", "take", "loc"}, b : Block] \cup
    [op : {"adopt"}, b : Block, flags : SUBSET Flags]

\* The types of the variables; that use counts are natural follows from what they count.
Basic ==
    /\ tracker \in [Block -> Nat]
    /\ status \in [Block -> Present \cup Outside \cup {"ABSENT", "SWAPIN"}]
    /\ useCnt \in [Block -> Int]
    /\ ptr \in [Ptr -> Block \cup {None}] /\ data \in [Handle -> Ptr \cup {None}]
    /\ loaded \in [Handle -> SUBSET Flags]
    /\ given \cup failed \subseteq {h \in Handle : data[h] # None}
    /\ mutex \in Thread \cup {NoThread} /\ ended \in BOOLEAN

\* The steps and objects of a thread; it has objects as long as it has steps.
Typed ==
    /\ todo \in [Thread -> Seq(Steps)] /\ on \in [Thread -> Seq(Ptr \cup Handle)]
    /\ \A t \in Thread : /\ todo[t] = <<>> => on[t] = <<>>
                         /\ todo[t] # <<>> => Len(on[t]) \in {1, 2}

\* The object an operation changes is in no other, except for pulls from one handle;
\* if it is a managedPtr, no handle is on it.
Apart == \A t \in Thread : todo[t] # <<>> =>
    /\ on[t][1] \in Ptr => ~ Handled(on[t][1])
    /\ \A u \in Thread \ {t} : \/ on[t][1] \notin Range(on[u])
                               \/ on[t][1] \in Handle /\ Pulls(t, on[t][1]) /\ Pulls(u, on[t][1])

\* A handle is on a managedPtr that is alive, and has uses only of a chunk.
Anchored == \A h \in Handle :
    /\ data[h] # None => ptr[data[h]] # None
    /\ loaded[h] # {} => data[h] # None /\ Chunk(h) \notin Empty

\* Thread t works for a handle of chunk b, for a managedPtr of b, or deletes b
\* with a step after its i-th.
ForHandle(t, b) == on[t][1] \in Handle /\ data[on[t][1]] # None /\ Chunk(on[t][1]) = b

Deletes(t, b) ==
    /\ on[t][1] \in Ptr /\ ptr[on[t][1]] = None
    /\ tracker[b] = 0 /\ status[b] # "ABSENT"

ForPtr(t, i, b) ==
    \/ /\ on[t][1] \in Ptr /\ ptr[on[t][1]] = b
    \/ /\ Deletes(t, b)
       /\ \E j \in (i + 1)..Len(todo[t]) : todo[t][j].op = "mfree" /\ todo[t][j].b = b

\* What each step of an operation relies on.
SetOK(t, i) == LET s == todo[t][i] IN
    \/ /\ ForHandle(t, s.b) /\ s.flag \in loaded[on[t][1]]
       /\ \/ \A j \in (i + 1)..Len(todo[t]) : todo[t][j].op = "set" /\ todo[t][j].flag # s.flag
          \/ Len(todo[t]) = i + 1 /\ todo[t][i + 1].op = "loc"
    \/ /\ ForPtr(t, i, s.b)
       /\ i < Len(todo[t]) /\ todo[t][i + 1] = Unset(s.b, 1)

UnsetOK(t, i) == LET s == todo[t][i] IN
    \/ /\ ForHandle(t, s.b) /\ i < Len(todo[t])
       /\ \A j \in (i + 1)..Len(todo[t]) : todo[t][j].op \in {"unset", "adopt"}
    \/ /\ on[t][1] \in Handle /\ Len(on[t]) = 2 /\ on[t][2] \in Ptr /\ ptr[on[t][2]] = s.b
       /\ i = Len(todo[t])
    \/ /\ ForPtr(t, i, s.b)
       /\ \A j \in (i + 1)..Len(todo[t]) : todo[t][j].op \in {"mfree", "take"}

MfreeOK(t, i) ==
    /\ Deletes(t, todo[t][i].b)
    /\ \A j \in (i + 1)..Len(todo[t]) : todo[t][j].op = "take"

TakeOK(t, i) == LET s == todo[t][i] IN
    /\ i = Len(todo[t]) /\ Len(on[t]) = 2 /\ on[t][1] \in Ptr /\ on[t][2] \in Ptr
    /\ ptr[on[t][1]] = None
    /\ s.b \in Empty \/ ptr[on[t][2]] = s.b

PrepareOK(t, i) ==
    /\ i = Len(todo[t]) /\ ForHandle(t, todo[t][i].b)
    /\ loaded[on[t][1]] = {} /\ on[t][1] \notin given \cup failed

LocOK(t, i) ==
    /\ i = Len(todo[t]) /\ Len(on[t]) = 1
    /\ ForHandle(t, todo[t][i].b) /\ loaded[on[t][1]] # {}

AdoptOK(t, i) == LET s == todo[t][i] IN
    /\ i = Len(todo[t]) /\ Len(on[t]) = 2 /\ on[t][1] \in Handle /\ on[t][2] \in Handle
    /\ data[on[t][1]] # None /\ data[on[t][2]] # None /\ Chunk(on[t][2]) = s.b
    /\ s.flags # {} => s.b \notin Empty
    /\ loaded[on[t][1]] = {} /\ on[t][1] \notin given \cup failed

StepOK(t, i) == LET s == todo[t][i] IN
    /\ s.op \notin {"take", "adopt"} => s.b \notin Empty
    /\ s.op \in {"set", "await"} => SetOK(t, i)
    /\ s.op = "unset" => UnsetOK(t, i)
    /\ s.op \in {"mfree", "pffree"} => MfreeOK(t, i)
    /\ s.op = "take" => TakeOK(t, i)
    /\ s.op = "prepare" => PrepareOK(t, i)
    /\ s.op = "loc" => LocOK(t, i)
    /\ s.op = "adopt" => AdoptOK(t, i)
    /\ s.op \in {"await", "pffree"} => i = 1

Planned == \A t \in Thread : \A i \in 1..Len(todo[t]) : StepOK(t, i)

\* A chunk is deleted by one thread.
DeletedOnce == \A t, u \in Thread : \A i \in 1..Len(todo[t]), j \in 1..Len(todo[u]) :
    /\ todo[t][i].op \in {"mfree", "pffree"} /\ todo[u][j].op \in {"mfree", "pffree"}
    /\ todo[t][i].b = todo[u][j].b
    => t = u

\* Of the threads that pull from a handle, one sets its use for a flag.
SetOnce == \A t, u \in Thread : \A i \in 1..Len(todo[t]), j \in 1..Len(todo[u]) :
    /\ todo[t][i].op \in {"set", "await"} /\ todo[u][j].op \in {"set", "await"}
    /\ on[t][1] = on[u][1] /\ todo[t][i].flag = todo[u][j].flag
    => t = u

\* Trackers count references; who is referred to is there, the empty chunk never.
Referred ==
    /\ \A b \in Block \ Empty : /\ tracker[b] = Cardinality(References(b))
                                /\ tracker[b] > 0 => status[b] # "ABSENT"
    /\ \A b \in Empty : tracker[b] >= Cardinality(References(b)) /\ status[b] = "ABSENT"

-----------------------------------------------------------------------------
(* The sequences of steps the operations are made of.                      *)

\* The first step of a sequence, and those left.
LEMMA TailIs ==
    ASSUME NEW s \in Seq(Steps), s # <<>>
    PROVE  /\ Tail(s) \in Seq(Steps) /\ Len(Tail(s)) = Len(s) - 1
           /\ Len(s) \in Nat \ {0} /\ Head(s) = s[1] /\ s[1] \in Steps
           /\ \A i \in 1..Len(Tail(s)) : Tail(s)[i] = s[i + 1]
OBVIOUS

LEMMA Concat ==
    ASSUME NEW d \in Seq(Steps), NEW rest \in Seq(Steps)
    PROVE  /\ d \o rest \in Seq(Steps) /\ Len(d \o rest) = Len(d) + Len(rest)
           /\ \A i \in 1..(Len(d) + Len(rest)) :
                 (d \o rest)[i] = IF i <= Len(d) THEN d[i] ELSE rest[i - Len(d)]
BY ConcatProperties

LEMMA Pair ==
    ASSUME NEW S, NEW x \in S, NEW y \in S
    PROVE  <<x>> \o <<y>> = <<x, y>>
<1> DEFINE s == <<x>> \o <<y>>
           q == <<x, y>>
<1>1. <<x>> \in Seq(S) /\ <<y>> \in Seq(S) /\ Len(<<x>>) = 1 /\ Len(<<y>>) = 1
  OBVIOUS
<1>2. /\ s \in Seq(S) /\ Len(s) = 2
      /\ \A i \in 1..2 : s[i] = IF i <= 1 THEN <<x>>[i] ELSE <<y>>[i - 1]
  BY <1>1, ConcatProperties
<1>3. s[1] = x /\ s[2] = y
  BY <1>2
<1>4. q \in Seq(S) /\ Len(q) = 2 /\ q[1] = x /\ q[2] = y
  OBVIOUS
<1> HIDE DEF s, q
<1>5. \A i \in 1..Len(s) : s[i] = q[i]
  <2>1. \A i \in 1..Len(s) : i = 1 \/ i = 2
    BY <1>2
  <2> QED BY <1>3, <1>4, <2>1
<1>6. s = q
  BY <1>2, <1>4, <1>5, SeqEqual
<1> QED BY <1>6 DEF s, q

\* Flags are two, and so there are at most two uses to set.
LEMMA FlagSets ==
    ASSUME NEW S \in SUBSET Flags
    PROVE  /\ S \in {{}, {"read"}, {"write"}, {"read", "write"}}
           /\ IsFiniteSet(S) /\ Cardinality(S) \in {0, 1, 2}
           /\ Cardinality(S) = 0 <=> S = {}
           /\ Cardinality(S) = 2 <=> S = Flags
<1>1. S \in {{}, {"read"}, {"write"}, {"read", "write"}}
  BY DEF Flags
<1>2. Cardinality({}) = 0 /\ IsFiniteSet({})
  BY FS_EmptySet
<1>3. /\ Cardinality({"read"}) = 1 /\ IsFiniteSet({"read"})
      /\ Cardinality({"write"}) = 1 /\ IsFiniteSet({"write"})
  BY FS_Singleton
<1>4. Cardinality({"read", "write"}) = 2 /\ IsFiniteSet({"read", "write"})
  <2>1. {"read", "write"} = {"read"} \cup {"write"} /\ "write" \notin {"read"}
    OBVIOUS
  <2>2. /\ Cardinality({"read"} \cup {"write"}) = Cardinality({"read"}) + 1
        /\ IsFiniteSet({"read"} \cup {"write"})
    BY <1>3, <2>1, FS_AddElement
  <2> QED BY <1>3, <2>1, <2>2
<1>5. {"read"} # {} /\ {"write"} # {} /\ {"read"} # Flags /\ {"write"} # Flags /\ {} # Flags
  BY DEF Flags
<1>6. CASE S = {}
  BY <1>2, <1>5, <1>6
<1>7. CASE S = {"read"}
  BY <1>3, <1>5, <1>7
<1>8. CASE S = {"write"}
  BY <1>3, <1>5, <1>8
<1>9. CASE S = {"read", "write"}
  <2>1. Flags = {"read", "write"} /\ S # {}
    BY <1>9 DEF Flags
  <2> QED BY <1>4, <1>9, <2>1
<1> QED BY <1>1, <1>6, <1>7, <1>8, <1>9

\* The uses set for a handle: one step for each flag.
SetsFor(s, b, S) ==
    /\ s \in Seq(Steps)
    /\ s = <<>> <=> S = {}
    /\ \A i \in 1..Len(s) : /\ s[i].op = "set" /\ s[i].b = b /\ s[i].flag \in S
                           /\ \A j \in (i + 1)..Len(s) : s[j].flag # s[i].flag
    /\ \A f \in S : \E i \in 1..Len(s) : s[i].flag = f

LEMMA SetUsesIs ==
    ASSUME NEW b \in Block, NEW S \in SUBSET Flags
    PROVE  SetsFor(SetUses(b, S), b, S)
<1> DEFINE w == Set(b, "write")
           r == Set(b, "read")
<1>1. /\ w \in Steps /\ w.op = "set" /\ w.b = b /\ w.flag = "write"
      /\ r \in Steps /\ r.op = "set" /\ r.b = b /\ r.flag = "read"
  BY DEF Set, Steps, Flags
<1>2. SetUses(b, S) = (IF "write" \in S THEN <<w>> ELSE <<>>) \o (IF "read" \in S THEN <<r>> ELSE <<>>)
  BY DEF SetUses
<1> HIDE DEF w, r
<1>3. CASE S = {}
  <2>1. SetUses(b, S) = <<>>
    BY <1>2, <1>3
  <2>2. SetsFor(<<>>, b, {})
    BY <1>1 DEF SetsFor
  <2> QED BY <1>3, <2>1, <2>2
<1>4. CASE S = {"read"}
  <2>1. SetUses(b, S) = <<r>>
    BY <1>1, <1>2, <1>4, ConcatEmptySeq
  <2>2. SetsFor(<<r>>, b, {"read"})
    BY <1>1 DEF SetsFor
  <2> QED BY <1>4, <2>1, <2>2
<1>5. CASE S = {"write"}
  <2>1. SetUses(b, S) = <<w>>
    BY <1>1, <1>2, <1>5, ConcatEmptySeq
  <2>2. SetsFor(<<w>>, b, {"write"})
    BY <1>1 DEF SetsFor
  <2> QED BY <1>5, <2>1, <2>2
<1>6. CASE S = {"read", "write"}
  <2>1. SetUses(b, S) = <<w, r>>
    <3>1. SetUses(b, S) = <<w>> \o <<r>>
      BY <1>2, <1>6
    <3> QED BY <1>1, <3>1, Pair
  <2> DEFINE s == <<w, r>>
  <2>2. s \in Seq(Steps) /\ s # <<>> /\ Len(s) = 2 /\ s[1] = w /\ s[2] = r
    BY <1>1
  <2>3. /\ \A i \in 1..Len(s) : i \in {1, 2} /\ \A j \in (i + 1)..Len(s) : i = 1 /\ j = 2
        /\ 1 \in 1..Len(s) /\ 2 \in 1..Len(s)
    BY <2>2
  <2> HIDE DEF s
  <2>4. SetsFor(s, b, {"read", "write"})
    BY <1>1, <2>2, <2>3 DEF SetsFor
  <2> QED BY <1>6, <2>1, <2>4 DEF s
<1> QED BY <1>3, <1>4, <1>5, <1>6, FlagSets

\* Deleting a chunk, and what comes after it: the last of n steps is mfree.
DeletionOf(s, b, rest, n) ==
    /\ s \in Seq(Steps) /\ Len(s) = n + Len(rest) /\ s[n] = Step("mfree", b)
    /\ n \in {1, 3}
    /\ n = 3 => s[1] = Set(b, "write") /\ s[2] = Unset(b, 1)
    /\ \A i \in (n + 1)..Len(s) : s[i] = rest[i - n]

LEMMA StepsAre ==
    ASSUME NEW b \in Block
    PROVE  /\ \A f \in Flags : /\ Set(b, f) \in Steps /\ Set(b, f).op = "set"
                              /\ Set(b, f).b = b /\ Set(b, f).flag = f
           /\ \A n \in {1, 2} : /\ Unset(b, n) \in Steps /\ Unset(b, n).op = "unset"
                               /\ Unset(b, n).b = b /\ Unset(b, n).n = n
           /\ \A fs \in SUBSET Flags : /\ Adopts(b, fs) \in Steps /\ Adopts(b, fs).op = "adopt"
                                      /\ Adopts(b, fs).b = b /\ Adopts(b, fs).flags = fs
           /\ \A op \in {"prepare", "mfree", "pffree", "take", "loc"} :
                  Step(op, b) \in Steps /\ Step(op, b).op = op /\ Step(op, b).b = b
           /\ {"write", "read"} = Flags
BY DEF Set, Unset, Adopts, Step, Steps, Flags

LEMMA MDeleteIs ==
    ASSUME NEW b \in Block, NEW rest \in Seq(Steps)
    PROVE  /\ MDelete(b) \in Seq(Steps)
           /\ b \in Empty => MDelete(b) \o rest = rest
           /\ b \notin Empty => \E n \in {1, 3} : DeletionOf(MDelete(b) \o rest, b, rest, n)
<1> DEFINE w == Set(b, "write")
           u == Unset(b, 1)
           m == Step("mfree", b)
           s == MDelete(b) \o rest
<1>1. w \in Steps /\ u \in Steps /\ m \in Steps
  BY StepsAre
<1>2. MDelete(b) = IF b \in Empty THEN <<>> ELSE IF b \in HasDestructor THEN <<w, u, m>> ELSE <<m>>
  BY DEF MDelete
<1>3. Len(rest) \in Nat /\ rest \in [1..Len(rest) -> Steps]
  BY LenProperties
<1> HIDE DEF w, u, m
<1>4. CASE b \in Empty
  <2>1. MDelete(b) = <<>>
    BY <1>2, <1>4
  <2> QED BY <1>4, <2>1, ConcatEmptySeq
<1>5. CASE b \notin Empty /\ b \in HasDestructor
  <2> DEFINE d == <<w, u, m>>
  <2>1. d \in Seq(Steps) /\ Len(d) = 3 /\ d[1] = w /\ d[2] = u /\ d[3] = m
    BY <1>1
  <2>2. MDelete(b) = d
    BY <1>2, <1>5
  <2> HIDE DEF d
  <2>3. /\ d \o rest \in Seq(Steps) /\ Len(d \o rest) = Len(d) + Len(rest)
        /\ \A i \in 1..(Len(d) + Len(rest)) :
              (d \o rest)[i] = IF i <= Len(d) THEN d[i] ELSE rest[i - Len(d)]
    BY <2>1, Concat
  <2>4. (d \o rest)[1] = w /\ (d \o rest)[2] = u /\ (d \o rest)[3] = m
    BY <1>3, <2>1, <2>3
  <2>5. \A i \in (3 + 1)..Len(d \o rest) : (d \o rest)[i] = rest[i - 3]
    <3>1. \A i \in (3 + 1)..(3 + Len(rest)) : i \in 1..(3 + Len(rest)) /\ ~ (i <= 3)
      BY <1>3
    <3> QED BY <2>1, <2>3, <3>1
  <2>6. DeletionOf(d \o rest, b, rest, 3)
    BY <2>1, <2>3, <2>4, <2>5 DEF DeletionOf, w, u, m
  <2> QED BY <1>5, <2>1, <2>2, <2>6
<1>6. CASE b \notin Empty /\ b \notin HasDestructor
  <2> DEFINE d == <<m>>
  <2>1. d \in Seq(Steps) /\ Len(d) = 1 /\ d[1] = m
    BY <1>1
  <2>2. MDelete(b) = d
    BY <1>2, <1>6
  <2> HIDE DEF d
  <2>3. /\ d \o rest \in Seq(Steps) /\ Len(d \o rest) = Len(d) + Len(rest)
        /\ \A i \in 1..(Len(d) + Len(rest)) :
              (d \o rest)[i] = IF i <= Len(d) THEN d[i] ELSE rest[i - Len(d)]
    BY <2>1, Concat
  <2>4. (d \o rest)[1] = m
    BY <1>3, <2>1, <2>3
  <2>5. \A i \in (1 + 1)..Len(d \o rest) : (d \o rest)[i] = rest[i - 1]
    <3>1. \A i \in (1 + 1)..(1 + Len(rest)) : i \in 1..(1 + Len(rest)) /\ ~ (i <= 1)
      BY <1>3
    <3> QED BY <2>1, <2>3, <3>1
  <2>6. DeletionOf(d \o rest, b, rest, 1)
    BY <2>1, <2>3, <2>4, <2>5 DEF DeletionOf, m
  <2> QED BY <1>6, <2>1, <2>2, <2>6
<1> QED BY <1>4, <1>5, <1>6

\* Unsetting the uses of a handle one by one, and then one step more.
LEMMA UnsetsAre ==
    ASSUME NEW b \in Block, NEW n \in {0, 1, 2}, NEW a \in Steps
    PROVE  LET s == [i \in 1..n |-> Unset(b, 1)] \o <<a>>
           IN  /\ s \in Seq(Steps) /\ Len(s) = n + 1 /\ s[n + 1] = a
               /\ \A i \in 1..n : s[i] = Unset(b, 1)
<1> DEFINE d == [i \in 1..n |-> Unset(b, 1)]
           s == d \o <<a>>
<1>1. d \in Seq(Steps) /\ Len(d) = n /\ \A i \in 1..n : d[i] = Unset(b, 1)
  <2>1. Unset(b, 1) \in Steps
    BY StepsAre
  <2>2. n \in Nat /\ d \in [1..n -> Steps] /\ DOMAIN d = 1..n /\ \A i \in 1..n : d[i] = Unset(b, 1)
    BY <2>1
  <2> HIDE DEF d
  <2>3. d \in Seq(Steps)
    BY <2>2, SeqDef
  <2>4. Len(d) = n
    <3>1. Len(d) \in Nat /\ DOMAIN d = 1..Len(d)
      BY <2>3, LenProperties
    <3> QED BY <2>2, <3>1
  <2> QED BY <2>2, <2>3, <2>4
<1> HIDE DEF d
<1>2. <<a>> \in Seq(Steps) /\ Len(<<a>>) = 1 /\ <<a>>[1] = a
  OBVIOUS
<1>3. /\ s \in Seq(Steps) /\ Len(s) = n + 1
      /\ \A i \in 1..(n + 1) : s[i] = IF i <= n THEN d[i] ELSE <<a>>[i - n]
  BY <1>1, <1>2, Concat
<1>4. s[n + 1] = a /\ \A i \in 1..n : s[i] = Unset(b, 1)
  BY <1>1, <1>2, <1>3
<1> QED BY <1>3, <1>4 DEF d
-----------------------------------------------------------------------------
(* What a step of thread t does to the others.                             *)

Others(t) == \A u \in Thread \ {t} : todo'[u] = todo[u] /\ on'[u] = on[u]

\* Every object but x stays as it is, and every handle on its chunk.
KeepsBut(x) ==
    /\ \A p \in Ptr \ {x} : ptr'[p] = ptr[p]
    /\ \A h \in Handle \ {x} : /\ data'[h] = data[h] /\ loaded'[h] = loaded[h]
                              /\ (h \in given' <=> h \in given)
                              /\ (h \in failed' <=> h \in failed)
    /\ \A h \in Handle : data[h] # None => ptr'[data[h]] = ptr[data[h]]

\* Who else works on x pulls from it, and finds it on the same managedPtr.
Shared(t, x) == \A u \in Thread \ {t} : x \in Range(on[u]) =>
    x \in Handle /\ Pulls(u, x) /\ data'[x] = data[x] /\ loaded[x] \subseteq loaded'[x]

\* A chunk others delete stays deleted, and is there until they have done so.
Spares(t) == \A u \in Thread \ {t} : \A j \in 1..Len(todo[u]) :
    todo[u][j].op \in {"mfree", "pffree"} =>
        /\ tracker[todo[u][j].b] = 0 => tracker'[todo[u][j].b] = 0
        /\ status[todo[u][j].b] # "ABSENT" => status'[todo[u][j].b] # "ABSENT"

Harmless(t, x) == Others(t) /\ KeepsBut(x) /\ Shared(t, x) /\ Spares(t)

LEMMA TupleRange ==
    /\ \A x : Range(<<x>>) = {x}
    /\ \A x, y : Range(<<x, y>>) = {x, y}
    /\ Range(<<>>) = {}
<1>1. \A x : Range(<<x>>) = {x}
  BY DEF Range
<1>2. \A x, y : Range(<<x, y>>) = {x, y}
  BY DEF Range
<1>3. Range(<<>>) = {}
  BY DEF Range
<1> QED BY <1>1, <1>2, <1>3

\* A thread with steps to take has an object it works for, and perhaps another.
LEMMA Working ==
    ASSUME Typed, NEW t \in Thread, todo[t] # <<>>
    PROVE  /\ todo[t] \in Seq(Steps) /\ Len(todo[t]) \in Nat \ {0}
           /\ \A i \in 1..Len(todo[t]) : todo[t][i] \in Steps
           /\ on[t] \in Seq(Ptr \cup Handle) /\ Len(on[t]) \in {1, 2}
           /\ on[t][1] \in Ptr \cup Handle /\ on[t][1] \in Range(on[t])
           /\ Len(on[t]) = 2 => on[t][2] \in Ptr \cup Handle /\ on[t][2] \in Range(on[t])
<1>1. todo[t] \in Seq(Steps) /\ on[t] \in Seq(Ptr \cup Handle) /\ Len(on[t]) \in {1, 2}
  BY DEF Typed
<1>2. DOMAIN on[t] = 1..Len(on[t]) /\ \A i \in 1..Len(on[t]) : on[t][i] \in Ptr \cup Handle
  BY <1>1, LenProperties, ElementOfSeq
<1>3. Len(todo[t]) \in Nat \ {0} /\ \A i \in 1..Len(todo[t]) : todo[t][i] \in Steps
  BY <1>1, EmptySeq, ElementOfSeq
<1> QED BY <1>1, <1>2, <1>3 DEF Range

LEMMA StepKinds == \A s \in Steps :
    /\ s.b \in Block
    /\ s.op \in {"set", "await"} => s.flag \in Flags
    /\ s.op = "unset" => s.n \in {1, 2}
    /\ s.op = "adopt" => s.flags \in SUBSET Flags
    /\ s.op \in {"set", "await", "unset", "prepare", "mfree", "pffree", "take", "loc", "adopt"}
BY DEF Steps

\* Thread u can go on as if t had done nothing.
LEMMA HarmlessPlanned ==
    ASSUME Typed, Planned, NEW t, NEW x, Harmless(t, x),
           NEW u \in Thread \ {t}, NEW i \in 1..Len(todo[u])
    PROVE  StepOK(u, i)'
<1> DEFINE s == todo[u][i]
           a == on[u][1]
           c == on[u][2]
           n == Len(todo[u])
<1>1. todo'[u] = todo[u] /\ on'[u] = on[u] /\ todo[u] # <<>> /\ u \in Thread
  BY EmptySeq DEF Harmless, Others
<1>2. /\ n \in Nat \ {0} /\ \A j \in 1..n : todo[u][j] \in Steps
      /\ Len(on[u]) \in {1, 2} /\ a \in Ptr \cup Handle /\ a \in Range(on[u])
      /\ Len(on[u]) = 2 => c \in Ptr \cup Handle /\ c \in Range(on[u])
  BY <1>1, Working
<1>3. StepOK(u, i)
  BY DEF Planned
<1>4. Ptr \cap Handle = {}
  BY HandleAssumption
<1>5. a \in Ptr => ptr'[a] = ptr[a]
  BY <1>2, <1>4 DEF Harmless, KeepsBut, Shared
<1>6. Len(on[u]) = 2 /\ c \in Ptr => ptr'[c] = ptr[c]
  BY <1>2, <1>4 DEF Harmless, KeepsBut, Shared
<1>7. a \in Handle => /\ data'[a] = data[a] /\ loaded[a] \subseteq loaded'[a]
                      /\ data[a] # None => ptr'[data[a]] = ptr[data[a]]
  BY <1>2 DEF Harmless, KeepsBut, Shared
<1>8. todo[u][n].op # "loc" \/ Len(on[u]) = 2 =>
          /\ a \in Handle => data'[a] = data[a] /\ loaded'[a] = loaded[a]
                            /\ (a \in given' <=> a \in given) /\ (a \in failed' <=> a \in failed)
          /\ Len(on[u]) = 2 /\ c \in Handle =>
                /\ data'[c] = data[c]
                /\ data[c] # None => ptr'[data[c]] = ptr[data[c]]
  <2>1. SUFFICES ASSUME todo[u][n].op # "loc" \/ Len(on[u]) = 2, x \in Range(on[u])
                 PROVE  FALSE
    BY <1>2 DEF Harmless, KeepsBut
  <2>2. Pulls(u, x)
    BY <2>1 DEF Harmless, Shared
  <2>3. Last(todo[u]) = todo[u][n]
    BY DEF Last
  <2>4. Len(<<x>>) = 1
    OBVIOUS
  <2> QED BY <2>1, <2>2, <2>3, <2>4 DEF Pulls
<1>9. \A b : Deletes(u, b) /\ (\E j \in 1..n : todo[u][j].op \in {"mfree", "pffree"} /\ todo[u][j].b = b)
          => Deletes(u, b)'
  BY <1>1, <1>2, <1>5 DEF Deletes, Harmless, Spares
<1>10. \A b : ForHandle(u, b) => ForHandle(u, b)'
  BY <1>1, <1>7 DEF ForHandle, Chunk
<1>11. \A b : ForPtr(u, i, b) => ForPtr(u, i, b)'
  <2>1. \A j \in (i + 1)..n : j \in 1..n
    BY <1>2
  <2> QED BY <1>1, <1>5, <1>9, <2>1 DEF ForPtr
<1>12. s.op \in {"set", "await"} => SetOK(u, i)'
  BY <1>1, <1>3, <1>7, <1>10, <1>11 DEF StepOK, SetOK, ForHandle
<1>13. s.op = "unset" => UnsetOK(u, i)'
  BY <1>1, <1>3, <1>6, <1>10, <1>11 DEF StepOK, UnsetOK
<1>14. s.op \in {"mfree", "pffree"} => MfreeOK(u, i)'
  BY <1>1, <1>3, <1>9 DEF StepOK, MfreeOK
<1>15. s.op = "take" => TakeOK(u, i)'
  BY <1>1, <1>3, <1>5, <1>6 DEF StepOK, TakeOK
<1>16. s.op = "prepare" => PrepareOK(u, i)'
  BY <1>1, <1>3, <1>8, <1>10 DEF StepOK, PrepareOK, ForHandle
<1>17. s.op = "loc" => LocOK(u, i)'
  BY <1>1, <1>3, <1>7, <1>10 DEF StepOK, LocOK, ForHandle
<1>18. s.op = "adopt" => AdoptOK(u, i)'
  BY <1>1, <1>3, <1>8 DEF StepOK, AdoptOK, Chunk
<1> QED BY <1>1, <1>3, <1>12, <1>13, <1>14, <1>15, <1>16, <1>17, <1>18 DEF StepOK

\* Nothing changes but the status and the count of chunks.
ObjectsStay == UNCHANGED <<tracker, ptr, data, loaded, given, failed>>

\* A thread that has made a step can make the ones after it.
LEMMA TailPlanned ==
    ASSUME Typed, Planned, NEW t \in Thread, todo[t] # <<>>, ObjectsStay,
           todo'[t] = Tail(todo[t]), Tail(todo[t]) # <<>> => on'[t] = on[t],
           \/ Head(todo[t]).op \in {"mfree", "pffree"}
           \/ \A b \in Block : status[b] # "ABSENT" => status'[b] # "ABSENT",
           NEW i \in 1..Len(todo'[t])
    PROVE  StepOK(t, i)'
<1> DEFINE n == Len(todo[t])
           q == todo'[t]
           k == i + 1
           s == todo[t][k]
<1>1. /\ n \in Nat \ {0} /\ \A j \in 1..n : todo[t][j] \in Steps
  BY Working
<1>2. q \in Seq(Steps) /\ Len(q) = n - 1 /\ \A j \in 1..Len(q) : q[j] = todo[t][j + 1]
  BY Working, TailIs
<1>3. /\ k \in 1..n /\ k > 1 /\ i + 1 = k /\ i \in Nat /\ q[i] = s
      /\ on'[t] = on[t] /\ Head(todo[t]) = todo[t][1]
  <2>1. k \in 1..n /\ k > 1 /\ i + 1 = k /\ i \in Nat /\ q[i] = s /\ Len(q) # 0
    BY <1>1, <1>2
  <2>2. Tail(todo[t]) # <<>>
    BY <1>2, <2>1, EmptySeq
  <2>3. Head(todo[t]) = todo[t][1]
    BY Working, TailIs
  <2> QED BY <2>1, <2>2, <2>3
<1>4. \A j \in (i + 1)..Len(q) : j + 1 \in (k + 1)..n /\ q[j] = todo[t][j + 1]
  BY <1>1, <1>2, <1>3
<1>5. \A j \in (k + 1)..n : j - 1 \in (i + 1)..Len(q) /\ q[j - 1] = todo[t][j]
  <2>1. SUFFICES ASSUME NEW j \in (k + 1)..n PROVE j - 1 \in (i + 1)..Len(q) /\ q[j - 1] = todo[t][j]
    OBVIOUS
  <2>2. j \in Int /\ j - 1 \in (i + 1)..Len(q) /\ j - 1 \in 1..Len(q) /\ (j - 1) + 1 = j
    BY <1>1, <1>2, <1>3, <2>1
  <2> QED BY <1>2, <2>2
<1>6. StepOK(t, k) /\ StepOK(t, 1)
  BY <1>1, <1>3 DEF Planned
<1>7. i < Len(q) <=> k < n
  BY <1>1, <1>2, <1>3
<1>8. i = Len(q) <=> k = n
  BY <1>1, <1>2, <1>3
<1>9. k < n => q[i + 1] = todo[t][k + 1]
  BY <1>1, <1>2, <1>3
<1>10. Len(q) = i + 1 <=> n = k + 1
  BY <1>1, <1>2, <1>3
<1>11. CASE todo[t][1].op \in {"mfree", "pffree"}
  <2>1. s.op = "take"
    BY <1>1, <1>3, <1>6, <1>11 DEF StepOK, MfreeOK
  <2>2. TakeOK(t, i)'
    BY <1>3, <1>6, <1>8, <2>1 DEF StepOK, TakeOK, ObjectsStay
  <2> QED BY <1>3, <1>6, <2>1, <2>2 DEF StepOK
<1>12. CASE todo[t][1].op \notin {"mfree", "pffree"}
  <2>1. \A b \in Block : Deletes(t, b) => Deletes(t, b)'
    BY <1>3, <1>12 DEF Deletes, ObjectsStay
  <2>2. \A b : ForHandle(t, b) => ForHandle(t, b)'
    BY <1>3 DEF ForHandle, Chunk, ObjectsStay
  <2>3. \A b \in Block : ForPtr(t, k, b) => ForPtr(t, i, b)'
    BY <1>3, <1>5, <2>1 DEF ForPtr, ObjectsStay
  <2>4. s.b \in Block
    BY <1>1, <1>3, StepKinds
  <2>5. s.op \in {"set", "await"} => SetOK(t, i)'
    <3>1. SUFFICES ASSUME s.op \in {"set", "await"}, NEW b \in Block, b = s.b
                   PROVE  SetOK(t, i)'
      BY <2>4
    <3>2. SetOK(t, k)
      BY <1>6, <3>1 DEF StepOK
    <3>3. CASE /\ ForHandle(t, b) /\ s.flag \in loaded[on[t][1]]
               /\ \/ \A j \in (k + 1)..n : todo[t][j].op = "set" /\ todo[t][j].flag # s.flag
                  \/ n = k + 1 /\ todo[t][k + 1].op = "loc"
      <4>1. ForHandle(t, b)' /\ s.flag \in loaded'[on'[t][1]]
        BY <1>3, <2>2, <3>3 DEF ObjectsStay
      <4>2. \/ \A j \in (i + 1)..Len(q) : q[j].op = "set" /\ q[j].flag # s.flag
            \/ Len(q) = i + 1 /\ q[i + 1].op = "loc"
        BY <1>1, <1>3, <1>4, <1>9, <1>10, <3>3
      <4> QED BY <1>3, <3>1, <4>1, <4>2 DEF SetOK
    <3>4. CASE ForPtr(t, k, b) /\ k < n /\ todo[t][k + 1] = Unset(b, 1)
      <4>1. ForPtr(t, i, b)' /\ i < Len(q) /\ q[i + 1] = Unset(b, 1)
        BY <1>7, <1>9, <2>3, <3>4
      <4> QED BY <1>3, <3>1, <4>1 DEF SetOK
    <3> QED BY <3>1, <3>2, <3>3, <3>4 DEF SetOK
  <2>6. s.op = "unset" => UnsetOK(t, i)'
    BY <1>3, <1>4, <1>6, <1>7, <1>8, <2>2, <2>3, <2>4 DEF StepOK, UnsetOK, ObjectsStay
  <2>7. s.op \in {"mfree", "pffree"} => MfreeOK(t, i)'
    BY <1>3, <1>4, <1>6, <2>1, <2>4 DEF StepOK, MfreeOK
  <2>8. s.op = "take" => TakeOK(t, i)'
    BY <1>3, <1>6, <1>8 DEF StepOK, TakeOK, ObjectsStay
  <2>9. s.op = "prepare" => PrepareOK(t, i)'
    BY <1>3, <1>6, <1>8, <2>2 DEF StepOK, PrepareOK, ObjectsStay
  <2>10. s.op = "loc" => LocOK(t, i)'
    BY <1>3, <1>6, <1>8, <2>2 DEF StepOK, LocOK, ObjectsStay
  <2>11. s.op = "adopt" => AdoptOK(t, i)'
    BY <1>3, <1>6, <1>8 DEF StepOK, AdoptOK, ObjectsStay, Chunk
  <2>12. s.op \notin {"await", "pffree"}
    BY <1>3, <1>6 DEF StepOK
  <2> QED BY <1>3, <1>6, <2>5, <2>6, <2>7, <2>8, <2>9, <2>10, <2>11, <2>12 DEF StepOK
<1> QED BY <1>3, <1>11, <1>12

\* A step that has to wait goes on with another name.
LEMMA WaitPlanned ==
    ASSUME Typed, Planned, NEW t \in Thread, todo[t] # <<>>, ObjectsStay, UNCHANGED status,
           NEW e \in Steps, e.b = Head(todo[t]).b,
           \/ Head(todo[t]).op = "set" /\ e.op = "await" /\ e.flag = Head(todo[t]).flag
           \/ Head(todo[t]).op = "mfree" /\ e.op = "pffree",
           todo'[t] = <<e>> \o Tail(todo[t]), on'[t] = on[t],
           NEW i \in 1..Len(todo'[t])
    PROVE  StepOK(t, i)'
<1> DEFINE n == Len(todo[t])
           q == todo'[t]
           s == todo[t][i]
<1>1. /\ todo[t] \in Seq(Steps) /\ n \in Nat \ {0} /\ \A j \in 1..n : todo[t][j] \in Steps
      /\ Head(todo[t]) = todo[t][1]
  BY Working, TailIs
<1>2. q \in Seq(Steps) /\ Len(q) = n /\ q[1] = e /\ \A j \in 2..n : q[j] = todo[t][j]
  <2> DEFINE r == Tail(todo[t])
  <2>1. r \in Seq(Steps) /\ Len(r) = n - 1 /\ \A j \in 1..Len(r) : r[j] = todo[t][j + 1]
    BY <1>1, TailIs
  <2>2. <<e>> \in Seq(Steps) /\ Len(<<e>>) = 1 /\ <<e>>[1] = e
    OBVIOUS
  <2> HIDE DEF r
  <2>3. /\ q \in Seq(Steps) /\ Len(q) = n
        /\ \A j \in 1..n : q[j] = IF j <= 1 THEN <<e>>[j] ELSE r[j - 1]
    <3>1. q = <<e>> \o r
      BY DEF r
    <3> QED BY <1>1, <2>1, <2>2, <3>1, Concat
  <2>4. \A j \in 2..n : r[j - 1] = todo[t][j]
    <3>1. \A j \in 2..n : j - 1 \in 1..Len(r) /\ (j - 1) + 1 = j
      BY <1>1, <2>1
    <3> QED BY <2>1, <3>1
  <2> QED BY <1>1, <2>2, <2>3, <2>4
<1>3. i \in 1..n /\ StepOK(t, i) /\ \A j \in (i + 1)..n : j \in 2..n /\ q[j] = todo[t][j]
  BY <1>1, <1>2 DEF Planned
<1>4. \A b : Deletes(t, b) => Deletes(t, b)'
  BY DEF Deletes, ObjectsStay
<1>5. \A b : ForHandle(t, b) => ForHandle(t, b)'
  BY DEF ForHandle, Chunk, ObjectsStay
<1>6. \A b : ForPtr(t, i, b) => ForPtr(t, i, b)'
  BY <1>2, <1>3, <1>4 DEF ForPtr, ObjectsStay
<1>7. i < n => q[i + 1] = todo[t][i + 1]
  BY <1>1, <1>2, <1>3
<1>8. CASE i = 1
  <2>1. s = Head(todo[t]) /\ q[i] = e
    BY <1>1, <1>2, <1>8
  <2>2. e.op = "await" => SetOK(t, i)'
    <3>1. SUFFICES ASSUME e.op = "await" PROVE SetOK(t, i)'
      OBVIOUS
    <3>2. SetOK(t, i) /\ e.flag = s.flag
      BY <1>3, <2>1, <3>1 DEF StepOK
    <3>3. n = i + 1 => q[i + 1] = todo[t][i + 1]
      BY <1>3, <1>7
    <3> QED BY <1>2, <1>3, <1>5, <1>6, <1>7, <2>1, <3>2, <3>3 DEF SetOK, ObjectsStay
  <2>3. e.op = "pffree" => MfreeOK(t, i)'
    BY <1>2, <1>3, <1>4, <2>1 DEF StepOK, MfreeOK
  <2> QED BY <1>3, <1>8, <2>1, <2>2, <2>3 DEF StepOK
<1>9. CASE i # 1
  <2>1. q[i] = s
    BY <1>2, <1>3, <1>9
  <2>2. s.op \in {"set", "await"} => SetOK(t, i)'
    <3>3. n = i + 1 => q[i + 1] = todo[t][i + 1]
      BY <1>3, <1>7
    <3> QED BY <1>2, <1>3, <1>5, <1>6, <1>7, <2>1, <3>3 DEF StepOK, SetOK, ObjectsStay
  <2>3. s.op = "unset" => UnsetOK(t, i)'
    BY <1>2, <1>3, <1>5, <1>6, <2>1 DEF StepOK, UnsetOK, ObjectsStay
  <2>4. s.op \in {"mfree", "pffree"} => MfreeOK(t, i)'
    BY <1>2, <1>3, <1>4, <2>1 DEF StepOK, MfreeOK
  <2>5. s.op = "take" => TakeOK(t, i)'
    BY <1>2, <1>3, <2>1 DEF StepOK, TakeOK, ObjectsStay
  <2>6. s.op = "prepare" => PrepareOK(t, i)'
    BY <1>2, <1>3, <1>5, <2>1 DEF StepOK, PrepareOK, ObjectsStay
  <2>7. s.op = "loc" => LocOK(t, i)'
    BY <1>2, <1>3, <1>5, <2>1 DEF StepOK, LocOK, ObjectsStay
  <2>8. s.op = "adopt" => AdoptOK(t, i)'
    BY <1>2, <1>3, <2>1 DEF StepOK, AdoptOK, ObjectsStay, Chunk
  <2> QED BY <1>3, <1>9, <2>1, <2>2, <2>3, <2>4, <2>5, <2>6, <2>7, <2>8 DEF StepOK
<1> QED BY <1>8, <1>9
-----------------------------------------------------------------------------
(* Operations begin and go on.                                             *)

LEMMA BeginIs ==
    ASSUME Typed, NEW t \in Thread, NEW objs \in Seq(Ptr \cup Handle), Len(objs) \in {1, 2},
           NEW steps \in Seq(Steps), Begin(t, objs, steps)
    PROVE  /\ Typed' /\ Others(t)
           /\ todo[t] = <<>> /\ on[t] = <<>>
           /\ todo'[t] = steps /\ on'[t] = IF steps = <<>> THEN <<>> ELSE objs
<1>1. /\ todo \in [Thread -> Seq(Steps)] /\ on \in [Thread -> Seq(Ptr \cup Handle)]
      /\ todo[t] = <<>> /\ on[t] = <<>>
  BY DEF Typed, Begin
<1>2. /\ todo' = [todo EXCEPT ![t] = steps]
      /\ on' = [on EXCEPT ![t] = IF steps = <<>> THEN <<>> ELSE objs]
  BY DEF Begin
<1>3. todo' \in [Thread -> Seq(Steps)] /\ on' \in [Thread -> Seq(Ptr \cup Handle)]
  BY <1>1, <1>2, EmptySeq
<1>4. todo'[t] = steps /\ on'[t] = IF steps = <<>> THEN <<>> ELSE objs
  BY <1>1, <1>2
<1>5. Others(t)
  BY <1>1, <1>2 DEF Others
<1>6. Typed'
  BY <1>3, <1>4, <1>5 DEF Typed, Others
<1> QED BY <1>1, <1>4, <1>5, <1>6

LEMMA ContinueIs ==
    ASSUME Typed, NEW t \in Thread, todo[t] # <<>>, NEW steps \in Seq(Steps), Continue(t, steps)
    PROVE  /\ Typed' /\ Others(t)
           /\ todo'[t] = steps /\ on'[t] = IF steps = <<>> THEN <<>> ELSE on[t]
<1>1. /\ todo \in [Thread -> Seq(Steps)] /\ on \in [Thread -> Seq(Ptr \cup Handle)]
  BY DEF Typed
<1>2. /\ todo' = [todo EXCEPT ![t] = steps]
      /\ on' = [on EXCEPT ![t] = IF steps = <<>> THEN <<>> ELSE on[t]]
  <2>1. todo' = [todo EXCEPT ![t] = steps]
        /\ on' = IF steps = <<>> THEN [on EXCEPT ![t] = <<>>] ELSE on
    BY DEF Continue
  <2>2. CASE steps = <<>>
    BY <2>1, <2>2
  <2>3. CASE steps # <<>>
    <3>1. [on EXCEPT ![t] = on[t]] = on
      BY <1>1
    <3> QED BY <2>1, <2>3, <3>1
  <2> QED BY <2>2, <2>3
<1>3. todo' \in [Thread -> Seq(Steps)] /\ on' \in [Thread -> Seq(Ptr \cup Handle)]
  BY <1>1, <1>2, EmptySeq
<1>4. todo'[t] = steps /\ on'[t] = IF steps = <<>> THEN <<>> ELSE on[t]
  BY <1>1, <1>2
<1>5. Others(t)
  BY <1>1, <1>2 DEF Others
<1>6. Typed'
  BY <1>3, <1>4, <1>5 DEF Typed, Others
<1> QED BY <1>4, <1>5, <1>6

\* The handles are on managedPtrs they, or other handles, were on before, or on one of objs.
DataFrom(objs) == \A h \in Handle :
    data'[h] = None \/ data'[h] \in Range(objs) \/ \E g \in Handle : data'[h] = data[g]

\* Nobody works on the first of these objects, and for any of them.
Free(t, objs) == \A u \in Thread \ {t} :
    objs[1] \notin Range(on[u]) /\ (todo[u] # <<>> => on[u][1] \notin Range(objs))

LEMMA AloneFree ==
    ASSUME Typed, NEW t \in Thread, NEW objs \in Seq(Ptr \cup Handle), Len(objs) \in {1, 2},
           Alone(t, objs)
    PROVE  Free(t, objs)
<1>1. objs[1] \in Range(objs)
  BY LenProperties DEF Range
<1>2. \A u \in Thread : todo[u] # <<>> => on[u][1] \in Range(on[u])
  BY Working
<1> QED BY <1>1, <1>2 DEF Alone, Free

LEMMA ApartBegin ==
    ASSUME Basic, Typed, Apart, NEW t \in Thread, NEW objs \in Seq(Ptr \cup Handle), Len(objs) \in {1, 2},
           NEW steps \in Seq(Steps), Begin(t, objs, steps), Free(t, objs), DataFrom(objs),
           objs[1] \in Ptr /\ steps # <<>> => ~ Handled(objs[1])'
    PROVE  Apart'
<1>1. /\ Typed' /\ Others(t)
      /\ todo'[t] = steps /\ on'[t] = IF steps = <<>> THEN <<>> ELSE objs
  BY BeginIs
<1>2. Range(on'[t]) \subseteq Range(objs)
  BY <1>1, TupleRange
<1>3. ASSUME NEW v \in Thread \ {t}, todo[v] # <<>>
      PROVE  /\ on[v][1] \in Ptr => ~ Handled(on[v][1])'
             /\ on[v][1] \notin Range(objs)
  <2>1. on[v][1] \in Range(on[v]) /\ (on[v][1] \in Ptr => ~ Handled(on[v][1]))
    BY <1>3, Working DEF Apart
  <2>2. on[v][1] \notin Range(objs)
    BY <1>3 DEF Free
  <2>3. SUFFICES ASSUME on[v][1] \in Ptr, NEW h \in Handle, data'[h] = on[v][1] PROVE FALSE
    BY <1>1, <2>2 DEF Handled, Others
  <2>4. data'[h] # None
    BY <2>3, HandleAssumption
  <2> QED BY <2>1, <2>2, <2>3, <2>4 DEF DataFrom, Handled
<1>4. SUFFICES ASSUME NEW v \in Thread, todo'[v] # <<>>
               PROVE  /\ on'[v][1] \in Ptr => ~ Handled(on[v][1])'
                      /\ \A u \in Thread \ {v} :
                            \/ on'[v][1] \notin Range(on'[u])
                            \/ on'[v][1] \in Handle /\ Pulls(v, on[v][1])' /\ Pulls(u, on[v][1])'
  BY DEF Apart
<1>5. CASE v = t
  <2>1. \A u \in Thread \ {t} : objs[1] \notin Range(on'[u])
    BY <1>1 DEF Free, Others
  <2>2. on'[t] = objs /\ steps # <<>>
    BY <1>1, <1>4, <1>5
  <2> QED BY <1>1, <1>5, <2>1, <2>2 DEF Handled
<1>6. CASE v # t
  <2>1. todo[v] # <<>> /\ todo'[v] = todo[v] /\ on'[v] = on[v]
    BY <1>1, <1>4, <1>6 DEF Others
  <2>2. on[v][1] \notin Range(on'[t]) /\ (on[v][1] \in Ptr => ~ Handled(on[v][1])')
    BY <1>2, <1>3, <1>6, <2>1
  <2>3. ASSUME NEW u \in Thread \ {v}, u # t
        PROVE  \/ on[v][1] \notin Range(on'[u])
               \/ on[v][1] \in Handle /\ Pulls(v, on[v][1])' /\ Pulls(u, on[v][1])'
    <3>1. on'[u] = on[u] /\ todo'[u] = todo[u]
      BY <1>1, <2>3 DEF Others
    <3>2. \/ on[v][1] \notin Range(on[u])
          \/ on[v][1] \in Handle /\ Pulls(v, on[v][1]) /\ Pulls(u, on[v][1])
      BY <2>1, <2>3 DEF Apart
    <3> QED BY <2>1, <3>1, <3>2 DEF Pulls
  <2> QED BY <2>1, <2>2, <2>3 DEF Handled
<1> QED BY <1>5, <1>6

LEMMA ApartContinue ==
    ASSUME Basic, Typed, Apart, NEW t \in Thread, todo[t] # <<>>, NEW steps \in Seq(Steps),
           Continue(t, steps), DataFrom(<<>>),
           steps # <<>> /\ Len(on[t]) = 1 /\ Last(todo[t]).op = "loc" => Last(steps).op = "loc"
    PROVE  Apart'
<1>1. /\ Typed' /\ Others(t)
      /\ todo'[t] = steps /\ on'[t] = IF steps = <<>> THEN <<>> ELSE on[t]
  BY ContinueIs
<1>2. Range(on'[t]) \subseteq Range(on[t])
  BY <1>1, TupleRange
<1>3. ASSUME NEW v \in Thread, todo[v] # <<>>, on[v][1] \in Ptr, NEW h \in Handle
      PROVE  data'[h] # on[v][1]
  <2>1. ~ Handled(on[v][1])
    BY <1>3 DEF Apart
  <2>2. on[v][1] # None
    BY <1>3, HandleAssumption
  <2> QED BY <2>1, <2>2, TupleRange DEF DataFrom, Handled
<1>4. ASSUME NEW x, Pulls(t, x), steps # <<>> PROVE Pulls(t, x)'
  <2>1. Len(<<x>>) = 1
    OBVIOUS
  <2> QED BY <1>1, <1>4, <2>1 DEF Pulls
<1>5. ASSUME NEW u \in Thread, NEW x, Pulls(u, x), todo'[u] # <<>> PROVE Pulls(u, x)'
  <2>1. CASE u = t
    BY <1>1, <1>4, <1>5, <2>1
  <2>2. CASE u # t
    BY <1>1, <1>5, <2>2 DEF Pulls, Others
  <2> QED BY <2>1, <2>2
<1>6. SUFFICES ASSUME NEW v \in Thread, todo'[v] # <<>>
               PROVE  /\ on'[v][1] \in Ptr => ~ Handled(on[v][1])'
                      /\ \A u \in Thread \ {v} :
                            \/ on'[v][1] \notin Range(on'[u])
                            \/ on'[v][1] \in Handle /\ Pulls(v, on[v][1])' /\ Pulls(u, on[v][1])'
  BY DEF Apart
<1>7. todo[v] # <<>> /\ on'[v] = on[v]
  BY <1>1, <1>6 DEF Others
<1>8. on'[v][1] \in Ptr => ~ Handled(on[v][1])'
  BY <1>3, <1>7 DEF Handled
<1>9. ASSUME NEW u \in Thread \ {v}, on'[v][1] \in Range(on'[u])
      PROVE  on'[v][1] \in Handle /\ Pulls(v, on[v][1])' /\ Pulls(u, on[v][1])'
  <2>1. on[v][1] \in Range(on[u]) /\ todo'[u] # <<>>
    <3>1. CASE u = t
      BY <1>1, <1>2, <1>7, <1>9, <3>1, TupleRange
    <3>2. CASE u # t
      <4>1. on[v][1] \in Range(on[u]) /\ todo'[u] = todo[u] /\ on'[u] = on[u]
        BY <1>1, <1>7, <1>9, <3>2 DEF Others
      <4>2. on[u] # <<>>
        BY <4>1, TupleRange
      <4> QED BY <4>1, <4>2 DEF Typed
    <3> QED BY <3>1, <3>2
  <2>2. on[v][1] \in Handle /\ Pulls(v, on[v][1]) /\ Pulls(u, on[v][1])
    BY <1>7, <2>1 DEF Apart
  <2>3. DEFINE x == on[v][1]
  <2>4. \A y : Pulls(v, y) => Pulls(v, y)'
    BY <1>5, <1>6
  <2>5. \A y : Pulls(u, y) => Pulls(u, y)'
    BY <1>5, <2>1
  <2>6. Pulls(v, on[v][1])' /\ Pulls(u, on[v][1])'
    BY <1>7, <2>2, <2>4, <2>5 DEF Pulls
  <2> QED BY <1>7, <2>2, <2>6
<1> QED BY <1>8, <1>9

LEMMA ApartStays ==
    ASSUME Apart, UNCHANGED <<todo, on, data>>
    PROVE  Apart'
BY DEF Apart, Handled, Pulls

\* The steps a thread has left were its steps before, but for their names.
Inherits(t) == \A i \in 1..Len(todo'[t]) : \E j \in 1..Len(todo[t]) :
    \/ todo'[t][i] = todo[t][j]
    \/ /\ todo[t][j].op = "set" /\ todo'[t][i].op = "await"
       /\ todo'[t][i].b = todo[t][j].b /\ todo'[t][i].flag = todo[t][j].flag
    \/ /\ todo[t][j].op = "mfree" /\ todo'[t][i].op = "pffree"
       /\ todo'[t][i].b = todo[t][j].b

LEMMA InheritsOnce ==
    ASSUME Typed, DeletedOnce, SetOnce, NEW t \in Thread, Others(t), Inherits(t),
           todo'[t] # <<>> => on'[t] = on[t]
    PROVE  DeletedOnce' /\ SetOnce'
<1>1. ASSUME NEW v \in Thread, NEW i \in 1..Len(todo'[v])
      PROVE  \E j \in 1..Len(todo[v]) :
                /\ todo'[v][i].op \in {"mfree", "pffree"} =>
                       todo[v][j].op \in {"mfree", "pffree"} /\ todo'[v][i].b = todo[v][j].b
                /\ todo'[v][i].op \in {"set", "await"} =>
                       todo[v][j].op \in {"set", "await"} /\ todo'[v][i].flag = todo[v][j].flag
  <2>1. CASE v = t
    BY <1>1, <2>1 DEF Inherits
  <2>2. CASE v # t
    BY <1>1, <2>2 DEF Others
  <2> QED BY <2>1, <2>2
<1>2. ASSUME NEW v \in Thread, NEW i \in 1..Len(todo'[v]) PROVE on'[v] = on[v]
  <2>1. CASE v = t
    <3>1. todo'[t] # <<>>
      BY <1>2, <2>1, EmptySeq
    <3> QED BY <2>1, <3>1
  <2>2. CASE v # t
    BY <2>2 DEF Others
  <2> QED BY <2>1, <2>2
<1>3. DeletedOnce'
  <2>1. SUFFICES ASSUME NEW v \in Thread, NEW u \in Thread,
                        NEW i \in 1..Len(todo'[v]), NEW j \in 1..Len(todo'[u]),
                        todo'[v][i].op \in {"mfree", "pffree"}, todo'[u][j].op \in {"mfree", "pffree"},
                        todo'[v][i].b = todo'[u][j].b
                 PROVE  v = u
    BY DEF DeletedOnce
  <2>2. PICK k \in 1..Len(todo[v]) : todo[v][k].op \in {"mfree", "pffree"} /\ todo'[v][i].b = todo[v][k].b
    BY <1>1, <2>1
  <2>3. PICK m \in 1..Len(todo[u]) : todo[u][m].op \in {"mfree", "pffree"} /\ todo'[u][j].b = todo[u][m].b
    BY <1>1, <2>1
  <2> QED BY <2>1, <2>2, <2>3 DEF DeletedOnce
<1>4. SetOnce'
  <2>1. SUFFICES ASSUME NEW v \in Thread, NEW u \in Thread,
                        NEW i \in 1..Len(todo'[v]), NEW j \in 1..Len(todo'[u]),
                        todo'[v][i].op \in {"set", "await"}, todo'[u][j].op \in {"set", "await"},
                        on'[v][1] = on'[u][1], todo'[v][i].flag = todo'[u][j].flag
                 PROVE  v = u
    BY DEF SetOnce
  <2>2. PICK k \in 1..Len(todo[v]) : todo[v][k].op \in {"set", "await"} /\ todo'[v][i].flag = todo[v][k].flag
    BY <1>1, <2>1
  <2>3. PICK m \in 1..Len(todo[u]) : todo[u][m].op \in {"set", "await"} /\ todo'[u][j].flag = todo[u][m].flag
    BY <1>1, <2>1
  <2>4. on'[v] = on[v] /\ on'[u] = on[u]
    BY <1>2
  <2> QED BY <2>1, <2>2, <2>3, <2>4 DEF SetOnce
<1> QED BY <1>3, <1>4

\* New steps: nobody else sets the same use, or deletes the same chunk.
LEMMA BeginOnce ==
    ASSUME Typed, DeletedOnce, SetOnce, NEW t \in Thread, Others(t),
           \A i \in 1..Len(todo'[t]) : todo'[t][i].op \in {"set", "await"} =>
               \A u \in Thread \ {t} : \A j \in 1..Len(todo[u]) :
                   todo[u][j].op \in {"set", "await"} /\ on[u][1] = on'[t][1] =>
                       todo[u][j].flag # todo'[t][i].flag,
           \A i \in 1..Len(todo'[t]) : todo'[t][i].op \in {"mfree", "pffree"} =>
               \A u \in Thread \ {t} : \A j \in 1..Len(todo[u]) :
                   todo[u][j].op \in {"mfree", "pffree"} => todo[u][j].b # todo'[t][i].b
    PROVE  DeletedOnce' /\ SetOnce'
<1>1. DeletedOnce'
  <2>1. SUFFICES ASSUME NEW v \in Thread, NEW u \in Thread, v # u,
                        NEW i \in 1..Len(todo'[v]), NEW j \in 1..Len(todo'[u]),
                        todo'[v][i].op \in {"mfree", "pffree"}, todo'[u][j].op \in {"mfree", "pffree"},
                        todo'[v][i].b = todo'[u][j].b
                 PROVE  FALSE
    BY DEF DeletedOnce
  <2>2. CASE v = t
    BY <2>1, <2>2 DEF Others
  <2>3. CASE u = t
    BY <2>1, <2>3 DEF Others
  <2>4. CASE v # t /\ u # t
    BY <2>1, <2>4 DEF Others, DeletedOnce
  <2> QED BY <2>2, <2>3, <2>4
<1>2. SetOnce'
  <2>1. SUFFICES ASSUME NEW v \in Thread, NEW u \in Thread, v # u,
                        NEW i \in 1..Len(todo'[v]), NEW j \in 1..Len(todo'[u]),
                        todo'[v][i].op \in {"set", "await"}, todo'[u][j].op \in {"set", "await"},
                        on'[v][1] = on'[u][1], todo'[v][i].flag = todo'[u][j].flag
                 PROVE  FALSE
    BY DEF SetOnce
  <2>2. CASE v = t
    BY <2>1, <2>2 DEF Others
  <2>3. CASE u = t
    BY <2>1, <2>3 DEF Others
  <2>4. CASE v # t /\ u # t
    BY <2>1, <2>4 DEF Others, SetOnce
  <2> QED BY <2>2, <2>3, <2>4
<1> QED BY <1>1, <1>2
-----------------------------------------------------------------------------
(* References.                                                             *)

LEMMA RefsFinite ==
    ASSUME NEW b
    PROVE  IsFiniteSet(References(b)) /\ Cardinality(References(b)) \in Nat
<1>1. IsFiniteSet(Ptr)
  BY HandleAssumption
<1>2. References(b) \subseteq Ptr
  BY DEF References
<1>3. IsFiniteSet(References(b))
  BY <1>1, <1>2, FS_Subset
<1> QED BY <1>3, FS_CardinalityType

\* What a managedPtr refers to has a tracker above zero, and is there if it is a chunk.
LEMMA RefPositive ==
    ASSUME Basic, Referred, NEW p \in Ptr, ptr[p] # None
    PROVE  /\ ptr[p] \in Block /\ tracker[ptr[p]] \in Nat /\ tracker[ptr[p]] > 0
           /\ ptr[p] \notin Empty => status[ptr[p]] # "ABSENT"
<1>1. ptr[p] \in Block /\ tracker[ptr[p]] \in Nat
  BY DEF Basic
<1>2. References(ptr[p]) # {}
  BY DEF References
<1>3. Cardinality(References(ptr[p])) \in Nat /\ Cardinality(References(ptr[p])) # 0
  <2>1. IsFiniteSet(References(ptr[p])) /\ Cardinality(References(ptr[p])) \in Nat
    BY RefsFinite
  <2> QED BY <1>2, <2>1, FS_EmptySet
<1>4. tracker[ptr[p]] > 0
  <2>1. tracker[ptr[p]] >= Cardinality(References(ptr[p]))
    BY <1>1, <1>3 DEF Referred
  <2> QED BY <1>1, <1>3, <2>1
<1> QED BY <1>1, <1>4 DEF Referred

LEMMA RefGained ==
    ASSUME Basic, NEW p \in Ptr, ptr[p] = None, NEW b \in Block, ptr' = [ptr EXCEPT ![p] = b]
    PROVE  /\ Cardinality(References(b)') = Cardinality(References(b)) + 1
           /\ \A c \in Block \ {b} : References(c)' = References(c)
<1>1. \A q \in Ptr : ptr'[q] = IF q = p THEN b ELSE ptr[q]
  BY DEF Basic
<1>2. References(b)' = References(b) \cup {p}
  BY <1>1 DEF References
<1>3. p \notin References(b)
  BY HandleAssumption DEF References
<1>4. Cardinality(References(b) \cup {p}) = Cardinality(References(b)) + 1
  <2>1. IsFiniteSet(References(b))
    BY RefsFinite
  <2> QED BY <1>3, <2>1, FS_AddElement
<1>5. ASSUME NEW c \in Block \ {b} PROVE References(c)' = References(c)
  <2>1. c # None
    BY HandleAssumption
  <2> QED BY <1>1, <2>1 DEF References
<1> QED BY <1>2, <1>4, <1>5

LEMMA RefLost ==
    ASSUME Basic, NEW p \in Ptr, NEW b \in Block, ptr[p] = b, ptr' = [ptr EXCEPT ![p] = None]
    PROVE  /\ Cardinality(References(b)) = Cardinality(References(b)') + 1
           /\ \A c \in Block \ {b} : References(c)' = References(c)
<1>1. \A q \in Ptr : ptr'[q] = IF q = p THEN None ELSE ptr[q]
  BY DEF Basic
<1>2. \A c \in Block : c # None
  BY HandleAssumption
<1>3. References(b)' = References(b) \ {p} /\ p \in References(b)
  BY <1>1, <1>2 DEF References
<1>4. Cardinality(References(b) \ {p}) = Cardinality(References(b)) - 1
  <2>1. IsFiniteSet(References(b))
    BY RefsFinite
  <2> QED BY <1>3, <2>1, FS_RemoveElement
<1>5. Cardinality(References(b)) \in Nat
  BY RefsFinite
<1>6. Cardinality(References(b)) = Cardinality(References(b)') + 1
  BY <1>3, <1>4, <1>5
<1>7. \A c \in Block \ {b} : References(c)' = References(c)
  BY <1>1, <1>2 DEF References
<1> QED BY <1>6, <1>7
-----------------------------------------------------------------------------
(* The structure of the operations is kept.                                *)

Struct == Basic /\ Typed /\ Apart /\ Anchored /\ Planned /\ DeletedOnce /\ SetOnce /\ Referred

Own(t) == \A i \in 1..Len(todo[t]) : StepOK(t, i)

LEMMA PlannedNext ==
    ASSUME Typed, Planned, NEW t, NEW x, Harmless(t, x), t \in Thread => Own(t)'
    PROVE  Planned'
<1>1. SUFFICES ASSUME NEW u \in Thread, NEW i \in 1..Len(todo'[u]) PROVE StepOK(u, i)'
  BY DEF Planned
<1>2. CASE u = t
  BY <1>1, <1>2 DEF Own
<1>3. CASE u # t
  <2>1. i \in 1..Len(todo[u]) /\ u \in Thread \ {t}
    BY <1>1, <1>3 DEF Harmless, Others
  <2> QED BY <2>1, HarmlessPlanned
<1> QED BY <1>2, <1>3

\* A chunk that is being deleted has no references left.
LEMMA Deleting ==
    ASSUME Struct, NEW u \in Thread, NEW j \in 1..Len(todo[u]),
           todo[u][j].op \in {"mfree", "pffree"}
    PROVE  LET b == todo[u][j].b
           IN  /\ b \in Block \ Empty /\ tracker[b] = 0 /\ status[b] # "ABSENT"
               /\ \A p \in Ptr : ptr[p] # b
<1> DEFINE b == todo[u][j].b
<1>1. StepOK(u, j) /\ todo[u] # <<>>
  BY EmptySeq DEF Struct, Planned
<1>2. b \in Block
  BY <1>1, Working, StepKinds DEF Struct
<1>3. b \notin Empty /\ tracker[b] = 0 /\ status[b] # "ABSENT"
  BY <1>1 DEF StepOK, MfreeOK, Deletes
<1>4. ASSUME NEW p \in Ptr, ptr[p] = b PROVE FALSE
  <2>1. ptr[p] # None
    BY <1>2, <1>4, HandleAssumption
  <2>2. tracker[b] > 0
    BY <1>4, <2>1, RefPositive DEF Struct
  <2> QED BY <1>3, <2>2
<1> QED BY <1>2, <1>3, <1>4

\* An operation on objects nobody else works on begins.
LEMMA BeginStruct ==
    ASSUME Struct, NEW t \in Thread, NEW objs \in Seq(Ptr \cup Handle), Len(objs) \in {1, 2},
           NEW steps \in Seq(Steps), Begin(t, objs, steps), DataFrom(objs),
           Alone(t, objs) \/ Free(t, objs),
           objs[1] \in Ptr /\ steps # <<>> => ~ Handled(objs[1])',
           \A i \in 1..Len(steps) : steps[i].op \in {"mfree", "pffree"} =>
               tracker[steps[i].b] # 0,
           KeepsBut(objs[1]), Spares(t),
           Basic', Own(t)', Anchored', Referred'
    PROVE  Struct'
<1>1. /\ Typed' /\ Others(t)
      /\ todo'[t] = steps /\ on'[t] = IF steps = <<>> THEN <<>> ELSE objs
  BY BeginIs DEF Struct
<1>2. Free(t, objs)
  BY AloneFree DEF Struct
<1>3. Apart'
  BY <1>2, ApartBegin DEF Struct
<1>4. \A u \in Thread \ {t} : objs[1] \notin Range(on[u])
  BY <1>2 DEF Free
<1>5. Planned'
  <2>1. Harmless(t, objs[1])
    BY <1>1, <1>4 DEF Harmless, Shared
  <2> QED BY <2>1, PlannedNext DEF Struct
<1>6. DeletedOnce' /\ SetOnce'
  <2>1. CASE steps = <<>>
    <3>1. \A i \in 1..Len(todo'[t]) : FALSE
      BY <1>1, <2>1, EmptySeq
    <3>2. Inherits(t) /\ (todo'[t] # <<>> => on'[t] = on[t])
      BY <1>1, <2>1, <3>1 DEF Inherits
    <3> QED BY <1>1, <3>2, InheritsOnce DEF Struct
  <2>2. CASE steps # <<>>
    <3>1. ASSUME NEW u \in Thread \ {t}, NEW j \in 1..Len(todo[u]) PROVE on[u][1] # on'[t][1]
      <4>1. todo[u] # <<>>
        BY <3>1, EmptySeq
      <4> QED BY <1>1, <1>4, <2>2, <4>1, Working DEF Struct
    <3>2. ASSUME NEW i \in 1..Len(todo'[t]), todo'[t][i].op \in {"mfree", "pffree"},
                 NEW u \in Thread \ {t}, NEW j \in 1..Len(todo[u]),
                 todo[u][j].op \in {"mfree", "pffree"}
          PROVE  todo[u][j].b # todo'[t][i].b
      BY <1>1, <3>2, Deleting
    <3> QED BY <1>1, <3>1, <3>2, BeginOnce DEF Struct
  <2> QED BY <2>1, <2>2
<1> QED BY <1>1, <1>3, <1>5, <1>6 DEF Struct

\* What a thread works for is not worked on by others, unless all pull.
LEMMA ApartShared ==
    ASSUME Typed, Apart, NEW t \in Thread, todo[t] # <<>>,
           Last(todo[t]).op = "loc" => data' = data /\ loaded' = loaded
    PROVE  Shared(t, on[t][1])
<1>1. SUFFICES ASSUME NEW u \in Thread \ {t}, on[t][1] \in Range(on[u])
               PROVE  /\ on[t][1] \in Handle /\ Pulls(u, on[t][1])
                      /\ data'[on[t][1]] = data[on[t][1]]
                      /\ loaded[on[t][1]] \subseteq loaded'[on[t][1]]
  BY DEF Shared
<1>2. on[t][1] \in Handle /\ Pulls(t, on[t][1]) /\ Pulls(u, on[t][1])
  BY <1>1 DEF Apart
<1>3. Last(todo[t]).op = "loc"
  BY <1>2 DEF Pulls
<1> QED BY <1>2, <1>3

\* An operation goes on.
LEMMA ContinueStruct ==
    ASSUME Struct, NEW t \in Thread, todo[t] # <<>>, NEW steps \in Seq(Steps),
           Continue(t, steps), DataFrom(<<>>),
           steps # <<>> /\ Len(on[t]) = 1 /\ Last(todo[t]).op = "loc" => Last(steps).op = "loc",
           Last(todo[t]).op = "loc" => data' = data /\ loaded' = loaded,
           KeepsBut(on[t][1]), Spares(t), DeletedOnce', SetOnce',
           Basic', Own(t)', Anchored', Referred'
    PROVE  Struct'
<1>1. Typed' /\ Others(t)
  BY ContinueIs DEF Struct
<1>2. Apart'
  BY ApartContinue DEF Struct
<1>3. Shared(t, on[t][1])
  BY ApartShared DEF Struct
<1>4. Planned'
  <2>1. Harmless(t, on[t][1])
    BY <1>1, <1>3 DEF Harmless
  <2> QED BY <2>1, PlannedNext DEF Struct
<1> QED BY <1>1, <1>2, <1>4 DEF Struct

\* An operation ends.
LEMMA EndStruct ==
    ASSUME Struct, NEW t \in Thread, todo[t] # <<>>, Continue(t, <<>>), DataFrom(<<>>),
           Last(todo[t]).op = "loc" => data' = data /\ loaded' = loaded,
           KeepsBut(on[t][1]), Spares(t), Basic', Anchored', Referred'
    PROVE  Struct'
<1>1. <<>> \in Seq(Steps)
  BY EmptySeq
<1>2. Others(t) /\ todo'[t] = <<>>
  BY <1>1, ContinueIs DEF Struct
<1>3. \A i \in 1..Len(todo'[t]) : FALSE
  BY <1>2, EmptySeq
<1>4. DeletedOnce' /\ SetOnce'
  <2>1. Inherits(t)
    BY <1>3 DEF Inherits
  <2> QED BY <1>2, <2>1, InheritsOnce DEF Struct
<1>5. Own(t)'
  BY <1>3 DEF Own
<1> QED BY <1>1, <1>4, <1>5, ContinueStruct

\* The status of chunks changes: a chunk without references, and only one, may go.
StatusMoves(t) == \A c \in Block : status'[c] = status[c] \/
    /\ c \notin Empty /\ status[c] # "ABSENT"
    /\ \/ status'[c] # "ABSENT"
       \/ /\ todo[t] # <<>> /\ Head(todo[t]).op \in {"mfree", "pffree"} /\ c = Head(todo[t]).b

LEMMA StatusReferred ==
    ASSUME Struct, NEW t, t \in Thread \/ \A c \in Block : status[c] # "ABSENT" => status'[c] # "ABSENT",
           StatusMoves(t), UNCHANGED <<tracker, ptr>>
    PROVE  Referred' /\ Spares(t)
<1>1. ASSUME NEW c \in Block, status[c] # "ABSENT", status'[c] = "ABSENT"
      PROVE  /\ tracker[c] = 0
             /\ \A u \in Thread \ {t} : \A j \in 1..Len(todo[u]) :
                    todo[u][j].op \in {"mfree", "pffree"} => todo[u][j].b # c
  <2>1. /\ t \in Thread /\ todo[t] # <<>> /\ Head(todo[t]).op \in {"mfree", "pffree"}
        /\ c = Head(todo[t]).b
    BY <1>1 DEF StatusMoves
  <2>2. 1 \in 1..Len(todo[t]) /\ Head(todo[t]) = todo[t][1]
    BY <2>1, Working, TailIs DEF Struct
  <2>3. tracker[c] = 0
    BY <2>1, <2>2, Deleting
  <2>4. ASSUME NEW u \in Thread \ {t}, NEW j \in 1..Len(todo[u]),
               todo[u][j].op \in {"mfree", "pffree"}, todo[u][j].b = c
        PROVE  FALSE
    BY <2>1, <2>2, <2>4 DEF Struct, DeletedOnce
  <2> QED BY <2>3, <2>4
<1>2. Spares(t)
  <2>1. SUFFICES ASSUME NEW u \in Thread \ {t}, NEW j \in 1..Len(todo[u]),
                        todo[u][j].op \in {"mfree", "pffree"}, status[todo[u][j].b] # "ABSENT",
                        status'[todo[u][j].b] = "ABSENT"
                 PROVE  FALSE
    BY DEF Spares
  <2>2. todo[u][j].b \in Block
    BY <2>1, Deleting
  <2> QED BY <1>1, <2>1, <2>2
<1>3. ASSUME NEW b \in Block \ Empty
      PROVE  tracker'[b] = Cardinality(References(b)') /\ (tracker'[b] > 0 => status'[b] # "ABSENT")
  <2>1. References(b)' = References(b)
    BY DEF References
  <2>2. tracker[b] = Cardinality(References(b)) /\ (tracker[b] > 0 => status[b] # "ABSENT")
    BY <1>3 DEF Struct, Referred
  <2>3. ~ (0 > 0)
    OBVIOUS
  <2> QED BY <1>1, <1>3, <2>1, <2>2, <2>3
<1>4. ASSUME NEW b \in Empty
      PROVE  tracker'[b] >= Cardinality(References(b)') /\ status'[b] = "ABSENT"
  <2>1. References(b)' = References(b) /\ b \in Block
    BY HandleAssumption DEF References
  <2> QED BY <1>4, <2>1 DEF Struct, Referred, StatusMoves
<1> QED BY <1>2, <1>3, <1>4 DEF Referred

\* Steps that change no object: what the objects rely on stays.
LEMMA ObjectsStruct ==
    ASSUME Struct, ObjectsStay, NEW x
    PROVE  Anchored' /\ DataFrom(<<>>) /\ KeepsBut(x)
<1>1. Anchored'
  BY DEF Struct, Anchored, Chunk, ObjectsStay
<1>2. DataFrom(<<>>)
  BY DEF DataFrom, ObjectsStay
<1>3. KeepsBut(x)
  BY DEF KeepsBut, ObjectsStay
<1> QED BY <1>1, <1>2, <1>3

LEMMA TailStruct ==
    ASSUME Struct, NEW t \in Thread, todo[t] # <<>>, Done(t), ObjectsStay, StatusMoves(t), Basic'
    PROVE  Struct'
<1>1. /\ todo[t] \in Seq(Steps) /\ Tail(todo[t]) \in Seq(Steps)
      /\ Len(todo[t]) \in Nat \ {0} /\ Len(Tail(todo[t])) = Len(todo[t]) - 1
      /\ \A i \in 1..Len(Tail(todo[t])) : Tail(todo[t])[i] = todo[t][i + 1]
  BY Working, TailIs DEF Struct
<1>2. Continue(t, Tail(todo[t]))
  BY DEF Done
<1>3. /\ Others(t) /\ todo'[t] = Tail(todo[t])
      /\ on'[t] = IF Tail(todo[t]) = <<>> THEN <<>> ELSE on[t]
  BY <1>1, <1>2, ContinueIs DEF Struct
<1>4. Tail(todo[t]) # <<>> => Last(Tail(todo[t])) = Last(todo[t])
  <2> DEFINE r == Tail(todo[t])
             n == Len(todo[t])
  <2>1. /\ r \in Seq(Steps) /\ n \in Nat \ {0} /\ Len(r) = n - 1
        /\ \A i \in 1..Len(r) : r[i] = todo[t][i + 1]
    BY <1>1
  <2> HIDE DEF r, n
  <2>2. r # <<>> => Len(r) # 0
    BY <2>1, EmptySeq
  <2>3. Len(r) # 0 => Len(r) \in 1..Len(r) /\ Len(r) + 1 = n
    BY <2>1
  <2>4. Len(r) # 0 => r[Len(r)] = todo[t][n]
    BY <2>1, <2>3
  <2> QED BY <2>2, <2>4 DEF Last, r, n
<1>5. Inherits(t)
  <2>1. \A i \in 1..Len(Tail(todo[t])) : i + 1 \in 1..Len(todo[t])
    BY <1>1
  <2> QED BY <1>1, <1>3, <2>1 DEF Inherits
<1>6. DeletedOnce' /\ SetOnce'
  BY <1>3, <1>5, InheritsOnce DEF Struct
<1>7. Referred' /\ Spares(t)
  BY StatusReferred DEF ObjectsStay
<1>8. Own(t)'
  <2>1. \/ Head(todo[t]).op \in {"mfree", "pffree"}
        \/ \A b \in Block : status[b] # "ABSENT" => status'[b] # "ABSENT"
    BY DEF StatusMoves
  <2>2. SUFFICES ASSUME NEW i \in 1..Len(todo'[t]) PROVE StepOK(t, i)'
    BY DEF Own
  <2> QED BY <1>3, <2>1, TailPlanned DEF Struct
<1>9. Anchored' /\ DataFrom(<<>>) /\ KeepsBut(on[t][1])
  BY ObjectsStruct
<1>10. data' = data /\ loaded' = loaded
  BY DEF ObjectsStay
<1> QED BY <1>1, <1>2, <1>4, <1>6, <1>7, <1>8, <1>9, <1>10, ContinueStruct

LEMMA WaitStruct ==
    ASSUME Struct, NEW t \in Thread, todo[t] # <<>>, NEW e \in Steps, e.b = Head(todo[t]).b,
           \/ Head(todo[t]).op = "set" /\ e.op = "await" /\ e.flag = Head(todo[t]).flag
           \/ Head(todo[t]).op = "mfree" /\ e.op = "pffree",
           Continue(t, <<e>> \o Tail(todo[t])), ObjectsStay, UNCHANGED status, Basic'
    PROVE  Struct'
<1> DEFINE q == <<e>> \o Tail(todo[t])
           n == Len(todo[t])
<1>1. /\ todo[t] \in Seq(Steps) /\ Tail(todo[t]) \in Seq(Steps) /\ n \in Nat \ {0}
      /\ Len(Tail(todo[t])) = n - 1 /\ Head(todo[t]) = todo[t][1]
      /\ \A i \in 1..Len(Tail(todo[t])) : Tail(todo[t])[i] = todo[t][i + 1]
  BY Working, TailIs DEF Struct
<1>2. q \in Seq(Steps) /\ Len(q) = n /\ q # <<>> /\ q[1] = e /\ \A j \in 2..n : q[j] = todo[t][j]
  <2> DEFINE r == Tail(todo[t])
  <2>1. r \in Seq(Steps) /\ Len(r) = n - 1 /\ \A j \in 1..Len(r) : r[j] = todo[t][j + 1]
    BY <1>1
  <2>2. <<e>> \in Seq(Steps) /\ Len(<<e>>) = 1 /\ <<e>>[1] = e
    OBVIOUS
  <2> HIDE DEF r
  <2>3. /\ <<e>> \o r \in Seq(Steps) /\ Len(<<e>> \o r) = n
        /\ \A j \in 1..n : (<<e>> \o r)[j] = IF j <= 1 THEN <<e>>[j] ELSE r[j - 1]
    BY <1>1, <2>1, <2>2, Concat
  <2>4. \A j \in 2..n : r[j - 1] = todo[t][j] /\ j \in 1..n /\ ~ (j <= 1)
    <3>1. \A j \in 2..n : j - 1 \in 1..Len(r) /\ (j - 1) + 1 = j /\ j \in 1..n /\ ~ (j <= 1)
      BY <1>1, <2>1
    <3> QED BY <2>1, <3>1
  <2>5. (<<e>> \o r)[1] = e
    BY <1>1, <2>2, <2>3
  <2>6. <<e>> \o r # <<>>
    BY <1>1, <2>3, EmptySeq
  <2> QED BY <2>3, <2>4, <2>5, <2>6 DEF r
<1> HIDE DEF q
<1>3. Continue(t, q)
  BY DEF q
<1>4. Others(t) /\ todo'[t] = q /\ on'[t] = on[t]
  BY <1>2, <1>3, ContinueIs DEF Struct
<1>5. Last(todo[t]).op = "loc" => Last(q).op = "loc"
  <2>1. CASE n = 1
    BY <1>1, <2>1 DEF Last
  <2>2. CASE n # 1
    <3>1. n \in 2..n
      BY <1>1, <2>2
    <3> QED BY <1>2, <3>1 DEF Last
  <2> QED BY <2>1, <2>2
<1>6. Inherits(t)
  <2>1. SUFFICES ASSUME NEW i \in 1..n
                 PROVE  \E j \in 1..n :
                    \/ q[i] = todo[t][j]
                    \/ /\ todo[t][j].op = "set" /\ q[i].op = "await"
                       /\ q[i].b = todo[t][j].b /\ q[i].flag = todo[t][j].flag
                    \/ /\ todo[t][j].op = "mfree" /\ q[i].op = "pffree"
                       /\ q[i].b = todo[t][j].b
    BY <1>2, <1>4 DEF Inherits
  <2>2. CASE i = 1
    BY <1>1, <1>2, <2>1, <2>2
  <2>3. CASE i # 1
    BY <1>1, <1>2, <2>1, <2>3
  <2> QED BY <2>2, <2>3
<1>7. DeletedOnce' /\ SetOnce'
  BY <1>4, <1>6, InheritsOnce DEF Struct
<1>8. Referred' /\ Spares(t)
  BY StatusReferred DEF ObjectsStay, StatusMoves
<1>9. Own(t)'
  <2>1. SUFFICES ASSUME NEW i \in 1..Len(todo'[t]) PROVE StepOK(t, i)'
    BY DEF Own
  <2>2. todo'[t] = <<e>> \o Tail(todo[t])
    BY <1>4 DEF q
  <2> QED BY <1>4, <2>2, WaitPlanned DEF Struct
<1>10. Anchored' /\ DataFrom(<<>>) /\ KeepsBut(on[t][1])
  BY ObjectsStruct
<1>11. data' = data /\ loaded' = loaded
  BY DEF ObjectsStay
<1> QED BY <1>2, <1>3, <1>5, <1>7, <1>8, <1>9, <1>10, <1>11, ContinueStruct

\* What happens without any thread going on: the manager moves a chunk, or a thread
\* spins or ends the model.
LEMMA IdleStruct ==
    ASSUME Struct, ObjectsStay, UNCHANGED <<todo, on>>,
           \A c \in Block : \/ status'[c] = status[c]
                            \/ c \notin Empty /\ status[c] # "ABSENT" /\ status'[c] # "ABSENT",
           Basic'
    PROVE  Struct'
<1>1. NoThread \notin Thread
  BY HandleAssumption
<1>2. Referred' /\ Spares(NoThread)
  BY StatusReferred DEF ObjectsStay, StatusMoves
<1>0. PICK x : x \notin Ptr \cup Handle
  BY NoSetContainsEverything
<1>3. Anchored' /\ KeepsBut(x)
  BY ObjectsStruct
<1>4. Typed' /\ Apart'
  BY ApartStays DEF Struct, Typed, ObjectsStay
<1>5. DeletedOnce' /\ SetOnce'
  BY DEF Struct, DeletedOnce, SetOnce
<1>6. Planned'
  <2>1. Harmless(NoThread, x)
    <3>1. Others(NoThread) /\ Spares(NoThread)
      BY <1>2 DEF Others
    <3>2. \A u \in Thread : x \notin Range(on[u])
      BY <1>0, RangeOfSeq DEF Struct, Typed
    <3>3. Shared(NoThread, x)
      BY <3>2 DEF Shared
    <3> QED BY <1>3, <3>1, <3>3 DEF Harmless
  <2> QED BY <1>1, <2>1, PlannedNext DEF Struct
<1> QED BY <1>2, <1>3, <1>4, <1>5, <1>6 DEF Struct
-----------------------------------------------------------------------------
(* The calls keep the structure.                                           *)

LEMMA AtIs ==
    ASSUME Struct, NEW t \in Thread, todo[t] # <<>>
    PROVE  /\ todo[t] \in Seq(Steps) /\ Tail(todo[t]) \in Seq(Steps)
           /\ Len(todo[t]) \in Nat \ {0} /\ 1 \in 1..Len(todo[t])
           /\ Head(todo[t]) = todo[t][1] /\ Head(todo[t]) \in Steps
           /\ Subject(t) = Head(todo[t]).b /\ Subject(t) = todo[t][1].b /\ Subject(t) \in Block
           /\ StepOK(t, 1)
           /\ Head(todo[t]).op \notin {"take", "adopt"} => Subject(t) \notin Empty
           /\ Len(todo[t]) = 1 => Tail(todo[t]) = <<>> /\ Last(todo[t]) = Head(todo[t])
<1>1. /\ todo[t] \in Seq(Steps) /\ Tail(todo[t]) \in Seq(Steps)
      /\ Len(todo[t]) \in Nat \ {0} /\ 1 \in 1..Len(todo[t])
      /\ Head(todo[t]) = todo[t][1] /\ Head(todo[t]) \in Steps
      /\ Len(Tail(todo[t])) = Len(todo[t]) - 1
  BY Working, TailIs DEF Struct
<1>2. Subject(t) = Head(todo[t]).b /\ Subject(t) = todo[t][1].b /\ Subject(t) \in Block
  BY <1>1, StepKinds DEF Subject
<1>3. StepOK(t, 1)
  BY <1>1 DEF Struct, Planned
<1>4. Head(todo[t]).op \notin {"take", "adopt"} => Subject(t) \notin Empty
  BY <1>1, <1>2, <1>3 DEF StepOK
<1>5. Len(todo[t]) = 1 => Tail(todo[t]) = <<>> /\ Last(todo[t]) = Head(todo[t])
  <2>1. SUFFICES ASSUME Len(todo[t]) = 1 PROVE Tail(todo[t]) = <<>> /\ Last(todo[t]) = Head(todo[t])
    OBVIOUS
  <2>2. Len(Tail(todo[t])) = 0
    BY <1>1, <2>1
  <2>3. Tail(todo[t]) = <<>>
    BY <1>1, <2>2, EmptySeq
  <2> QED BY <1>1, <2>1, <2>3 DEF Last
<1> QED BY <1>1, <1>2, <1>3, <1>4, <1>5

LEMMA SetUseStruct ==
    ASSUME Struct, NEW t \in Thread, SetUse(t)
    PROVE  Struct'
<1>1. todo[t] # <<>> /\ Head(todo[t]).op = "set"
  BY DEF SetUse, Locks, At
<1>2. /\ Head(todo[t]) \in Steps /\ Subject(t) = Head(todo[t]).b
      /\ Subject(t) \in Block \ Empty
  BY <1>1, AtIs
<1>3. ObjectsStay
  BY DEF SetUse, ObjectsStay, objects
<1>4. CASE status[Subject(t)] \in Present
  <2>1. status' = [status EXCEPT ![Subject(t)] = "INUSE"] /\ Done(t)
    BY <1>4 DEF SetUse
  <2>2. StatusMoves(t)
    BY <1>2, <1>4, <2>1 DEF StatusMoves, Struct, Basic, Present
  <2>3. Basic'
    <3>1. useCnt' \in [Block -> Int]
      BY <1>2 DEF Struct, Basic, SetUse
    <3> QED BY <1>2, <2>1, <3>1 DEF Struct, Basic, SetUse, objects, Present
  <2> QED BY <1>1, <1>3, <2>1, <2>2, <2>3, TailStruct
<1>5. CASE status[Subject(t)] \notin Present
  <2> DEFINE e == [Head(todo[t]) EXCEPT !.op = "await"]
  <2>1. Continue(t, <<e>> \o Tail(todo[t])) /\ UNCHANGED status
    BY <1>5 DEF SetUse
  <2>2. e \in Steps /\ e.b = Head(todo[t]).b /\ e.op = "await" /\ e.flag = Head(todo[t]).flag
    <3>1. Head(todo[t]) \in [op : {"set", "await"}, b : Block, flag : Flags]
      BY <1>1, <1>2 DEF Steps
    <3>2. /\ e \in [op : {"set", "await"}, b : Block, flag : Flags]
          /\ e.b = Head(todo[t]).b /\ e.op = "await" /\ e.flag = Head(todo[t]).flag
      BY <3>1
    <3> QED BY <3>2 DEF Steps
  <2>3. Basic'
    <3>1. useCnt' \in [Block -> Int]
      BY <1>2 DEF Struct, Basic, SetUse
    <3> QED BY <2>1, <3>1 DEF Struct, Basic, SetUse, objects
  <2> HIDE DEF e
  <2> QED BY <1>1, <1>3, <2>1, <2>2, <2>3, WaitStruct
<1> QED BY <1>4, <1>5

LEMMA GrantStruct ==
    ASSUME Struct, NEW t \in Thread, Grant(t)
    PROVE  Struct'
<1>1. todo[t] # <<>> /\ Head(todo[t]).op = "await"
  BY DEF Grant, Locks, At
<1>2. Subject(t) = Head(todo[t]).b /\ Subject(t) \in Block \ Empty
  BY <1>1, AtIs
<1>3. ObjectsStay /\ Done(t)
  BY DEF Grant, ObjectsStay, objects
<1>4. status' = [status EXCEPT ![Subject(t)] = "INUSE"] /\ status[Subject(t)] \in Present
  BY DEF Grant
<1>5. StatusMoves(t)
  BY <1>2, <1>4 DEF StatusMoves, Struct, Basic, Present
<1>6. Basic'
  BY <1>2, <1>4 DEF Struct, Basic, Grant, objects, Present
<1> QED BY <1>1, <1>3, <1>5, <1>6, TailStruct

LEMMA PrepareUseStruct ==
    ASSUME Struct, NEW t \in Thread, PrepareUse(t)
    PROVE  Struct'
<1>1. todo[t] # <<>> /\ Head(todo[t]).op = "prepare"
  BY DEF PrepareUse, Locks, At
<1>2. Subject(t) = Head(todo[t]).b /\ Subject(t) \in Block \ Empty
  BY <1>1, AtIs
<1>3. ObjectsStay /\ Done(t)
  BY DEF PrepareUse, ObjectsStay, objects
<1>4. \/ status' = [status EXCEPT ![Subject(t)] = "SWAPIN"] /\ status[Subject(t)] = "SWAPPED"
      \/ status' = status
  BY DEF PrepareUse, Struct, Basic
<1>5. StatusMoves(t)
  BY <1>2, <1>4 DEF StatusMoves, Struct, Basic
<1>6. Basic'
  BY <1>2, <1>4 DEF Struct, Basic, PrepareUse, objects
<1> QED BY <1>1, <1>3, <1>5, <1>6, TailStruct

LEMMA UnsetUseStruct ==
    ASSUME Struct, NEW t \in Thread, UnsetUse(t)
    PROVE  Struct'
<1>1. todo[t] # <<>> /\ Head(todo[t]).op = "unset"
  BY DEF UnsetUse, Locks, At
<1>2. /\ Subject(t) = Head(todo[t]).b /\ Subject(t) \in Block \ Empty
      /\ Head(todo[t]).n \in {1, 2}
  BY <1>1, AtIs, StepKinds
<1>3. ObjectsStay /\ Done(t)
  BY DEF UnsetUse, ObjectsStay, objects
<1>4. \/ status' = [status EXCEPT ![Subject(t)] = "ALLOCATED"] /\ status[Subject(t)] = "INUSE"
      \/ status' = status
  BY DEF UnsetUse, Struct, Basic
<1>5. StatusMoves(t)
  BY <1>2, <1>4 DEF StatusMoves, Struct, Basic
<1>6. Basic'
  <2>1. useCnt' \in [Block -> Int]
    BY <1>2 DEF Struct, Basic, UnsetUse
  <2>2. status' \in [Block -> Present \cup Outside \cup {"ABSENT", "SWAPIN"}]
    BY <1>2, <1>4 DEF Struct, Basic, Present
  <2> QED BY <2>1, <2>2 DEF Struct, Basic, UnsetUse, objects
<1> QED BY <1>1, <1>3, <1>5, <1>6, TailStruct

LEMMA MfreeStruct ==
    ASSUME Struct, NEW t \in Thread, Mfree(t) \/ MfreeDone(t)
    PROVE  Struct'
<1>1. todo[t] # <<>> /\ Head(todo[t]).op \in {"mfree", "pffree"}
  BY DEF Mfree, MfreeDone, Locks, At
<1>2. /\ Subject(t) = Head(todo[t]).b /\ Subject(t) \in Block \ Empty
      /\ status[Subject(t)] # "ABSENT"
  <2>1. StepOK(t, 1) /\ Head(todo[t]) = todo[t][1]
    BY <1>1, AtIs
  <2>2. status[todo[t][1].b] # "ABSENT"
    BY <1>1, <2>1 DEF StepOK, MfreeOK, Deletes
  <2> QED BY <1>1, <2>2, AtIs
<1>3. ObjectsStay
  BY DEF Mfree, MfreeDone, ObjectsStay, objects
<1>4. CASE Done(t) /\ status' = [status EXCEPT ![Subject(t)] = "ABSENT"]
  <2>1. StatusMoves(t)
    BY <1>1, <1>2, <1>4 DEF StatusMoves, Struct, Basic
  <2>2. Basic'
    BY <1>2, <1>4 DEF Struct, Basic, Mfree, MfreeDone, objects
  <2> QED BY <1>1, <1>3, <1>4, <2>1, <2>2, TailStruct
<1>5. CASE Mfree(t) /\ Continue(t, <<Step("pffree", Subject(t))>> \o Tail(todo[t])) /\ UNCHANGED status
  <2> DEFINE e == Step("pffree", Subject(t))
  <2>1. e \in Steps /\ e.b = Head(todo[t]).b /\ e.op = "pffree"
    BY <1>2, StepsAre
  <2>2. Head(todo[t]).op = "mfree"
    BY <1>5 DEF Mfree, Locks, At
  <2>3. Basic'
    BY <1>5 DEF Struct, Basic, Mfree, objects
  <2>4. Continue(t, <<e>> \o Tail(todo[t])) /\ UNCHANGED status
    BY <1>5
  <2> HIDE DEF e
  <2> QED BY <1>1, <1>3, <2>1, <2>2, <2>3, <2>4, WaitStruct
<1> QED BY <1>4, <1>5 DEF Mfree, MfreeDone

LEMMA SetUseThrowsStruct ==
    ASSUME Struct, NEW t \in Thread, SetUseThrows(t)
    PROVE  Struct'
<1>1. todo[t] # <<>> /\ Head(todo[t]).op = "await"
  BY DEF SetUseThrows, Locks, At
<1>2. CASE Last(todo[t]).op = "loc"
  <2>1. /\ failed' = failed \cup {on[t][1]} /\ Continue(t, <<>>)
        /\ UNCHANGED <<tracker, status, useCnt, ptr, data, loaded, given, mutex, ended>>
    BY <1>2 DEF SetUseThrows, manager, objects
  <2>2. on[t][1] \in Handle /\ data[on[t][1]] # None
    <3>1. Len(todo[t]) \in 1..Len(todo[t]) /\ todo[t][Len(todo[t])].op = "loc"
      BY <1>1, <1>2, AtIs DEF Last
    <3>2. StepOK(t, Len(todo[t]))
      BY <3>1 DEF Struct, Planned
    <3> QED BY <3>1, <3>2 DEF StepOK, LocOK, ForHandle
  <2>3. Basic'
    BY <2>1, <2>2 DEF Struct, Basic
  <2>4. KeepsBut(on[t][1])
    BY <2>1 DEF KeepsBut
  <2>5. DataFrom(<<>>) /\ Anchored' /\ Spares(t)
    BY <2>1 DEF DataFrom, Struct, Anchored, Chunk, Spares
  <2>6. Referred'
    BY <2>1 DEF Struct, Referred, References
  <2> QED BY <1>1, <2>1, <2>3, <2>4, <2>5, <2>6, EndStruct
<1>3. CASE Last(todo[t]).op # "loc"
  <2>1. /\ ended' = TRUE /\ UNCHANGED <<failed, todo, on>>
        /\ UNCHANGED <<tracker, status, useCnt, ptr, data, loaded, given, mutex>>
    BY <1>3 DEF SetUseThrows, manager, objects
  <2>2. Basic'
    BY <2>1 DEF Struct, Basic
  <2>3. ObjectsStay
    BY <2>1 DEF ObjectsStay
  <2> QED BY <2>1, <2>2, <2>3, IdleStruct
<1> QED BY <1>2, <1>3

LEMMA PrepareUseThrowsStruct ==
    ASSUME Struct, NEW t \in Thread, PrepareUseThrows(t)
    PROVE  Struct'
<1>1. todo[t] # <<>> /\ Head(todo[t]).op = "prepare"
  BY DEF PrepareUseThrows, Locks, At
<1>2. /\ PrepareOK(t, 1) /\ Len(todo[t]) = 1 /\ on[t][1] \in Handle
      /\ loaded[on[t][1]] = {} /\ on[t][1] \notin given \cup failed
  <2>1. StepOK(t, 1) /\ Head(todo[t]) = todo[t][1]
    BY <1>1, AtIs
  <2>2. PrepareOK(t, 1)
    BY <1>1, <2>1 DEF StepOK
  <2> QED BY <2>2 DEF PrepareOK, ForHandle
<1>3. /\ data' = [data EXCEPT ![on[t][1]] = None]
      /\ UNCHANGED <<tracker, status, useCnt, ptr, loaded, given, failed, mutex, ended>>
  BY DEF PrepareUseThrows, manager
<1>4. Continue(t, <<>>) /\ Last(todo[t]).op # "loc"
  <2>1. Tail(todo[t]) = <<>> /\ Last(todo[t]) = Head(todo[t])
    BY <1>1, <1>2, AtIs
  <2> QED BY <1>1, <2>1 DEF PrepareUseThrows, Done
<1>5. \A h \in Handle : data'[h] = IF h = on[t][1] THEN None ELSE data[h]
  BY <1>3 DEF Struct, Basic
<1>6. Basic'
  BY <1>2, <1>3, <1>5 DEF Struct, Basic
<1>7. Anchored'
  BY <1>2, <1>3, <1>5 DEF Struct, Anchored, Chunk
<1>8. DataFrom(<<>>) /\ Spares(t) /\ KeepsBut(on[t][1])
  BY <1>3, <1>5 DEF DataFrom, Spares, KeepsBut
<1>9. Referred'
  BY <1>3 DEF Struct, Referred, References
<1> QED BY <1>1, <1>4, <1>6, <1>7, <1>8, <1>9, EndStruct

LEMMA GivePointerStruct ==
    ASSUME Struct, NEW t \in Thread, GivePointer(t)
    PROVE  Struct'
<1>1. todo[t] # <<>> /\ Head(todo[t]).op = "loc"
  BY DEF GivePointer, At
<1>2. Len(todo[t]) = 1 /\ on[t][1] \in Handle /\ data[on[t][1]] # None
  <2>1. StepOK(t, 1) /\ Head(todo[t]) = todo[t][1]
    BY <1>1, AtIs
  <2> QED BY <1>1, <2>1 DEF StepOK, LocOK, ForHandle
<1>3. /\ given' = given \cup {on[t][1]}
      /\ UNCHANGED <<tracker, status, useCnt, ptr, data, loaded, failed, mutex, ended>>
  BY DEF GivePointer, manager, objects
<1>4. Continue(t, <<>>)
  <2>1. Tail(todo[t]) = <<>>
    BY <1>1, <1>2, AtIs
  <2> QED BY <2>1 DEF GivePointer, Done
<1>5. Basic'
  BY <1>2, <1>3 DEF Struct, Basic
<1>6. Anchored' /\ DataFrom(<<>>) /\ Spares(t) /\ KeepsBut(on[t][1])
  BY <1>3 DEF Struct, Anchored, Chunk, DataFrom, Spares, KeepsBut
<1>7. Referred'
  BY <1>3 DEF Struct, Referred, References
<1> QED BY <1>1, <1>3, <1>4, <1>5, <1>6, <1>7, EndStruct

LEMMA SpinStruct ==
    ASSUME Struct, NEW t \in Thread, Spin(t)
    PROVE  Struct'
<1>1. mutex' = t /\ UNCHANGED <<tracker, status, useCnt, ptr, data, loaded, given, failed, todo, on, ended>>
  BY DEF Spin, manager, objects
<1>2. Basic'
  BY <1>1 DEF Struct, Basic
<1>3. ObjectsStay
  BY <1>1 DEF ObjectsStay
<1> QED BY <1>1, <1>2, <1>3, IdleStruct

LEMMA ManagerStruct ==
    ASSUME Struct, NEW b \in Block, Evict(b) \/ Fetch(b) \/ Arrive(b)
    PROVE  Struct'
<1>1. UNCHANGED <<tracker, useCnt, ptr, data, loaded, given, failed, todo, on, mutex, ended>>
  BY DEF Evict, Fetch, Arrive, objects
<1>2. status[b] # "ABSENT" /\ b \notin Empty
  <2>1. status[b] # "ABSENT"
    BY DEF Evict, Fetch, Arrive
  <2> QED BY <2>1 DEF Struct, Referred
<1>3. \E s \in Present \cup Outside \cup {"SWAPIN"} : status' = [status EXCEPT ![b] = s]
  <2>1. CASE Evict(b)
    BY <2>1 DEF Evict
  <2>2. CASE Fetch(b)
    BY <2>2 DEF Fetch
  <2>3. CASE Arrive(b)
    <3>1. \/ status' = [status EXCEPT ![b] = "SWAPPED"]
          \/ status' = [status EXCEPT ![b] = "ALLOCATED"]
          \/ status' = [status EXCEPT ![b] = "INUSE"]
      BY <2>3 DEF Arrive, Struct, Basic
    <3> QED BY <3>1 DEF Present, Outside
  <2> QED BY <2>1, <2>2, <2>3
<1>4. /\ status' \in [Block -> Present \cup Outside \cup {"ABSENT", "SWAPIN"}]
      /\ \A c \in Block : status'[c] = status[c] \/ (c = b /\ status'[c] # "ABSENT")
  <2>1. PICK s \in Present \cup Outside \cup {"SWAPIN"} : status' = [status EXCEPT ![b] = s]
    BY <1>3
  <2>2. s # "ABSENT"
    BY DEF Present, Outside
  <2>3. status \in [Block -> Present \cup Outside \cup {"ABSENT", "SWAPIN"}]
    BY DEF Struct, Basic
  <2>4. status' \in [Block -> Present \cup Outside \cup {"ABSENT", "SWAPIN"}]
    BY <2>1, <2>3
  <2>5. \A c \in Block : status'[c] = IF c = b THEN s ELSE status[c]
    BY <2>1, <2>3
  <2> QED BY <2>2, <2>4, <2>5
<1>5. Basic'
  BY <1>1, <1>4 DEF Struct, Basic
<1>6. ObjectsStay
  BY <1>1 DEF ObjectsStay
<1> QED BY <1>1, <1>2, <1>4, <1>5, <1>6, IdleStruct
-----------------------------------------------------------------------------
(* A managedPtr gets a chunk, or gives up its own.                         *)

\* Everything but the managedPtrs, the trackers and the status of chunks stays.
HandlesStay == UNCHANGED <<useCnt, data, loaded, given, failed, mutex, ended>>

LEMMA Gains ==
    ASSUME Struct, HandlesStay, NEW t, NEW p \in Ptr, ptr[p] = None, ~ Handled(p), NEW b \in Block,
           ptr' = [ptr EXCEPT ![p] = b], tracker' = [tracker EXCEPT ![b] = @ + 1],
           \/ UNCHANGED status
           \/ status' = [status EXCEPT ![b] = "ALLOCATED"] /\ b \notin Empty,
           b \in Empty \/ status'[b] # "ABSENT",
           \A u \in Thread : \A j \in 1..Len(todo[u]) :
               todo[u][j].op \in {"mfree", "pffree"} => todo[u][j].b # b,
           NEW objs
    PROVE  /\ Basic' /\ Anchored' /\ Referred' /\ Spares(t) /\ KeepsBut(p)
           /\ ~ Handled(p)' /\ DataFrom(objs)
<1>1. /\ \A q \in Ptr : ptr'[q] = IF q = p THEN b ELSE ptr[q]
      /\ \A c \in Block : tracker'[c] = IF c = b THEN tracker[b] + 1 ELSE tracker[c]
      /\ \A c \in Block : status'[c] = status[c] \/ (c = b /\ b \notin Empty /\ status'[c] = "ALLOCATED")
  BY DEF Struct, Basic
<1>2. Basic'
  <2>1. tracker' \in [Block -> Nat] /\ ptr' \in [Ptr -> Block \cup {None}]
    BY DEF Struct, Basic
  <2>2. status' \in [Block -> Present \cup Outside \cup {"ABSENT", "SWAPIN"}]
    BY DEF Struct, Basic, Present
  <2> QED BY <2>1, <2>2 DEF Struct, Basic, HandlesStay
<1>3. \A h \in Handle : data[h] # p
  BY DEF Handled
<1>4. ~ Handled(p)' /\ DataFrom(objs)
  BY <1>3 DEF Handled, DataFrom, HandlesStay
<1>5. \A h \in Handle : data[h] # None => data[h] \in Ptr /\ ptr'[data[h]] = ptr[data[h]]
  BY <1>1, <1>3 DEF Struct, Basic
<1>6. KeepsBut(p)
  BY <1>1, <1>5 DEF KeepsBut, HandlesStay
<1>7. Anchored'
  BY <1>5 DEF Struct, Anchored, Chunk, HandlesStay
<1>8. Spares(t)
  <2>1. SUFFICES ASSUME NEW u \in Thread \ {t}, NEW j \in 1..Len(todo[u]),
                        todo[u][j].op \in {"mfree", "pffree"}
                 PROVE  /\ tracker[todo[u][j].b] = 0 => tracker'[todo[u][j].b] = 0
                        /\ status[todo[u][j].b] # "ABSENT" => status'[todo[u][j].b] # "ABSENT"
    BY DEF Spares
  <2>2. todo[u][j].b \in Block /\ todo[u][j].b # b
    BY <2>1, Deleting
  <2> QED BY <1>1, <2>2
<1>9. /\ Cardinality(References(b)') = Cardinality(References(b)) + 1
      /\ \A c \in Block \ {b} : References(c)' = References(c)
  BY RefGained DEF Struct
<1>10. tracker[b] \in Nat /\ Cardinality(References(b)) \in Nat
  BY RefsFinite DEF Struct, Basic
<1>11. ASSUME NEW c \in Block \ Empty
       PROVE  tracker'[c] = Cardinality(References(c)') /\ (tracker'[c] > 0 => status'[c] # "ABSENT")
  <2>1. tracker[c] = Cardinality(References(c)) /\ (tracker[c] > 0 => status[c] # "ABSENT")
    BY <1>11 DEF Struct, Referred
  <2>2. CASE c = b
    BY <1>1, <1>9, <1>11, <2>1, <2>2
  <2>3. CASE c # b
    BY <1>1, <1>9, <1>11, <2>1, <2>3
  <2> QED BY <2>2, <2>3
<1>12. ASSUME NEW c \in Empty
       PROVE  tracker'[c] >= Cardinality(References(c)') /\ status'[c] = "ABSENT"
  <2>1. tracker[c] >= Cardinality(References(c)) /\ status[c] = "ABSENT" /\ c \in Block
    BY <1>12, HandleAssumption DEF Struct, Referred
  <2>2. CASE c = b
    BY <1>1, <1>9, <1>10, <1>12, <2>1, <2>2
  <2>3. CASE c # b
    BY <1>1, <1>9, <1>12, <2>1, <2>3
  <2> QED BY <2>2, <2>3
<1>13. Referred'
  BY <1>11, <1>12 DEF Referred
<1> QED BY <1>2, <1>4, <1>6, <1>7, <1>8, <1>13

LEMMA LetsGoOf ==
    ASSUME Struct, HandlesStay, UNCHANGED status, NEW t, NEW p \in Ptr, NEW b \in Block, ptr[p] = b,
           ~ Handled(p), ptr' = [ptr EXCEPT ![p] = None],
           \/ tracker' = [tracker EXCEPT ![b] = @ - 1]
           \/ b \in Empty /\ UNCHANGED tracker,
           NEW objs
    PROVE  /\ Basic' /\ Anchored' /\ Referred' /\ Spares(t) /\ KeepsBut(p)
           /\ ~ Handled(p)' /\ DataFrom(objs) /\ tracker[b] \in Nat \ {0}
           /\ b \notin Empty => status[b] # "ABSENT" /\ tracker'[b] = tracker[b] - 1
<1>1. tracker[b] \in Nat \ {0} /\ (b \notin Empty => status[b] # "ABSENT")
  <2>1. b # None
    BY HandleAssumption
  <2> QED BY <2>1, RefPositive DEF Struct
<1>2. /\ \A q \in Ptr : ptr'[q] = IF q = p THEN None ELSE ptr[q]
      /\ \A c \in Block \ {b} : tracker'[c] = tracker[c]
      /\ tracker'[b] = tracker[b] - 1 \/ (b \in Empty /\ tracker'[b] = tracker[b])
  BY DEF Struct, Basic
<1>3. Basic'
  <2>1. tracker' \in [Block -> Nat]
    <3>1. tracker[b] - 1 \in Nat
      BY <1>1
    <3> QED BY <3>1 DEF Struct, Basic
  <2>2. ptr' \in [Ptr -> Block \cup {None}]
    BY DEF Struct, Basic
  <2> QED BY <2>1, <2>2 DEF Struct, Basic, HandlesStay
<1>4. \A h \in Handle : data[h] # p
  BY DEF Handled
<1>5. ~ Handled(p)' /\ DataFrom(objs)
  BY <1>4 DEF Handled, DataFrom, HandlesStay
<1>6. \A h \in Handle : data[h] # None => data[h] \in Ptr /\ ptr'[data[h]] = ptr[data[h]]
  BY <1>2, <1>4 DEF Struct, Basic
<1>7. KeepsBut(p)
  BY <1>2, <1>6 DEF KeepsBut, HandlesStay
<1>8. Anchored'
  BY <1>6 DEF Struct, Anchored, Chunk, HandlesStay
<1>9. Spares(t)
  <2>1. SUFFICES ASSUME NEW u \in Thread \ {t}, NEW j \in 1..Len(todo[u]),
                        todo[u][j].op \in {"mfree", "pffree"}
                 PROVE  tracker'[todo[u][j].b] = tracker[todo[u][j].b]
    BY DEF Spares
  <2>2. todo[u][j].b \in Block /\ tracker[todo[u][j].b] = 0
    BY <2>1, Deleting
  <2> QED BY <1>1, <1>2, <2>2
<1>10. /\ Cardinality(References(b)) = Cardinality(References(b)') + 1
       /\ \A c \in Block \ {b} : References(c)' = References(c)
  BY RefLost DEF Struct
<1>11. Cardinality(References(b)) \in Nat /\ Cardinality(References(b)') \in Nat
  <2>1. IsFiniteSet(References(b)')
    <3>1. References(b)' \subseteq Ptr
      BY DEF References
    <3> QED BY <3>1, HandleAssumption, FS_Subset
  <2> QED BY <2>1, RefsFinite, FS_CardinalityType
<1>12. ASSUME NEW c \in Block \ Empty
       PROVE  tracker'[c] = Cardinality(References(c)') /\ (tracker'[c] > 0 => status'[c] # "ABSENT")
  <2>1. tracker[c] = Cardinality(References(c)) /\ (tracker[c] > 0 => status[c] # "ABSENT")
    BY <1>12 DEF Struct, Referred
  <2>2. CASE c = b
    BY <1>1, <1>2, <1>10, <1>11, <1>12, <2>1, <2>2
  <2>3. CASE c # b
    BY <1>2, <1>10, <1>12, <2>1, <2>3
  <2> QED BY <2>2, <2>3
<1>13. ASSUME NEW c \in Empty
       PROVE  tracker'[c] >= Cardinality(References(c)') /\ status'[c] = "ABSENT"
  <2>1. tracker[c] >= Cardinality(References(c)) /\ status[c] = "ABSENT" /\ c \in Block
    BY <1>13, HandleAssumption DEF Struct, Referred
  <2>2. CASE c = b
    BY <1>1, <1>2, <1>10, <1>11, <1>13, <2>1, <2>2
  <2>3. CASE c # b
    BY <1>2, <1>10, <1>13, <2>1, <2>3
  <2> QED BY <2>2, <2>3
<1>14. Referred'
  BY <1>12, <1>13 DEF Referred
<1> QED BY <1>1, <1>2, <1>3, <1>5, <1>7, <1>8, <1>9, <1>14
-----------------------------------------------------------------------------
(* The operations on managedPtrs keep the structure.                       *)

\* What may come after a reference is released: nothing, or taking that of q.
AfterRelease(rest, objs) ==
    \/ rest = <<>>
    \/ /\ Len(objs) = 2 /\ objs[1] \in Ptr /\ objs[2] \in Ptr
       /\ \E c \in Block : rest = <<Step("take", c)>> /\ (c \in Empty \/ ptr'[objs[2]] = c)

LEMMA AfterLen ==
    ASSUME NEW objs, NEW rest, AfterRelease(rest, objs)
    PROVE  Len(rest) \in {0, 1}
BY EmptySeq DEF AfterRelease

LEMMA AfterOK ==
    ASSUME NEW t, NEW objs, NEW rest, AfterRelease(rest, objs), on'[t] = objs, ptr'[objs[1]] = None,
           NEW i, i = Len(todo'[t]), Len(rest) = 1, todo'[t][i] = rest[1]
    PROVE  StepOK(t, i)' /\ todo'[t][i].op = "take"
<1>1. rest # <<>>
  <2>1. SUFFICES ASSUME rest = <<>> PROVE FALSE
    OBVIOUS
  <2>2. Len(rest) = 0
    BY <2>1, EmptySeq
  <2>3. Len(rest) = 1
    OBVIOUS
  <2> QED BY <2>2, <2>3
<1>2. PICK c \in Block : rest = <<Step("take", c)>> /\ (c \in Empty \/ ptr'[objs[2]] = c)
  BY <1>1 DEF AfterRelease
<1>3. Len(objs) = 2 /\ objs[1] \in Ptr /\ objs[2] \in Ptr
  BY <1>1 DEF AfterRelease
<1>4. todo'[t][i] = Step("take", c)
  BY <1>2
<1>5. todo'[t][i].op = "take" /\ todo'[t][i].b = c
  BY <1>4, StepsAre
<1>6. TakeOK(t, i)'
  BY <1>2, <1>3, <1>5 DEF TakeOK
<1> QED BY <1>5, <1>6 DEF StepOK

LEMMA AfterOwn ==
    ASSUME NEW t, NEW objs, NEW rest \in Seq(Steps), AfterRelease(rest, objs), on'[t] = objs,
           ptr'[objs[1]] = None, todo'[t] = rest
    PROVE  Own(t)'
<1>1. SUFFICES ASSUME NEW i \in 1..Len(todo'[t]) PROVE StepOK(t, i)'
  BY DEF Own
<1>2. Len(rest) = 1 /\ i = 1
  <2>1. Len(rest) \in {0, 1}
    BY AfterLen
  <2> DEFINE n == Len(rest)
  <2>2. i \in 1..n
    BY <1>1
  <2>3. n \in {0, 1}
    BY <2>1
  <2> HIDE DEF n
  <2>4. n = 1 /\ i = 1
    BY <2>2, <2>3
  <2> QED BY <2>4 DEF n
<1>3. i = Len(todo'[t]) /\ todo'[t][i] = rest[1]
  <2>1. Len(todo'[t]) = Len(rest) /\ todo'[t][i] = rest[i]
    OBVIOUS
  <2> QED BY <1>2, <2>1
<1>4. AfterRelease(rest, objs) /\ on'[t] = objs /\ ptr'[objs[1]] = None
  OBVIOUS
<1>5. StepOK(t, i)' /\ todo'[t][i].op = "take"
  BY <1>2, <1>3, <1>4, AfterOK
<1> QED BY <1>5

LEMMA DeletionOwn ==
    ASSUME NEW t, NEW objs, NEW rest \in Seq(Steps), AfterRelease(rest, objs), on'[t] = objs,
           NEW p \in Ptr, objs[1] = p, ptr'[p] = None, NEW b \in Block \ Empty,
           tracker'[b] = 0, status'[b] # "ABSENT",
           NEW n \in {1, 3}, DeletionOf(todo'[t], b, rest, n)
    PROVE  Own(t)'
<1> DEFINE q == todo'[t]
<1>2. /\ Len(rest) \in Nat /\ Len(q) = n + Len(rest) /\ q[n] = Step("mfree", b)
      /\ \A j \in (n + 1)..Len(q) : q[j] = rest[j - n]
      /\ n = 3 => q[1] = Set(b, "write") /\ q[2] = Unset(b, 1)
  BY DEF DeletionOf
<1>3. \A j \in (n + 1)..Len(q) : StepOK(t, j)' /\ q[j].op = "take"
  <2>1. SUFFICES ASSUME NEW j \in (n + 1)..Len(q) PROVE StepOK(t, j)' /\ q[j].op = "take"
    OBVIOUS
  <2>2. Len(rest) = 1 /\ j = Len(q) /\ q[j] = rest[1]
    <3>1. Len(rest) \in {0, 1}
      BY AfterLen
    <3> QED BY <1>2, <2>1, <3>1
  <2> QED BY <2>2, AfterOK
<1>1. SUFFICES ASSUME NEW i \in 1..Len(todo'[t]) PROVE StepOK(t, i)'
  BY DEF Own
<1>4. q[n].op = "mfree" /\ q[n].b = b /\ n \in 1..Len(q)
  BY <1>2, StepsAre
<1>5. Deletes(t, b)'
  BY DEF Deletes
<1>6. CASE i > n
  <2>1. i \in (n + 1)..Len(q)
    BY <1>2, <1>6
  <2> QED BY <1>3, <2>1
<1>7. CASE i = n
  <2>1. MfreeOK(t, i)'
    BY <1>3, <1>4, <1>5, <1>7 DEF MfreeOK
  <2> QED BY <1>4, <1>7, <2>1 DEF StepOK
<1>8. CASE n = 3 /\ i < n
  <2>1. /\ q[1].op = "set" /\ q[1].b = b /\ q[2] = Unset(b, 1)
        /\ q[2].op = "unset" /\ q[2].b = b
    BY <1>2, <1>8, StepsAre
  <2>2. /\ 3 \in (1 + 1)..Len(q) /\ 3 \in (2 + 1)..Len(q) /\ 1 < Len(q) /\ q[3].op = "mfree" /\ q[3].b = b
        /\ i = 1 \/ i = 2
    BY <1>2, <1>4, <1>8
  <2>3. ForPtr(t, 1, b)' /\ ForPtr(t, 2, b)'
    BY <1>5, <2>2 DEF ForPtr
  <2>4. SetOK(t, 1)'
    BY <2>1, <2>2, <2>3 DEF SetOK
  <2>5. UnsetOK(t, 2)'
    <3>1. \A j \in (2 + 1)..Len(q) : q[j].op \in {"mfree", "take"}
      <4>1. \A j \in (2 + 1)..Len(q) : j = 3 \/ j \in (n + 1)..Len(q)
        BY <1>2, <1>8
      <4> QED BY <1>3, <2>2, <4>1
    <3> QED BY <2>1, <2>3, <3>1 DEF UnsetOK
  <2>6. StepOK(t, 1)' /\ StepOK(t, 2)'
    BY <2>1, <2>4, <2>5 DEF StepOK
  <2> QED BY <2>2, <2>6
<1> QED BY <1>2, <1>6, <1>7, <1>8

\* Releasing a reference, in Destroy and Reassign.
LEMMA ReleaseStruct ==
    ASSUME Struct, HandlesStay, UNCHANGED status, NEW t \in Thread, NEW p \in Ptr, ptr[p] # None,
           NEW objs \in Seq(Ptr \cup Handle), Len(objs) \in {1, 2}, objs[1] = p,
           Alone(t, objs), ~ Handled(p), NEW rest \in Seq(Steps), AfterRelease(rest, objs),
           Release(t, p, objs, rest)
    PROVE  Struct'
<1> DEFINE b == ptr[p]
           steps == (IF tracker[b] = 1 THEN MDelete(b) ELSE <<>>) \o rest
<1>1. /\ b \in Block /\ ptr' = [ptr EXCEPT ![p] = None]
      /\ tracker' = [tracker EXCEPT ![b] = @ - 1] /\ Begin(t, objs, steps)
  BY DEF Struct, Basic, Release
<1>2. /\ Basic' /\ Anchored' /\ Referred' /\ Spares(t) /\ KeepsBut(p)
      /\ ~ Handled(p)' /\ DataFrom(objs) /\ tracker[b] \in Nat \ {0}
      /\ b \notin Empty => status[b] # "ABSENT" /\ tracker'[b] = tracker[b] - 1
  BY <1>1, LetsGoOf
<1>3. ptr'[p] = None
  BY <1>1 DEF Struct, Basic
<1>4. \A i \in 1..Len(rest) : rest[i].op = "take"
  <2>1. CASE rest = <<>>
    BY <2>1
  <2>2. CASE \E c \in Block : rest = <<Step("take", c)>>
    BY <2>2, StepsAre
  <2> QED BY <2>1, <2>2 DEF AfterRelease
<1>5. CASE tracker[b] = 1 /\ b \notin Empty
  <2>1. steps = MDelete(b) \o rest
    BY <1>5
  <2>2. PICK n \in {1, 3} : DeletionOf(MDelete(b) \o rest, b, rest, n)
    BY <1>1, <1>5, MDeleteIs
  <2> HIDE DEF steps
  <2>3. steps \in Seq(Steps) /\ Len(steps) = n + Len(rest) /\ steps # <<>>
    <3>1. Len(rest) \in Nat
      OBVIOUS
    <3> QED BY <2>1, <2>2, <3>1, EmptySeq DEF DeletionOf
  <2>4. todo'[t] = steps /\ on'[t] = objs
    BY <1>1, <2>3, BeginIs DEF Struct
  <2>5. tracker'[b] = 0 /\ status'[b] # "ABSENT"
    BY <1>2, <1>5
  <2>6. Own(t)'
    <3>1. DeletionOf(todo'[t], b, rest, n)
      BY <2>1, <2>2, <2>4
    <3>2. b \in Block \ Empty
      BY <1>1, <1>5
    <3> HIDE DEF b
    <3> QED BY <1>3, <2>4, <2>5, <3>1, <3>2, DeletionOwn
  <2>7. \A i \in 1..Len(steps) : steps[i].op \in {"mfree", "pffree"} => tracker[steps[i].b] # 0
    <3>1. SUFFICES ASSUME NEW i \in 1..Len(steps), steps[i].op \in {"mfree", "pffree"}
                   PROVE  tracker[steps[i].b] # 0
      OBVIOUS
    <3>2. Len(rest) \in Nat
      OBVIOUS
    <3>3. CASE i > n
      <4>1. steps[i] = rest[i - n] /\ i - n \in 1..Len(rest)
        BY <2>1, <2>2, <2>3, <3>2, <3>3 DEF DeletionOf
      <4> QED BY <1>4, <3>1, <4>1
    <3>4. CASE i = n
      BY <1>1, <1>5, <2>1, <2>2, <3>4, StepsAre DEF DeletionOf
    <3>5. CASE n = 3 /\ i < n
      <4>1. i = 1 \/ i = 2
        BY <3>5
      <4>2. steps[1] = Set(b, "write") /\ steps[2] = Unset(b, 1)
        BY <2>1, <2>2, <3>5 DEF DeletionOf
      <4>3. Set(b, "write").op = "set" /\ Unset(b, 1).op = "unset"
        BY <1>1, StepsAre
      <4> QED BY <3>1, <4>1, <4>2, <4>3
    <3> QED BY <3>3, <3>4, <3>5
  <2> QED BY <1>1, <1>2, <2>3, <2>6, <2>7, BeginStruct
<1>6. CASE ~ (tracker[b] = 1 /\ b \notin Empty)
  <2>1. steps = rest
    <3>1. CASE tracker[b] = 1
      BY <1>1, <1>6, <3>1, MDeleteIs
    <3>2. CASE tracker[b] # 1
      BY <3>2, ConcatEmptySeq
    <3> QED BY <3>1, <3>2
  <2> HIDE DEF steps
  <2>2. todo'[t] = rest /\ on'[t] = IF rest = <<>> THEN <<>> ELSE objs
    BY <1>1, <2>1, BeginIs DEF Struct
  <2>3. Own(t)'
    <3>1. CASE rest = <<>>
      BY <2>2, <3>1, EmptySeq DEF Own
    <3>2. CASE rest # <<>>
      BY <1>3, <2>2, <3>2, AfterOwn
    <3> QED BY <3>1, <3>2
  <2>4. \A i \in 1..Len(rest) : rest[i].op \notin {"mfree", "pffree"}
    BY <1>4
  <2> QED BY <1>1, <1>2, <2>1, <2>3, <2>4, BeginStruct
<1> QED BY <1>5, <1>6

\* One or two objects.
LEMMA Objects ==
    ASSUME NEW x \in Ptr \cup Handle, NEW y \in Ptr \cup Handle
    PROVE  /\ <<x>> \in Seq(Ptr \cup Handle) /\ Len(<<x>>) = 1 /\ <<x>>[1] = x
           /\ <<x, y>> \in Seq(Ptr \cup Handle) /\ Len(<<x, y>>) = 2
           /\ <<x, y>>[1] = x /\ <<x, y>>[2] = y
           /\ <<>> \in Seq(Steps) /\ Len(<<>>) = 0
OBVIOUS

\* A managedPtr that is not alive has no handle on it.
LEMMA Unhandled ==
    ASSUME Struct, NEW p \in Ptr, ptr[p] = None
    PROVE  ~ Handled(p)
<1>1. p # None
  BY HandleAssumption
<1> QED BY <1>1 DEF Struct, Anchored, Handled

LEMMA ConstructStruct ==
    ASSUME Struct, NEW t \in Thread, NEW p \in Ptr, NEW b \in Block, Construct(t, p, b)
    PROVE  Struct'
<1> DEFINE objs == <<p>>
           steps == IF b \in Empty THEN <<>> ELSE <<Set(b, "write"), Unset(b, 1)>>
<1>1. /\ ptr[p] = None /\ Alone(t, objs) /\ status[b] = "ABSENT" /\ Begin(t, objs, steps)
      /\ ptr' = [ptr EXCEPT ![p] = b]
      /\ status' = IF b \in Empty THEN status ELSE [status EXCEPT ![b] = "ALLOCATED"]
  BY DEF Construct
<1>2. tracker' = [tracker EXCEPT ![b] = @ + 1]
  BY DEF Construct, Struct, Basic
<1>3. objs \in Seq(Ptr \cup Handle) /\ Len(objs) \in {1, 2} /\ objs[1] = p
  BY Objects
<1>4. ~ Handled(p) /\ HandlesStay /\ ptr'[p] = b
  BY <1>1, Unhandled DEF Construct, HandlesStay, Struct, Basic
<1>5. b \in Empty \/ status'[b] # "ABSENT"
  BY <1>1 DEF Struct, Basic
<1>6. \A u \in Thread : \A j \in 1..Len(todo[u]) :
          todo[u][j].op \in {"mfree", "pffree"} => todo[u][j].b # b
  BY <1>1, Deleting
<1>7. /\ Basic' /\ Anchored' /\ Referred' /\ Spares(t) /\ KeepsBut(p)
      /\ ~ Handled(p)' /\ DataFrom(objs)
  BY <1>1, <1>2, <1>4, <1>5, <1>6, Gains
<1>8. CASE b \in Empty
  <2>1. steps = <<>> /\ <<>> \in Seq(Steps)
    BY <1>8, EmptySeq
  <2>2. \A i \in 1..Len(steps) : FALSE
    BY <2>1, EmptySeq
  <2> HIDE DEF steps, objs
  <2>3. Own(t)'
    BY <1>1, <1>3, <2>1, <2>2, BeginIs DEF Own, Struct
  <2> QED BY <1>1, <1>3, <1>7, <2>1, <2>2, <2>3, BeginStruct
<1>9. CASE b \notin Empty
  <2> DEFINE w == Set(b, "write")
             u == Unset(b, 1)
  <2>1. /\ w \in Steps /\ w.op = "set" /\ w.b = b /\ u \in Steps /\ u.op = "unset" /\ u.b = b
        /\ u = Unset(b, 1)
    BY StepsAre
  <2>2. steps = <<w, u>>
    BY <1>9
  <2> HIDE DEF w, u
  <2>3. steps \in Seq(Steps) /\ steps # <<>> /\ Len(steps) = 2 /\ steps[1] = w /\ steps[2] = u
    BY <2>1, <2>2
  <2> HIDE DEF steps, objs
  <2>4. todo'[t] = steps /\ on'[t] = objs
    BY <1>1, <1>3, <2>3, BeginIs DEF Struct
  <2>5. ForPtr(t, 1, b)' /\ ForPtr(t, 2, b)'
    BY <1>3, <1>4, <2>4 DEF ForPtr
  <2>6. Len(todo'[t]) = 2 /\ todo'[t][1] = w /\ todo'[t][2] = u
    BY <2>3, <2>4, Zenon
  <2>7. StepOK(t, 1)'
    <3>1. todo'[t][1] = w /\ 1 < Len(todo'[t]) /\ todo'[t][1 + 1] = Unset(w.b, 1)
      BY <2>1, <2>6
    <3>2. SetOK(t, 1)'
      BY <2>1, <2>5, <3>1 DEF SetOK
    <3> QED BY <1>9, <2>1, <3>1, <3>2 DEF StepOK
  <2>8. StepOK(t, 2)'
    <3>1. \A j \in (2 + 1)..Len(todo'[t]) : FALSE
      BY <2>6
    <3> QED BY <1>9, <2>1, <2>5, <2>6, <3>1 DEF StepOK, UnsetOK
  <2>9. Own(t)'
    <3>1. \A i \in 1..Len(todo'[t]) : i = 1 \/ i = 2
      BY <2>6
    <3> QED BY <2>7, <2>8, <3>1 DEF Own
  <2>10. \A i \in 1..Len(steps) : steps[i].op \notin {"mfree", "pffree"}
    <3>1. \A i \in 1..Len(steps) : i = 1 \/ i = 2
      BY <2>3
    <3> QED BY <2>1, <2>3, <3>1
  <2> QED BY <1>1, <1>3, <1>7, <2>3, <2>9, <2>10, BeginStruct
<1> QED BY <1>8, <1>9

LEMMA CopyStruct ==
    ASSUME Struct, NEW t \in Thread, NEW p \in Ptr, NEW q \in Ptr, Copy(t, p, q)
    PROVE  Struct'
<1> DEFINE objs == <<p, q>>
           b == ptr[q]
<1>1. /\ ptr[p] = None /\ b # None /\ Alone(t, objs) /\ Begin(t, objs, <<>>)
      /\ ptr' = [ptr EXCEPT ![p] = b] /\ tracker' = [tracker EXCEPT ![b] = @ + 1]
      /\ UNCHANGED status
  BY DEF Copy, manager
<1>2. objs \in Seq(Ptr \cup Handle) /\ Len(objs) \in {1, 2} /\ objs[1] = p
  BY Objects
<1>3. ~ Handled(p) /\ HandlesStay
  BY <1>1, Unhandled DEF Copy, HandlesStay, manager
<1>4. b \in Block /\ (b \in Empty \/ status'[b] # "ABSENT")
  BY <1>1, RefPositive DEF Struct
<1>5. \A u \in Thread : \A j \in 1..Len(todo[u]) :
          todo[u][j].op \in {"mfree", "pffree"} => todo[u][j].b # b
  BY Deleting
<1>6. /\ Basic' /\ Anchored' /\ Referred' /\ Spares(t) /\ KeepsBut(p)
      /\ ~ Handled(p)' /\ DataFrom(objs)
  <2> HIDE DEF b, objs
  <2> QED BY <1>1, <1>3, <1>4, <1>5, Gains
<1>7. <<>> \in Seq(Steps) /\ \A i \in 1..Len(<<>>) : FALSE
  BY EmptySeq
<1> HIDE DEF b, objs
<1>8. Own(t)'
  BY <1>1, <1>2, <1>7, BeginIs DEF Own, Struct
<1> QED BY <1>1, <1>2, <1>6, <1>7, <1>8, BeginStruct

LEMMA DestroyStruct ==
    ASSUME Struct, NEW t \in Thread, NEW p \in Ptr, Destroy(t, p)
    PROVE  Struct'
<1>1. /\ ptr[p] # None /\ Alone(t, <<p>>) /\ ~ Handled(p) /\ Release(t, p, <<p>>, <<>>)
      /\ HandlesStay /\ UNCHANGED status
  BY DEF Destroy, HandlesStay, manager
<1>2. <<p>> \in Seq(Ptr \cup Handle) /\ Len(<<p>>) \in {1, 2} /\ <<p>>[1] = p
  BY Objects
<1>3. <<>> \in Seq(Steps) /\ AfterRelease(<<>>, <<p>>)
  BY EmptySeq DEF AfterRelease
<1> QED BY <1>1, <1>2, <1>3, ReleaseStruct

LEMMA AssignStruct ==
    ASSUME Struct, NEW t \in Thread, NEW p \in Ptr, NEW q \in Ptr, Assign(t, p, q)
    PROVE  Struct'
<1> DEFINE objs == <<p, q>>
           c == ptr[q]
           rest == <<Step("take", c)>>
<1>1. /\ ptr[p] # None /\ c # None /\ Alone(t, objs) /\ ~ Handled(p)
      /\ ptr[p] \in Empty \/ ptr[p] # c
      /\ HandlesStay /\ UNCHANGED status
      /\ IF ptr[p] \in Empty
         THEN ptr' = [ptr EXCEPT ![p] = None] /\ UNCHANGED tracker /\ Begin(t, objs, rest)
         ELSE Release(t, p, objs, rest)
  BY DEF Assign, Reassign, HandlesStay, manager
<1>2. objs \in Seq(Ptr \cup Handle) /\ Len(objs) \in {1, 2} /\ objs[1] = p /\ objs[2] = q /\ Len(objs) = 2
  BY Objects
<1>3. c \in Block /\ ptr[p] \in Block
  BY <1>1 DEF Struct, Basic
<1>4. ptr' = [ptr EXCEPT ![p] = None]
  BY <1>1 DEF Release
<1>5. ptr'[p] = None /\ (c \in Empty \/ ptr'[q] = c)
  <2>1. \A r \in Ptr : ptr'[r] = IF r = p THEN None ELSE ptr[r]
    BY <1>4 DEF Struct, Basic
  <2>2. CASE q = p
    BY <1>1, <2>1, <2>2
  <2>3. CASE q # p
    BY <1>1, <2>1, <2>3
  <2> QED BY <2>2, <2>3
<1>6. /\ Step("take", c) \in Steps /\ Step("take", c).op = "take"
      /\ rest \in Seq(Steps) /\ Len(rest) = 1 /\ rest[1] = Step("take", c) /\ rest # <<>>
  <2>1. Step("take", c) \in Steps /\ Step("take", c).op = "take"
    BY <1>3, StepsAre
  <2> QED BY <2>1
<1>7. AfterRelease(rest, objs)
  <2>1. objs[2] = q /\ objs[1] = p
    BY <1>2
  <2> QED BY <1>2, <1>3, <1>5, <2>1 DEF AfterRelease
<1>8. CASE ptr[p] \in Empty
  <2> DEFINE b == ptr[p]
  <2>1. b \in Block /\ ptr' = [ptr EXCEPT ![p] = None] /\ UNCHANGED tracker /\ Begin(t, objs, rest)
    BY <1>1, <1>3, <1>8
  <2>2. b \in Empty
    BY <1>8
  <2> HIDE DEF objs, rest
  <2>3. /\ Basic' /\ Anchored' /\ Referred' /\ Spares(t) /\ KeepsBut(p)
        /\ ~ Handled(p)' /\ DataFrom(objs)
    BY <1>1, <2>1, <2>2, LetsGoOf
  <2>4. todo'[t] = rest /\ on'[t] = objs
    BY <1>2, <1>6, <2>1, BeginIs DEF Struct
  <2>5. Own(t)'
    BY <1>2, <1>5, <1>6, <1>7, <2>4, AfterOwn
  <2>6. \A i \in 1..Len(rest) : rest[i].op \notin {"mfree", "pffree"}
    BY <1>6
  <2> QED BY <1>1, <1>2, <1>6, <2>1, <2>3, <2>5, <2>6, BeginStruct
<1>9. CASE ptr[p] \notin Empty
  <2>1. Release(t, p, objs, rest)
    BY <1>1, <1>9
  <2> HIDE DEF objs, rest
  <2> QED BY <1>1, <1>2, <1>6, <1>7, <2>1, ReleaseStruct
<1> QED BY <1>8, <1>9

LEMMA TakeStruct ==
    ASSUME Struct, NEW t \in Thread, Take(t)
    PROVE  Struct'
<1> DEFINE p == on[t][1]
           b == Subject(t)
<1>1. /\ todo[t] # <<>> /\ Head(todo[t]).op = "take" /\ Done(t)
      /\ ptr' = [ptr EXCEPT ![p] = b] /\ tracker' = [tracker EXCEPT ![b] = @ + 1]
      /\ UNCHANGED <<status, data, loaded>>
  BY DEF Take, At, manager
<1>2. /\ Len(todo[t]) = 1 /\ p \in Ptr /\ ptr[p] = None /\ b \in Block /\ on[t][2] \in Ptr
      /\ b \in Empty \/ ptr[on[t][2]] = b
  <2>1. StepOK(t, 1) /\ Head(todo[t]) = todo[t][1] /\ b \in Block /\ b = todo[t][1].b
    BY <1>1, AtIs
  <2> QED BY <1>1, <2>1 DEF StepOK, TakeOK
<1>3. Continue(t, <<>>) /\ Last(todo[t]).op # "loc"
  <2>1. Tail(todo[t]) = <<>> /\ Last(todo[t]) = Head(todo[t])
    BY <1>1, <1>2, AtIs
  <2> QED BY <1>1, <2>1 DEF Done
<1>4. ~ Handled(p) /\ HandlesStay
  BY <1>2, Unhandled DEF Take, HandlesStay, manager
<1>5. b \in Empty \/ status'[b] # "ABSENT"
  <2>1. b # None
    BY <1>2, HandleAssumption
  <2> QED BY <1>1, <1>2, <2>1, RefPositive DEF Struct
<1>6. \A u \in Thread : \A j \in 1..Len(todo[u]) :
          todo[u][j].op \in {"mfree", "pffree"} => todo[u][j].b # b
  BY <1>2, Deleting
<1>7. /\ Basic' /\ Anchored' /\ Referred' /\ Spares(t) /\ KeepsBut(p) /\ DataFrom(<<>>)
  <2> HIDE DEF p, b
  <2> QED BY <1>1, <1>2, <1>4, <1>5, <1>6, Gains
<1> QED BY <1>1, <1>3, <1>7, EndStruct
-----------------------------------------------------------------------------
(* The operations on handles keep the structure.                           *)

\* A handle is put on a managedPtr, or on none, and gets flags.
LEMMA HandleMoves ==
    ASSUME Struct, UNCHANGED <<tracker, status, useCnt, ptr, mutex, ended>>, NEW t,
           NEW g \in Handle, NEW d \in Ptr \cup {None}, NEW L \in SUBSET Flags,
           data' = [data EXCEPT ![g] = d], loaded' = [loaded EXCEPT ![g] = L],
           d # None => ptr[d] # None, L # {} => d # None /\ ptr[d] \notin Empty,
           given' = given \/ given' = given \ {g}, failed' = failed \/ failed' = failed \ {g},
           g \in given' \cup failed' => d # None
    PROVE  Basic' /\ Anchored' /\ Referred' /\ Spares(t) /\ KeepsBut(g)
<1>1. \A h \in Handle : /\ data'[h] = IF h = g THEN d ELSE data[h]
                        /\ loaded'[h] = IF h = g THEN L ELSE loaded[h]
  BY DEF Struct, Basic
<1>2. Basic'
  <2>1. data' \in [Handle -> Ptr \cup {None}] /\ loaded' \in [Handle -> SUBSET Flags]
    BY DEF Struct, Basic
  <2>2. given' \cup failed' \subseteq {h \in Handle : data'[h] # None}
    <3>1. SUFFICES ASSUME NEW h \in given' \cup failed' PROVE h \in Handle /\ data'[h] # None
      OBVIOUS
    <3>2. h \in given \cup failed
      BY <3>1
    <3>3. h \in Handle /\ data[h] # None
      BY <3>2 DEF Struct, Basic
    <3> QED BY <1>1, <3>1, <3>3
  <2> QED BY <2>1, <2>2 DEF Struct, Basic
<1>3. Anchored'
  <2>1. SUFFICES ASSUME NEW h \in Handle
                 PROVE  /\ data'[h] # None => ptr[data'[h]] # None
                        /\ loaded'[h] # {} => data'[h] # None /\ ptr[data'[h]] \notin Empty
    BY DEF Anchored, Chunk
  <2>2. CASE h = g
    BY <1>1, <2>2
  <2>3. CASE h # g
    BY <1>1, <2>3 DEF Struct, Anchored, Chunk
  <2> QED BY <2>2, <2>3
<1>4. Referred' /\ Spares(t)
  BY DEF Struct, Referred, References, Spares
<1>5. KeepsBut(g)
  BY <1>1 DEF KeepsBut
<1> QED BY <1>2, <1>3, <1>4, <1>5

\* An operation on a handle begins.
LEMMA HandleBegin ==
    ASSUME Struct, NEW t \in Thread, NEW g \in Handle, NEW objs \in Seq(Ptr \cup Handle),
           Len(objs) \in {1, 2}, objs[1] = g, Alone(t, objs) \/ Free(t, objs), NEW steps \in Seq(Steps),
           Begin(t, objs, steps), DataFrom(objs),
           \A i \in 1..Len(steps) : steps[i].op \notin {"mfree", "pffree"},
           KeepsBut(g), Spares(t), Basic', Own(t)', Anchored', Referred'
    PROVE  Struct'
<1>1. objs[1] \notin Ptr
  BY HandleAssumption
<1> QED BY <1>1, BeginStruct

\* Uses to set for a handle.
LEMMA SetsOwn ==
    ASSUME NEW t, NEW b \in Block, NEW S \in SUBSET Flags, SetsFor(todo'[t], b, S),
           S # {} => /\ b \notin Empty /\ ForHandle(t, b)'
                     /\ S \subseteq loaded'[on'[t][1]]
    PROVE  Own(t)'
<1>1. SUFFICES ASSUME NEW i \in 1..Len(todo'[t]) PROVE StepOK(t, i)'
  BY DEF Own
<1> DEFINE q == todo'[t]
<1>2. /\ q \in Seq(Steps) /\ q[i].op = "set" /\ q[i].b = b /\ q[i].flag \in S
      /\ \A j \in (i + 1)..Len(q) : q[j].op = "set" /\ q[j].flag # q[i].flag
  <2>1. \A j \in (i + 1)..Len(q) : j \in 1..Len(q)
    <3>1. Len(q) \in Nat
      BY DEF SetsFor
    <3> QED BY <3>1
  <2> QED BY <2>1 DEF SetsFor
<1>3. b \notin Empty /\ ForHandle(t, b)' /\ q[i].flag \in loaded'[on'[t][1]]
  BY <1>2
<1>4. SetOK(t, i)'
  BY <1>2, <1>3 DEF SetOK
<1> QED BY <1>2, <1>3, <1>4 DEF StepOK

LEMMA AdhereStruct ==
    ASSUME Struct, NEW t \in Thread, NEW h \in Handle, NEW p \in Ptr, Adhere(t, h, p)
    PROVE  Struct'
<1> DEFINE objs == <<h, p>>
           b == ptr[p]
<1>1. /\ data[h] = None /\ b # None /\ Alone(t, objs) /\ data' = [data EXCEPT ![h] = p]
      /\ UNCHANGED <<tracker, status, useCnt, ptr, loaded, given, failed, mutex, ended>>
      /\ \E loadImmediately \in BOOLEAN :
            Begin(t, objs, IF loadImmediately /\ b \notin Empty THEN <<Step("prepare", b)>> ELSE <<>>)
  BY DEF Adhere, manager
<1>2. /\ objs \in Seq(Ptr \cup Handle) /\ Len(objs) \in {1, 2} /\ objs[1] = h
      /\ <<>> \in Seq(Steps) /\ Len(<<>>) = 0
  BY Objects
<1>3. loaded[h] = {} /\ h \notin given \cup failed /\ b \in Block
  BY <1>1 DEF Struct, Anchored, Basic
<1>4. loaded' = [loaded EXCEPT ![h] = {}]
  BY <1>1, <1>3 DEF Struct, Basic
<1>5. Basic' /\ Anchored' /\ Referred' /\ Spares(t) /\ KeepsBut(h)
  BY <1>1, <1>3, <1>4, HandleMoves
<1>6. DataFrom(objs) /\ data'[h] = p
  <2>1. p \in Range(objs)
    BY TupleRange
  <2> QED BY <1>1, <2>1 DEF DataFrom, Struct, Basic
<1>7. CASE Begin(t, objs, <<Step("prepare", b)>>) /\ b \notin Empty
  <2> DEFINE s == Step("prepare", b)
             steps == <<s>>
  <2>1. s \in Steps /\ s.op = "prepare" /\ s.b = b
    BY <1>3, StepsAre
  <2> HIDE DEF s
  <2>2. steps \in Seq(Steps) /\ Len(steps) = 1 /\ steps[1] = s /\ steps # <<>>
    BY <2>1
  <2>3. Begin(t, objs, steps)
    BY <1>7 DEF s
  <2> HIDE DEF steps, objs
  <2>4. todo'[t] = steps /\ on'[t] = objs
    BY <1>2, <2>2, <2>3, BeginIs DEF Struct
  <2>5. Len(todo'[t]) = 1 /\ todo'[t][1] = s /\ on'[t][1] = h
    BY <1>2, <2>2, <2>4, Zenon
  <2>6. ForHandle(t, b)'
    <3>1. p # None
      BY HandleAssumption
    <3> QED BY <1>1, <1>6, <2>5, <3>1 DEF ForHandle, Chunk
  <2>7. PrepareOK(t, 1)'
    BY <1>1, <1>3, <2>1, <2>5, <2>6 DEF PrepareOK
  <2>8. StepOK(t, 1)'
    BY <1>7, <2>1, <2>5, <2>7 DEF StepOK
  <2>9. Own(t)'
    <3>1. \A i \in 1..Len(todo'[t]) : i = 1
      BY <2>5
    <3> QED BY <2>8, <3>1 DEF Own
  <2>10. \A i \in 1..Len(steps) : steps[i].op \notin {"mfree", "pffree"}
    BY <2>1, <2>2
  <2> QED BY <1>1, <1>2, <1>5, <1>6, <2>2, <2>3, <2>9, <2>10, HandleBegin
<1>8. CASE Begin(t, objs, <<>>)
  <2> HIDE DEF objs
  <2>1. todo'[t] = <<>>
    BY <1>2, <1>8, BeginIs DEF Struct
  <2>2. \A i \in 1..Len(<<>>) : FALSE
    OBVIOUS
  <2>3. Own(t)'
    BY <2>1, <2>2 DEF Own
  <2> QED BY <1>1, <1>2, <1>5, <1>6, <1>8, <2>2, <2>3, HandleBegin
<1> QED BY <1>1, <1>7, <1>8

LEMMA CopyHandleStruct ==
    ASSUME Struct, NEW t \in Thread, NEW g \in Handle, NEW h \in Handle, CopyHandle(t, g, h)
    PROVE  Struct'
<1> DEFINE objs == <<g, h>>
           b == Chunk(h)
           S == loaded[h]
           steps == SetUses(b, S)
<1>1. /\ data[g] = None /\ data[h] # None /\ Alone(t, objs) /\ Begin(t, objs, steps)
      /\ data' = [data EXCEPT ![g] = data[h]] /\ loaded' = [loaded EXCEPT ![g] = S]
      /\ UNCHANGED <<tracker, status, useCnt, ptr, given, failed, mutex, ended>>
  BY DEF CopyHandle, manager
<1>2. objs \in Seq(Ptr \cup Handle) /\ Len(objs) \in {1, 2} /\ objs[1] = g
  BY Objects
<1>3. /\ data[h] \in Ptr /\ b = ptr[data[h]] /\ b # None /\ b \in Block /\ S \in SUBSET Flags
      /\ S # {} => b \notin Empty
      /\ g \notin given \cup failed
  BY <1>1 DEF Struct, Anchored, Basic, Chunk
<1>4. data'[g] = data[h] /\ loaded'[g] = S
  BY <1>1 DEF Struct, Basic
<1>5. Basic' /\ Anchored' /\ Referred' /\ Spares(t) /\ KeepsBut(g)
  BY <1>1, <1>3, HandleMoves
<1>6. DataFrom(objs)
  BY <1>1 DEF DataFrom, Struct, Basic
<1>7. SetsFor(steps, b, S)
  BY <1>3, SetUsesIs
<1>8. steps \in Seq(Steps) /\ \A i \in 1..Len(steps) : steps[i].op = "set"
  BY <1>7 DEF SetsFor
<1> HIDE DEF steps, objs
<1>9. todo'[t] = steps /\ on'[t] = IF steps = <<>> THEN <<>> ELSE objs
  BY <1>1, <1>2, <1>8, BeginIs DEF Struct
<1>10. Own(t)'
  <2>1. S # {} => on'[t][1] = g
    <3>1. S # {} => steps # <<>>
      BY <1>7 DEF SetsFor
    <3> QED BY <1>2, <1>9, <3>1
  <2>2. PICK c \in Block : c = b
    BY <1>3
  <2>3. PICK F \in SUBSET Flags : F = S
    BY <1>3
  <2>4. F # {} => c \notin Empty /\ ForHandle(t, c)' /\ F \subseteq loaded'[on'[t][1]]
    <3>1. SUFFICES ASSUME F # {} PROVE c \notin Empty /\ ForHandle(t, c)' /\ F \subseteq loaded'[on'[t][1]]
      OBVIOUS
    <3>2. on'[t][1] = g /\ data'[g] # None /\ ptr'[data'[g]] = c
      BY <1>1, <1>3, <1>4, <2>1, <2>2, <2>3, <3>1
    <3>3. ForHandle(t, c)'
      BY <3>2 DEF ForHandle, Chunk
    <3>4. c \notin Empty
      BY <1>3, <2>2, <2>3, <3>1
    <3>5. F \subseteq loaded'[on'[t][1]]
      BY <1>4, <2>3, <3>2
    <3> QED BY <3>3, <3>4, <3>5
  <2>5. SetsFor(todo'[t], c, F)
    BY <1>7, <1>9, <2>2, <2>3
  <2> QED BY <2>4, <2>5, SetsOwn
<1> QED BY <1>1, <1>2, <1>5, <1>6, <1>8, <1>10, HandleBegin

LEMMA DestroyHandleStruct ==
    ASSUME Struct, NEW t \in Thread, NEW h \in Handle, DestroyHandle(t, h)
    PROVE  Struct'
<1> DEFINE p == data[h]
           objs == <<h, p>>
           b == Chunk(h)
           n == Cardinality(loaded[h])
           steps == IF n > 0 THEN <<Unset(b, n)>> ELSE <<>>
<1>1. /\ p # None /\ Alone(t, <<h>>) /\ Begin(t, objs, steps)
      /\ data' = [data EXCEPT ![h] = None] /\ loaded' = [loaded EXCEPT ![h] = {}]
      /\ given' = given \ {h} /\ failed' = failed \ {h}
      /\ UNCHANGED <<tracker, status, useCnt, ptr, mutex, ended>>
  BY DEF DestroyHandle, LetsGo, manager
<1>2. /\ p \in Ptr /\ b = ptr[p] /\ b \in Block /\ loaded[h] \in SUBSET Flags
      /\ loaded[h] # {} => b \notin Empty
  BY <1>1 DEF Struct, Anchored, Basic, Chunk
<1>3. /\ objs \in Seq(Ptr \cup Handle) /\ Len(objs) = 2 /\ objs[1] = h /\ objs[2] = p
  BY <1>2, Objects
<1>4. n \in {0, 1, 2} /\ (n > 0 => loaded[h] # {})
  <2>1. n \in {0, 1, 2} /\ (n = 0 <=> loaded[h] = {})
    BY <1>2, FlagSets
  <2> QED BY <2>1
<1>5. Basic' /\ Anchored' /\ Referred' /\ Spares(t) /\ KeepsBut(h)
  <2>1. h \notin given' \cup failed' /\ None \in Ptr \cup {None} /\ {} \in SUBSET Flags
    BY <1>1
  <2> QED BY <1>1, <2>1, HandleMoves
<1>6. DataFrom(objs)
  BY <1>1 DEF DataFrom, Struct, Basic
<1>9. Free(t, objs)
  <2>1. Range(objs) = {h, p} /\ <<h>> \in Seq(Ptr \cup Handle) /\ Len(<<h>>) = 1 /\ <<h>>[1] = h
    BY <1>2, TupleRange, Objects
  <2>2. Free(t, <<h>>) /\ Range(<<h>>) = {h}
    BY <1>1, <2>1, AloneFree, TupleRange DEF Struct
  <2>3. \A u \in Thread \ {t} : todo[u] # <<>> => on[u][1] # p
    BY <1>2 DEF Struct, Apart, Handled
  <2> QED BY <1>3, <2>1, <2>2, <2>3 DEF Free
<1>7. CASE n > 0
  <2> DEFINE s == Unset(b, n)
  <2>1. s \in Steps /\ s.op = "unset" /\ s.b = b
    BY <1>2, <1>4, <1>7, StepsAre
  <2>2. steps = <<s>>
    BY <1>7
  <2> HIDE DEF s, steps, n
  <2>3. steps \in Seq(Steps) /\ Len(steps) = 1 /\ steps[1] = s /\ steps # <<>>
    BY <2>1, <2>2
  <2> HIDE DEF objs
  <2>4. todo'[t] = steps /\ on'[t] = objs
    BY <1>1, <1>3, <2>3, BeginIs DEF Struct
  <2>5. Len(todo'[t]) = 1 /\ todo'[t][1] = s /\ on'[t][1] = h /\ on'[t][2] = p /\ Len(on'[t]) = 2
    BY <1>3, <2>3, <2>4, Zenon
  <2>6. UnsetOK(t, 1)'
    BY <1>1, <1>2, <2>1, <2>5 DEF UnsetOK
  <2>7. b \notin Empty
    BY <1>2, <1>4, <1>7
  <2>8. Own(t)'
    <3>1. \A i \in 1..Len(todo'[t]) : i = 1
      BY <2>5
    <3>2. StepOK(t, 1)'
      BY <2>1, <2>5, <2>6, <2>7 DEF StepOK
    <3> QED BY <3>1, <3>2 DEF Own
  <2>9. \A i \in 1..Len(steps) : steps[i].op \notin {"mfree", "pffree"}
    BY <2>1, <2>3
  <2> QED BY <1>1, <1>3, <1>5, <1>6, <2>3, <2>8, <2>9, <1>9, HandleBegin
<1>8. CASE ~ (n > 0)
  <2>1. steps = <<>> /\ <<>> \in Seq(Steps)
    BY <1>8
  <2>2. \A i \in 1..Len(<<>>) : FALSE
    OBVIOUS
  <2> HIDE DEF objs, steps
  <2>3. todo'[t] = <<>>
    BY <1>1, <1>3, <2>1, BeginIs DEF Struct
  <2>4. Own(t)'
    BY <2>2, <2>3 DEF Own
  <2> QED BY <1>1, <1>3, <1>5, <1>6, <2>1, <2>2, <2>4, <1>9, HandleBegin
<1> QED BY <1>7, <1>8

LEMMA AssignHandleStruct ==
    ASSUME Struct, NEW t \in Thread, NEW g \in Handle, NEW h \in Handle, AssignHandle(t, g, h)
    PROVE  Struct'
<1> DEFINE objs == <<g, h>>
           b == Chunk(g)
           c == Chunk(h)
           n == Cardinality(loaded[g])
           a == Adopts(c, loaded[h])
           steps == [i \in 1..n |-> Unset(b, 1)] \o <<a>>
<1>1. /\ data[g] # None /\ data[h] # None /\ Alone(t, objs) /\ Begin(t, objs, steps)
      /\ loaded' = [loaded EXCEPT ![g] = {}]
      /\ given' = given \ {g} /\ failed' = failed \ {g}
      /\ UNCHANGED <<tracker, status, useCnt, ptr, data, mutex, ended>>
  BY DEF AssignHandle, LetsGo, manager
<1>2. /\ data[g] \in Ptr /\ b = ptr[data[g]] /\ b \in Block /\ loaded[g] \in SUBSET Flags
      /\ data[h] \in Ptr /\ c = ptr[data[h]] /\ c \in Block /\ loaded[h] \in SUBSET Flags
      /\ ptr[data[g]] # None
      /\ loaded[g] # {} => b \notin Empty
      /\ loaded[h] # {} => c \notin Empty
  BY <1>1 DEF Struct, Anchored, Basic, Chunk
<1>3. objs \in Seq(Ptr \cup Handle) /\ Len(objs) = 2 /\ objs[1] = g /\ objs[2] = h
  BY Objects
<1>4. n \in {0, 1, 2} /\ (n > 0 => loaded[g] # {})
  <2>1. n \in {0, 1, 2} /\ (n = 0 <=> loaded[g] = {})
    BY <1>2, FlagSets
  <2> QED BY <2>1
<1>5. Basic' /\ Anchored' /\ Referred' /\ Spares(t) /\ KeepsBut(g)
  <2>1. data' = [data EXCEPT ![g] = data[g]]
    BY <1>1 DEF Struct, Basic
  <2>2. {} \in SUBSET Flags
    OBVIOUS
  <2> DEFINE d == data[g]
  <2>3. d \in Ptr \cup {None} /\ d # None /\ ptr[d] # None
    BY <1>1, <1>2
  <2> HIDE DEF d
  <2>4. data' = [data EXCEPT ![g] = d]
    BY <2>1 DEF d
  <2> QED BY <1>1, <2>2, <2>3, <2>4, HandleMoves
<1>6. DataFrom(objs)
  BY <1>1 DEF DataFrom
<1>7. a \in Steps /\ a.op = "adopt" /\ a.b = c /\ a.flags = loaded[h]
  BY <1>2, StepsAre
<1>8. \A i \in 1..n : Unset(b, 1).op = "unset" /\ Unset(b, 1).b = b
  BY <1>2, StepsAre
<1>9. /\ steps \in Seq(Steps) /\ Len(steps) = n + 1 /\ steps[n + 1] = a /\ steps # <<>>
      /\ \A i \in 1..n : steps[i].op = "unset" /\ steps[i].b = b
  <2> HIDE DEF n, a, b
  <2>1. /\ steps \in Seq(Steps) /\ Len(steps) = n + 1 /\ steps[n + 1] = a
        /\ \A i \in 1..n : steps[i] = Unset(b, 1)
    BY <1>2, <1>4, <1>7, UnsetsAre
  <2> HIDE DEF steps
  <2>2. steps # <<>>
    BY <1>4, <2>1, EmptySeq
  <2> QED BY <1>8, <2>1, <2>2
<1> HIDE DEF steps, objs, a, n
<1>10. todo'[t] = steps /\ on'[t] = objs
  BY <1>1, <1>3, <1>9, BeginIs DEF Struct
<1>11. /\ Len(todo'[t]) = n + 1 /\ todo'[t][n + 1] = a
       /\ \A i \in 1..n : todo'[t][i].op = "unset" /\ todo'[t][i].b = b
       /\ on'[t][1] = g /\ on'[t][2] = h /\ Len(on'[t]) = 2
  BY <1>3, <1>9, <1>10, Zenon
<1>12. loaded'[g] = {} /\ g \notin given' \cup failed'
  BY <1>1 DEF Struct, Basic
<1>13. Own(t)'
  <2>1. SUFFICES ASSUME NEW i \in 1..Len(todo'[t]) PROVE StepOK(t, i)'
    BY DEF Own
  <2>2. CASE i = n + 1
    <3>1. todo'[t][i] = a /\ i = Len(todo'[t])
      BY <1>11, <2>2
    <3>2. AdoptOK(t, i)'
      BY <1>1, <1>2, <1>7, <1>11, <1>12, <3>1 DEF AdoptOK, Chunk
    <3> QED BY <1>7, <3>1, <3>2 DEF StepOK
  <2>3. CASE i # n + 1
    <3>1. i \in 1..n /\ i < Len(todo'[t]) /\ n > 0
      BY <1>4, <1>11, <2>1, <2>3
    <3>2. \A j \in (i + 1)..Len(todo'[t]) : todo'[t][j].op \in {"unset", "adopt"}
      <4>1. SUFFICES ASSUME NEW j \in (i + 1)..Len(todo'[t]) PROVE todo'[t][j].op \in {"unset", "adopt"}
        OBVIOUS
      <4>2. j = n + 1 \/ j \in 1..n
        BY <1>4, <1>11, <3>1, <4>1
      <4> QED BY <1>7, <1>11, <4>2
    <3>3. PICK e \in Block : e = b
      BY <1>2
    <3>4. ForHandle(t, e)'
      BY <1>1, <1>2, <1>11, <3>3 DEF ForHandle, Chunk
    <3>5. todo'[t][i].op = "unset" /\ todo'[t][i].b = e /\ e \notin Empty
      BY <1>2, <1>4, <1>11, <3>1, <3>3
    <3>6. UnsetOK(t, i)'
      BY <3>1, <3>2, <3>4, <3>5 DEF UnsetOK
    <3> QED BY <3>5, <3>6 DEF StepOK
  <2> QED BY <2>2, <2>3
<1>14. \A i \in 1..Len(steps) : steps[i].op \notin {"mfree", "pffree"}
  <2>1. \A i \in 1..Len(steps) : i = n + 1 \/ i \in 1..n
    BY <1>4, <1>9
  <2> QED BY <1>7, <1>9, <2>1
<1> QED BY <1>1, <1>3, <1>5, <1>6, <1>9, <1>13, <1>14, HandleBegin

LEMMA AdoptStruct ==
    ASSUME Struct, NEW t \in Thread, Adopt(t)
    PROVE  Struct'
<1> DEFINE g == on[t][1]
           h == on[t][2]
           b == Chunk(h)
           S == Head(todo[t]).flags
           steps == SetUses(b, S)
<1>1. todo[t] # <<>> /\ Head(todo[t]).op = "adopt"
  BY DEF Adopt, At
<1>2. /\ data' = [data EXCEPT ![g] = data[h]] /\ loaded' = [loaded EXCEPT ![g] = S]
      /\ Continue(t, steps)
      /\ UNCHANGED <<tracker, status, useCnt, ptr, given, failed, mutex, ended>>
  BY DEF Adopt, manager
<1>3. AdoptOK(t, 1) /\ Head(todo[t]) = todo[t][1] /\ S \in SUBSET Flags
  <2>1. StepOK(t, 1) /\ Head(todo[t]) = todo[t][1] /\ Head(todo[t]) \in Steps
    BY <1>1, AtIs
  <2>2. S \in SUBSET Flags
    BY <1>1, <2>1, StepKinds
  <2> QED BY <1>1, <2>1, <2>2 DEF StepOK
<1>4. /\ 1 = Len(todo[t]) /\ Len(on[t]) = 2 /\ g \in Handle /\ h \in Handle
      /\ data[g] # None /\ data[h] # None /\ b = Head(todo[t]).b
      /\ S # {} => b \notin Empty
      /\ g \notin given \cup failed
  BY <1>3 DEF AdoptOK
<1>5. Last(todo[t]).op # "loc"
  <2>1. Last(todo[t]) = Head(todo[t])
    BY <1>1, <1>4, AtIs
  <2> QED BY <1>1, <2>1
<1>6. /\ data[h] \in Ptr /\ b = ptr[data[h]] /\ b # None /\ b \in Block
  BY <1>4 DEF Struct, Anchored, Basic, Chunk
<1>7. data'[g] = data[h] /\ loaded'[g] = S
  BY <1>2, <1>4 DEF Struct, Basic
<1>8. Basic' /\ Anchored' /\ Referred' /\ Spares(t) /\ KeepsBut(g)
  <2> DEFINE d == data[h]
  <2>1. d \in Ptr \cup {None} /\ d # None /\ ptr[d] # None /\ (S # {} => ptr[d] \notin Empty)
    BY <1>4, <1>6
  <2>2. data' = [data EXCEPT ![g] = d]
    BY <1>2
  <2> HIDE DEF d, g, h, S
  <2> QED BY <1>2, <1>3, <1>4, <2>1, <2>2, HandleMoves
<1>9. DataFrom(<<>>)
  BY <1>2, <1>4 DEF DataFrom, Struct, Basic
<1>10. SetsFor(steps, b, S)
  BY <1>3, <1>6, SetUsesIs
<1>11. steps \in Seq(Steps) /\ \A i \in 1..Len(steps) : steps[i].op = "set"
  BY <1>10 DEF SetsFor
<1> HIDE DEF steps
<1>12. todo'[t] = steps /\ on'[t] = (IF steps = <<>> THEN <<>> ELSE on[t]) /\ Others(t)
  BY <1>1, <1>2, <1>11, ContinueIs DEF Struct
<1>13. Own(t)'
  <2>1. S # {} => on'[t][1] = g
    <3>1. S # {} => steps # <<>>
      BY <1>10 DEF SetsFor
    <3> QED BY <1>12, <3>1
  <2>2. PICK c \in Block : c = b
    BY <1>6
  <2>3. PICK F \in SUBSET Flags : F = S
    BY <1>3
  <2>4. F # {} => c \notin Empty /\ ForHandle(t, c)' /\ F \subseteq loaded'[on'[t][1]]
    <3>1. SUFFICES ASSUME F # {} PROVE c \notin Empty /\ ForHandle(t, c)' /\ F \subseteq loaded'[on'[t][1]]
      OBVIOUS
    <3>2. on'[t][1] = g /\ data'[g] # None /\ ptr'[data'[g]] = c /\ g \in Handle
      BY <1>2, <1>4, <1>6, <1>7, <2>1, <2>2, <2>3, <3>1
    <3>3. ForHandle(t, c)'
      BY <3>2 DEF ForHandle, Chunk
    <3>4. c \notin Empty
      BY <1>4, <2>2, <2>3, <3>1
    <3>5. F \subseteq loaded'[on'[t][1]]
      BY <1>7, <2>3, <3>2
    <3> QED BY <3>3, <3>4, <3>5
  <2>5. SetsFor(todo'[t], c, F)
    BY <1>10, <1>12, <2>2, <2>3
  <2> QED BY <2>4, <2>5, SetsOwn
<1>14. DeletedOnce' /\ SetOnce'
  <2>1. ASSUME NEW u \in Thread \ {t}, NEW j \in 1..Len(todo[u]), on[u][1] = g PROVE FALSE
    <3>1. todo[u] # <<>> /\ g \in Range(on[u])
      <4>1. todo[u] # <<>>
        BY <2>1, EmptySeq
      <4> QED BY <2>1, <4>1, Working DEF Struct
    <3>2. Pulls(t, g)
      BY <1>1, <3>1 DEF Struct, Apart
    <3> QED BY <1>5, <3>2 DEF Pulls
  <2>2. \A i \in 1..Len(todo'[t]) : todo'[t][i].op = "set" /\ on'[t][1] = g
    <3>1. \A i \in 1..Len(steps) : steps # <<>>
      BY EmptySeq
    <3> QED BY <1>11, <1>12, <3>1
  <2> QED BY <1>12, <2>1, <2>2, BeginOnce DEF Struct
<1> QED BY <1>1, <1>2, <1>5, <1>8, <1>9, <1>11, <1>13, <1>14, ContinueStruct

\* The steps of a pull: perhaps one to set the use, and then one to wait for the chunk.
PullOf(q, b, f, S) ==
    /\ q \in Seq(Steps) /\ q # <<>> /\ Len(q) \in {1, 2} /\ q[Len(q)] = Step("loc", b)
    /\ Len(q) = 1 <=> S = {}
    /\ Len(q) = 2 => q[1].op = "set" /\ q[1].b = b /\ q[1].flag = f

LEMMA PullSteps ==
    ASSUME NEW b \in Block, NEW f \in Flags, NEW S \in SUBSET Flags, S \subseteq {f}
    PROVE  PullOf(SetUses(b, S) \o <<Step("loc", b)>>, b, f, S)
<1> DEFINE q == SetUses(b, S) \o <<Step("loc", b)>>
<1> DEFINE d == SetUses(b, S)
           l == Step("loc", b)
           n == Len(d)
<1>1. SetsFor(d, b, S)
  BY SetUsesIs
<1>2. l \in Steps
  BY StepsAre
<1>12. q = d \o <<l>>
  OBVIOUS
<1> HIDE DEF d, l, q
<1>3. /\ d \in Seq(Steps) /\ n \in Nat
      /\ \A i \in 1..n : d[i].op = "set" /\ d[i].b = b /\ d[i].flag \in S
      /\ \A i \in 1..n : \A j \in (i + 1)..n : d[j].flag # d[i].flag
      /\ d = <<>> <=> S = {}
  BY <1>1 DEF SetsFor
<1>4. n = 0 <=> S = {}
  BY <1>3, EmptySeq
<1> HIDE DEF n
<1>5. n \in {0, 1}
  <2>1. SUFFICES ASSUME n >= 2 PROVE FALSE
    BY <1>3
  <2>2. 1 \in 1..n /\ 2 \in 1..n /\ 2 \in (1 + 1)..n
    BY <1>3, <2>1
  <2>3. d[1].flag = f /\ d[2].flag = f
    BY <1>3, <2>2
  <2> QED BY <1>3, <2>2, <2>3
<1>6. <<l>> \in Seq(Steps) /\ Len(<<l>>) = 1 /\ <<l>>[1] = l
  BY <1>2
<1>7. /\ q \in Seq(Steps) /\ Len(q) = n + 1
      /\ \A i \in 1..(n + 1) : q[i] = IF i <= n THEN d[i] ELSE <<l>>[i - n]
  <2> DEFINE r == <<l>>
  <2>2. d \in Seq(Steps) /\ Len(d) = n /\ r \in Seq(Steps) /\ Len(r) = 1
    BY <1>3, <1>6 DEF n
  <2> HIDE DEF r
  <2>3. /\ d \o r \in Seq(Steps) /\ Len(d \o r) = n + 1
        /\ \A i \in 1..(n + 1) : (d \o r)[i] = IF i <= n THEN d[i] ELSE r[i - n]
    BY <2>2, Concat
  <2> QED BY <1>12, <2>3 DEF r
<1>8. Len(q) \in {1, 2} /\ q[Len(q)] = l
  BY <1>5, <1>6, <1>7
<1>9. q # <<>>
  BY <1>7, <1>8, EmptySeq
<1>10. Len(q) = 2 => q[1].op = "set" /\ q[1].b = b /\ q[1].flag = f
  <2>1. SUFFICES ASSUME Len(q) = 2 PROVE q[1].op = "set" /\ q[1].b = b /\ q[1].flag = f
    OBVIOUS
  <2>2. n = 1
    <3>1. n + 1 = 2
      BY <1>7, <2>1
    <3> QED BY <1>5, <3>1
  <2>3. q[1] = d[1] /\ 1 \in 1..n
    BY <1>7, <2>2
  <2> QED BY <1>3, <2>3
<1>11. PullOf(q, b, f, S)
  BY <1>4, <1>5, <1>7, <1>8, <1>9, <1>10 DEF l, PullOf
<1> QED BY <1>11 DEF q

LEMMA PullStruct ==
    ASSUME Struct, NEW t \in Thread, NEW h \in Handle, NEW flag \in Flags, Pull(t, h, flag)
    PROVE  Struct'
<1> DEFINE objs == <<h>>
           b == Chunk(h)
           L == loaded[h] \cup {flag}
           S == {flag} \ loaded[h]
           steps == SetUses(b, S) \o <<Step("loc", b)>>
<1>1. /\ data[h] # None /\ b \notin Empty /\ Begin(t, objs, steps)
      /\ \A u \in Thread \ {t} : h \in Range(on[u]) => Pulls(u, h)
      /\ loaded' = [loaded EXCEPT ![h] = L]
      /\ UNCHANGED <<tracker, status, useCnt, ptr, data, given, failed, mutex, ended>>
  BY DEF Pull, manager
<1>2. objs \in Seq(Ptr \cup Handle) /\ Len(objs) = 1 /\ objs[1] = h
  BY Objects
<1>3. /\ data[h] \in Ptr /\ b = ptr[data[h]] /\ b # None /\ b \in Block
      /\ loaded[h] \in SUBSET Flags /\ L \in SUBSET Flags
      /\ S \in SUBSET Flags /\ S \subseteq {flag}
  BY <1>1 DEF Struct, Anchored, Basic, Chunk
<1>4. loaded'[h] = L /\ data'[h] = data[h]
  BY <1>1 DEF Struct, Basic
<1>5. Basic' /\ Anchored' /\ Referred' /\ Spares(t) /\ KeepsBut(h)
  <2> DEFINE d == data[h]
  <2>1. d \in Ptr \cup {None} /\ d # None /\ ptr[d] # None /\ ptr[d] \notin Empty
    BY <1>1, <1>3
  <2>2. data' = [data EXCEPT ![h] = d]
    BY <1>1 DEF Struct, Basic
  <2> HIDE DEF d, L
  <2> QED BY <1>1, <1>3, <2>1, <2>2, HandleMoves
<1>6. /\ steps \in Seq(Steps) /\ steps # <<>> /\ Len(steps) \in {1, 2}
      /\ steps[Len(steps)] = Step("loc", b)
      /\ Len(steps) = 1 <=> S = {}
      /\ Len(steps) = 2 => steps[1].op = "set" /\ steps[1].b = b /\ steps[1].flag = flag
  <2>1. PullOf(steps, b, flag, S)
    BY <1>3, PullSteps
  <2> HIDE DEF steps, S
  <2> QED BY <2>1 DEF PullOf
<1> HIDE DEF steps, objs, S
<1>7. Typed' /\ Others(t) /\ todo'[t] = steps /\ on'[t] = objs
  BY <1>1, <1>2, <1>6, BeginIs DEF Struct
<1>8. /\ Len(todo'[t]) \in {1, 2} /\ todo'[t][Len(todo'[t])].op = "loc"
      /\ todo'[t][Len(todo'[t])].b = b
      /\ Len(todo'[t]) = 2 => /\ todo'[t][1].op = "set" /\ todo'[t][1].b = b
                              /\ todo'[t][1].flag = flag /\ flag \notin loaded[h]
      /\ on'[t][1] = h /\ Len(on'[t]) = 1
  <2>1. Step("loc", b).op = "loc" /\ Step("loc", b).b = b
    BY <1>3, StepsAre
  <2>2. Len(steps) = 2 => flag \notin loaded[h]
    BY <1>6 DEF S
  <2> QED BY <1>2, <1>6, <1>7, <2>1, <2>2
<1>9. Own(t)'
  <2>1. PICK c \in Block : c = b
    BY <1>3
  <2>2. ForHandle(t, c)'
    BY <1>1, <1>3, <1>8, <2>1 DEF ForHandle, Chunk
  <2>3. SUFFICES ASSUME NEW i \in 1..Len(todo'[t]) PROVE StepOK(t, i)'
    BY DEF Own
  <2>4. CASE i = Len(todo'[t])
    <3>1. LocOK(t, i)'
      BY <1>4, <1>8, <2>1, <2>2, <2>4 DEF LocOK
    <3> QED BY <1>1, <1>8, <2>4, <3>1 DEF StepOK
  <2>5. CASE i # Len(todo'[t])
    <3>1. i = 1 /\ Len(todo'[t]) = i + 1
      BY <1>8, <2>3, <2>5
    <3>2. SetOK(t, i)'
      BY <1>4, <1>8, <2>1, <2>2, <3>1 DEF SetOK
    <3> QED BY <1>1, <1>8, <3>1, <3>2 DEF StepOK
  <2> QED BY <2>4, <2>5
<1>10. Planned'
  <2>1. Shared(t, h)
    BY <1>1, <1>4 DEF Shared
  <2>2. Harmless(t, h)
    BY <1>5, <1>7, <2>1 DEF Harmless
  <2> QED BY <1>9, <2>2, PlannedNext DEF Struct
<1>11. Pulls(t, h)'
  BY <1>7, <1>8 DEF Pulls, Last, objs
<1>12. ASSUME NEW u \in Thread \ {t} PROVE todo'[u] = todo[u] /\ on'[u] = on[u]
  BY <1>7 DEF Others
<1>13. h \notin Ptr
  BY HandleAssumption
<1>14. Apart'
  <2>1. SUFFICES ASSUME NEW v \in Thread, todo'[v] # <<>>
                 PROVE  /\ on'[v][1] \in Ptr => ~ Handled(on[v][1])'
                        /\ \A u \in Thread \ {v} :
                              \/ on'[v][1] \notin Range(on'[u])
                              \/ on'[v][1] \in Handle /\ Pulls(v, on[v][1])' /\ Pulls(u, on[v][1])'
    BY DEF Apart
  <2>2. CASE v = t
    <3>1. ASSUME NEW u \in Thread \ {t}, h \in Range(on'[u]) PROVE Pulls(u, h)'
      BY <1>1, <1>12, <3>1 DEF Pulls
    <3>2. \A u \in Thread \ {t} : h \in Range(on'[u]) => Pulls(u, h)'
      BY <3>1
    <3>3. on'[t][1] = h
      BY <1>8
    <3> QED BY <1>11, <1>13, <2>2, <3>2, <3>3 DEF Pulls
  <2>3. CASE v # t
    <3>1. todo'[v] = todo[v] /\ on'[v] = on[v] /\ todo[v] # <<>>
      BY <1>12, <2>1, <2>3
    <3>2. on[v][1] \in Ptr => ~ Handled(on[v][1])'
      BY <1>1, <3>1 DEF Struct, Apart, Handled
    <3>3. ASSUME NEW u \in Thread \ {v}, on[v][1] \in Range(on'[u])
          PROVE  on[v][1] \in Handle /\ Pulls(v, on[v][1])' /\ Pulls(u, on[v][1])'
      <4>1. CASE u = t
        <5>1. on[v][1] = h
          <6>1. Range(objs) = {h}
            BY TupleRange DEF objs
          <6> QED BY <1>7, <3>3, <4>1, <6>1
        <5>2. h \in Range(on[v])
          BY <3>1, <5>1, Working DEF Struct
        <5>3. Pulls(v, h)
          BY <1>1, <2>3, <5>2
        <5>4. Pulls(v, h)'
          BY <3>1, <5>3 DEF Pulls
        <5>5. on'[v][1] = h
          BY <3>1, <5>1
        <5> QED BY <1>11, <4>1, <5>1, <5>4, <5>5 DEF Pulls
      <4>2. CASE u # t
        <5>1. todo'[u] = todo[u] /\ on'[u] = on[u]
          BY <1>12, <4>2
        <5>2. on[v][1] \in Handle /\ Pulls(v, on[v][1]) /\ Pulls(u, on[v][1])
          BY <3>1, <3>3, <5>1 DEF Struct, Apart
        <5> QED BY <3>1, <5>1, <5>2 DEF Pulls
      <4> QED BY <4>1, <4>2
    <3> QED BY <3>1, <3>2, <3>3 DEF Handled
  <2> QED BY <2>2, <2>3
<1>15. DeletedOnce' /\ SetOnce'
  <2>1. ASSUME NEW u \in Thread \ {t}, NEW j \in 1..Len(todo[u]),
               todo[u][j].op \in {"set", "await"}, on[u][1] = h
        PROVE  todo[u][j].flag \in loaded[h]
    <3>1. SetOK(u, j)
      BY <2>1 DEF Struct, Planned, StepOK
    <3> QED BY <1>13, <2>1, <3>1 DEF SetOK, ForPtr, Deletes
  <2>2. ASSUME NEW i \in 1..Len(todo'[t])
        PROVE  /\ todo'[t][i].op \notin {"mfree", "pffree"}
               /\ todo'[t][i].op \in {"set", "await"} => todo'[t][i].flag \notin loaded[h]
    <3>1. i = Len(todo'[t]) \/ (i = 1 /\ Len(todo'[t]) = 2)
      BY <1>8, <2>2
    <3> QED BY <1>8, <3>1
  <2> QED BY <1>7, <1>8, <2>1, <2>2, BeginOnce DEF Struct
<1> QED BY <1>5, <1>7, <1>10, <1>14, <1>15 DEF Struct
-----------------------------------------------------------------------------
(* The structure holds always.                                             *)

LEMMA InitStruct == Init => Struct
<1> SUFFICES ASSUME Init PROVE Struct
  OBVIOUS
<1>1. /\ tracker = [b \in Block |-> 0] /\ status = [b \in Block |-> "ABSENT"]
      /\ useCnt = [b \in Block |-> 0] /\ ptr = [p \in Ptr |-> None]
      /\ data = [h \in Handle |-> None] /\ loaded = [h \in Handle |-> {}]
      /\ given = {} /\ failed = {} /\ mutex = NoThread /\ ended = FALSE
  BY DEF Init
<1>2. \A t \in Thread : todo[t] = <<>> /\ on[t] = <<>>
  BY DEF Init
<1>3. Basic
  <2>1. /\ tracker \in [Block -> Nat] /\ useCnt \in [Block -> Int]
        /\ status \in [Block -> Present \cup Outside \cup {"ABSENT", "SWAPIN"}]
    BY <1>1
  <2>2. /\ ptr \in [Ptr -> Block \cup {None}] /\ data \in [Handle -> Ptr \cup {None}]
        /\ loaded \in [Handle -> SUBSET Flags]
    BY <1>1
  <2> QED BY <1>1, <2>1, <2>2 DEF Basic
<1>4. Typed
  <2>1. todo \in [Thread -> Seq(Steps)] /\ on \in [Thread -> Seq(Ptr \cup Handle)]
    BY EmptySeq DEF Init
  <2> QED BY <1>2, <2>1 DEF Typed
<1>5. \A t \in Thread : \A i \in 1..Len(todo[t]) : FALSE
  BY <1>2, EmptySeq
<1>6. Apart /\ Planned /\ DeletedOnce /\ SetOnce
  BY <1>2, <1>5 DEF Apart, Planned, DeletedOnce, SetOnce
<1>7. Anchored
  BY <1>1 DEF Anchored
<1>8. \A b \in Block : References(b) = {}
  BY <1>1, HandleAssumption DEF References
<1>9. \A b \in Block : tracker[b] = 0 /\ Cardinality(References(b)) = 0 /\ status[b] = "ABSENT"
  BY <1>1, <1>8, FS_EmptySet
<1>10. Referred
  BY <1>9, HandleAssumption DEF Referred
<1> QED BY <1>3, <1>4, <1>6, <1>7, <1>10 DEF Struct

LEMMA StayStruct ==
    ASSUME Struct, UNCHANGED vars
    PROVE  Struct'
<1>1. ObjectsStay /\ UNCHANGED <<todo, on, status, useCnt, mutex, ended>>
  BY DEF vars, ObjectsStay
<1>2. Basic'
  BY <1>1 DEF Struct, Basic, ObjectsStay
<1> QED BY <1>1, <1>2, IdleStruct

LEMMA StructNext ==
    ASSUME Struct, [Next]_vars
    PROVE  Struct'
<1>1. CASE UNCHANGED vars
  BY <1>1, StayStruct
<1>2. ASSUME NEW b \in Block, Evict(b) \/ Fetch(b) \/ Arrive(b) PROVE Struct'
  BY <1>2, ManagerStruct
<1>3. ASSUME NEW t \in Thread, Calls(t) PROVE Struct'
  BY <1>3, SetUseStruct, GrantStruct, SetUseThrowsStruct, PrepareUseStruct,
     PrepareUseThrowsStruct, UnsetUseStruct, MfreeStruct, TakeStruct, AdoptStruct,
     GivePointerStruct, SpinStruct DEF Calls
<1>4. ASSUME NEW t \in Thread, Operations(t) PROVE Struct'
  <2>1. ASSUME NEW p \in Ptr, NEW b \in Block, Construct(t, p, b) PROVE Struct'
    BY <2>1, ConstructStruct
  <2>2. ASSUME NEW p \in Ptr, NEW q \in Ptr, Copy(t, p, q) PROVE Struct'
    BY <2>2, CopyStruct
  <2>3. ASSUME NEW p \in Ptr, NEW q \in Ptr, Assign(t, p, q) PROVE Struct'
    BY <2>3, AssignStruct
  <2>4. ASSUME NEW p \in Ptr, Destroy(t, p) PROVE Struct'
    BY <2>4, DestroyStruct
  <2>5. ASSUME NEW h \in Handle, NEW p \in Ptr, Adhere(t, h, p) PROVE Struct'
    BY <2>5, AdhereStruct
  <2>6. ASSUME NEW h \in Handle, NEW flag \in Flags, Pull(t, h, flag) PROVE Struct'
    BY <2>6, PullStruct
  <2>7. ASSUME NEW g \in Handle, NEW h \in Handle, CopyHandle(t, g, h) PROVE Struct'
    BY <2>7, CopyHandleStruct
  <2>8. ASSUME NEW g \in Handle, NEW h \in Handle, AssignHandle(t, g, h) PROVE Struct'
    BY <2>8, AssignHandleStruct
  <2>9. ASSUME NEW h \in Handle, DestroyHandle(t, h) PROVE Struct'
    BY <2>9, DestroyHandleStruct
  <2> QED BY <1>4, <2>1, <2>2, <2>3, <2>4, <2>5, <2>6, <2>7, <2>8, <2>9 DEF Operations
<1> QED BY <1>1, <1>2, <1>3, <1>4 DEF Next
=============================================================================
