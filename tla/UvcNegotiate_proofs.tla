------------------------ MODULE UvcNegotiate_proofs ------------------------
(***************************************************************************)
(* Proofs about UvcNegotiate, for every camera whose descriptors are       *)
(* WellFormed, with any number of interfaces, formats, frames and          *)
(* intervals, however it answers.                                          *)
(*                                                                         *)
(* The argument follows the data.  What the parser makes of the blocks of  *)
(* an interface mirrors the frames that the camera lists; the tables that  *)
(* the loops of the code read are these frames, each once; so the entry    *)
(* that a search returns, by its indices, is the frame the camera means by *)
(* them; and the control block that TryFormat leaves is about the frame    *)
(* that the script chose.  NegotiateInv keeps that until the stream stops. *)
(* The other way round, nothing that could stop "uvc start" happens for an *)
(* entry that the loop of StartCapture gets to: StartsInv.                 *)
(***************************************************************************)
EXTENDS UvcNegotiate, FiniteSetTheorems, TLAPS

-----------------------------------------------------------------------------
(***************************************************************************)
(* Numbers and sequences.                                                  *)
(***************************************************************************)

\* A set of numbers has a least one.
LEMMA LeastExists ==
  ASSUME NEW T \in SUBSET Nat, T # {}
  PROVE  \E x \in T : \A y \in T : x <= y
<1> DEFINE Up == {0..n : n \in T}
<1>1. IsWellFoundedOn(StrictSubsetOrdering(Nat), FiniteSubsetsOf(Nat))
  BY FS_StrictSubsetOrderingWellFounded
<1>2. Up \subseteq FiniteSubsetsOf(Nat) /\ Up # {}
  <2>1. \A n \in T : IsFiniteSet(0..n) /\ 0..n \subseteq Nat
    BY FS_Interval
  <2>2. QED
    BY <2>1 DEF FiniteSubsetsOf
<1>3. \E x \in Up : \A y \in Up : <<y, x>> \notin StrictSubsetOrdering(Nat)
  <2> HIDE DEF Up
  <2>1. QED
    BY <1>1, <1>2, WFMin
<1>4. PICK x \in T :
        \A y \in T : <<0..y, 0..x>> \notin StrictSubsetOrdering(Nat)
  BY <1>3
<1>5. ASSUME NEW y \in T, y < x
      PROVE  FALSE
  <2>1. 0..y \subseteq 0..x /\ 0..x \subseteq Nat /\ 0..y # 0..x
    <3>1. x \in 0..x /\ x \notin 0..y
      BY <1>5
    <3>2. QED
      BY <1>5, <3>1
  <2>2. <<0..y, 0..x>> \in StrictSubsetOrdering(Nat)
    BY <2>1 DEF StrictSubsetOrdering
  <2>3. QED
    BY <1>4, <2>2
<1>6. QED
  BY <1>5

\* Induction over the numbers, for a set.
LEMMA Induct ==
  ASSUME NEW S, 0 \in S, \A n \in Nat : n \in S => n + 1 \in S
  PROVE  Nat \subseteq S
<1> SUFFICES ASSUME Nat \ S # {} PROVE FALSE
  OBVIOUS
<1>1. PICK x \in Nat \ S : \A y \in Nat \ S : x <= y
  BY LeastExists
<1>2. x # 0 /\ x - 1 \in Nat
  BY <1>1
<1>3. QED
  BY <1>1, <1>2

\* What Least returns.
LEMMA LeastIs ==
  ASSUME NEW T \in SUBSET Nat, T # {}
  PROVE  Least(T) \in T /\ \A k \in T : Least(T) <= k
  BY LeastExists DEF Least

\* A function that is given step by step exists.
Steps(f, a, N, step) ==
  \A n \in 0..N : f[n] = IF n = 0 THEN a ELSE step[n][f[n - 1]]

\* Such a function is there for every list of steps.
LEMMA Table ==
  ASSUME NEW A, NEW a \in A, NEW N \in Nat, NEW step \in [1..N -> [A -> A]]
  PROVE  \E f \in [0..N -> A] : Steps(f, a, N, step)
<1> DEFINE Good(f, n) == \A i \in 0..n :
                           f[i] = IF i = 0 THEN a ELSE step[i][f[i - 1]]
           Has(n) == \E f \in [0..n -> A] : Good(f, n)
           S == {n \in Nat : n <= N => Has(n)}
<1>1. Has(0)
  <2>1. [i \in 0..0 |-> a] \in [0..0 -> A]
    OBVIOUS
  <2>2. Good([i \in 0..0 |-> a], 0)
    OBVIOUS
  <2>3. QED
    BY <2>1, <2>2
<1>2. ASSUME NEW n \in Nat, n + 1 <= N, Has(n)
      PROVE  Has(n + 1)
  <2>1. PICK f \in [0..n -> A] : Good(f, n)
    BY <1>2
  <2> DEFINE g == [i \in 0..(n + 1) |-> IF i = n + 1 THEN step[n + 1][f[n]]
                                                     ELSE f[i]]
  <2>2. step[n + 1][f[n]] \in A
    <3>1. n + 1 \in 1..N /\ n \in 0..n
      BY <1>2
    <3>2. f[n] \in A /\ step[n + 1] \in [A -> A]
      BY <2>1, <3>1
    <3>3. QED
      BY <3>2
  <2>3. g \in [0..(n + 1) -> A]
    BY <2>1, <2>2
  <2>4. ASSUME NEW i \in 0..(n + 1)
        PROVE  g[i] = IF i = 0 THEN a ELSE step[i][g[i - 1]]
    <3>1. CASE i = n + 1
      <4>1. i # 0 /\ i - 1 \in 0..(n + 1) /\ i - 1 = n /\ n # n + 1
        BY <3>1
      <4>2. QED
        BY <3>1, <4>1
    <3>2. CASE i # n + 1
      <4>1. i \in 0..n /\ (i # 0 => i - 1 \in 0..(n + 1) /\ i - 1 # n + 1)
        BY <3>2
      <4>2. g[i] = f[i] /\ (i # 0 => g[i - 1] = f[i - 1])
        BY <3>2, <4>1
      <4>3. f[i] = IF i = 0 THEN a ELSE step[i][f[i - 1]]
        BY <2>1, <4>1
      <4>4. QED
        BY <4>2, <4>3
    <3>3. QED
      BY <3>1, <3>2
  <2>5. QED
    BY <2>3, <2>4
<1> HIDE DEF Has
<1>3. Has(N)
  <2>1. 0 \in S
    BY <1>1
  <2>2. \A n \in Nat : n \in S => n + 1 \in S
    <3> SUFFICES ASSUME NEW n \in Nat, n \in S, n + 1 <= N
                 PROVE  Has(n + 1)
      OBVIOUS
    <3>1. n <= N
      OBVIOUS
    <3>2. QED
      BY <1>2, <3>1
  <2>3. Nat \subseteq S
    <3> HIDE DEF S
    <3>1. QED
      BY <2>1, <2>2, Induct
  <2>4. QED
    BY <2>3
<1>4. QED
  BY <1>3 DEF Has, Steps

\* FlattenSeq puts one sequence behind the other.
LEMMA FlattenTable ==
  ASSUME NEW X, NEW seqs \in Seq(Seq(X)), seqs # <<>>
  PROVE  \E f \in [1..Len(seqs) -> Seq(X)] :
           /\ f[1] = seqs[1]
           /\ \A i \in 2..Len(seqs) : f[i] = f[i - 1] \o seqs[i]
           /\ FlattenSeq(seqs) = f[Len(seqs)]
<1> DEFINE L == Len(seqs)
           Flat(f) == f = [i \in 1..L |-> IF i = 1 THEN seqs[i]
                                                 ELSE f[i - 1] \o seqs[i]]
<1>1. L \in Nat /\ L # 0
  OBVIOUS
<1>2. \A i \in 1..L : seqs[i] \in Seq(X)
  OBVIOUS
<1>3. \E f : Flat(f)
  <2> DEFINE step == [i \in 1..L |-> [x \in Seq(X) |->
                       IF i = 1 THEN seqs[i] ELSE x \o seqs[i]]]
  <2>1. step \in [1..L -> [Seq(X) -> Seq(X)]]
    <3>1. \A i \in 1..L : \A x \in Seq(X) :
            (IF i = 1 THEN seqs[i] ELSE x \o seqs[i]) \in Seq(X)
      BY <1>2
    <3>2. QED
      BY <3>1
  <2>2. <<>> \in Seq(X)
    OBVIOUS
  <2> HIDE DEF step, L
  <2>3. PICK f \in [0..L -> Seq(X)] : Steps(f, <<>>, L, step)
    BY <1>1, <2>1, <2>2, Table
  <2> DEFINE g == [i \in 1..L |-> f[i]]
  <2>4. ASSUME NEW i \in 1..L
        PROVE  g[i] = IF i = 1 THEN seqs[i] ELSE g[i - 1] \o seqs[i]
    <3>1. i \in 0..L /\ i - 1 \in 0..L /\ i # 0 /\ (i # 1 => i - 1 \in 1..L)
      BY <1>1
    <3>2. f[i] = step[i][f[i - 1]] /\ f[i - 1] \in Seq(X)
      BY <2>3, <3>1 DEF Steps
    <3>3. f[i] = IF i = 1 THEN seqs[i] ELSE f[i - 1] \o seqs[i]
      BY <3>2 DEF step
    <3>4. QED
      BY <3>1, <3>3
  <2>5. Flat(g)
    BY <2>4, Zenon
  <2>6. QED
    BY <2>5
<1> DEFINE f == CHOOSE f : Flat(f)
<1>4. FlattenSeq(seqs) = f[L]
  BY <1>1 DEF FlattenSeq
<1>5. Flat(f)
  BY <1>3, Zenon
<1> HIDE DEF f
<1>6. f[1] = seqs[1] /\ \A i \in 2..L : f[i] = f[i - 1] \o seqs[i]
  <2>1. \A i \in 1..L : f[i] = IF i = 1 THEN seqs[i] ELSE f[i - 1] \o seqs[i]
    <3>1. f = [i \in 1..L |-> IF i = 1 THEN seqs[i] ELSE f[i - 1] \o seqs[i]]
      BY <1>5
    <3>2. QED
      BY <3>1
  <2>2. 1 \in 1..L /\ \A i \in 2..L : i \in 1..L /\ i # 1
    BY <1>1
  <2>3. QED
    BY <2>1, <2>2
<1>7. f \in [1..L -> Seq(X)]
  <2> DEFINE T == {n \in Nat : n + 1 <= L => f[n + 1] \in Seq(X)}
  <2>1. 0 \in T
    BY <1>1, <1>6
  <2>2. ASSUME NEW n \in Nat, n \in T
        PROVE  n + 1 \in T
    <3> SUFFICES ASSUME n + 2 <= L PROVE f[n + 2] \in Seq(X)
      OBVIOUS
    <3>1. f[n + 1] \in Seq(X) /\ seqs[n + 2] \in Seq(X)
      BY <1>1, <2>2
    <3>2. n + 2 \in 2..L /\ (n + 2) - 1 = n + 1
      BY <1>1
    <3>3. f[n + 2] = f[n + 1] \o seqs[n + 2]
      BY <1>6, <3>2
    <3>4. QED
      BY <3>1, <3>3
  <2>3. Nat \subseteq T
    <3> HIDE DEF T
    <3>1. QED
      BY <2>1, <2>2, Induct
  <2>4. ASSUME NEW i \in 1..L
        PROVE  f[i] \in Seq(X)
    <3>1. i - 1 \in Nat /\ (i - 1) + 1 = i /\ i <= L
      BY <1>1
    <3>2. i - 1 \in T
      BY <2>3, <3>1
    <3>3. QED
      BY <3>1, <3>2
  <2>5. QED
    BY <1>5, <2>4
<1>8. QED
  BY <1>1, <1>4, <1>5, <1>6, <1>7, Zenon

\* Concatenation and FlattenSeq, by their elements.
LEMMA Concat ==
  ASSUME NEW X, NEW a \in Seq(X), NEW b \in Seq(X)
  PROVE  /\ a \o b \in Seq(X) /\ ToSet(a \o b) = ToSet(a) \cup ToSet(b)
         /\ IsInjective(a) /\ IsInjective(b) /\ ToSet(a) \cap ToSet(b) = {}
              => IsInjective(a \o b)
<1> DEFINE c == a \o b
           m == Len(a)
           n == Len(b)
<1>1. /\ m \in Nat /\ n \in Nat /\ DOMAIN a = 1..m /\ DOMAIN b = 1..n
      /\ c \in Seq(X) /\ DOMAIN c = 1..(m + n)
      /\ \A i \in 1..m : c[i] = a[i]
      /\ \A i \in (m + 1)..(m + n) : c[i] = b[i - m]
  OBVIOUS
<1> HIDE DEF c, m, n
<1>2. \A i \in 1..(m + n) : \/ i \in 1..m
                            \/ i \in (m + 1)..(m + n) /\ i - m \in 1..n
  BY <1>1
<1>3. \A i \in 1..m : i \in 1..(m + n)
  BY <1>1
<1>4. \A i \in 1..n : /\ i + m \in (m + 1)..(m + n) /\ i + m \in 1..(m + n)
                      /\ (i + m) - m = i
  BY <1>1
<1>5. ToSet(c) = ToSet(a) \cup ToSet(b)
  <2>1. ASSUME NEW i \in 1..(m + n)
        PROVE  c[i] \in ToSet(a) \cup ToSet(b)
    BY <1>1, <1>2 DEF ToSet
  <2>2. \A i \in 1..m : a[i] \in ToSet(c)
    BY <1>1, <1>3 DEF ToSet
  <2>3. \A i \in 1..n : b[i] \in ToSet(c)
    <3> SUFFICES ASSUME NEW i \in 1..n PROVE b[i] \in ToSet(c)
      OBVIOUS
    <3>1. c[i + m] = b[i] /\ i + m \in DOMAIN c
      BY <1>1, <1>4
    <3>2. QED
      BY <3>1 DEF ToSet
  <2>4. ToSet(c) \subseteq ToSet(a) \cup ToSet(b)
    BY <1>1, <2>1, ZenonT(60) DEF ToSet
  <2>5. ToSet(a) \subseteq ToSet(c)
    BY <1>1, <2>2 DEF ToSet
  <2>6. ToSet(b) \subseteq ToSet(c)
    BY <1>1, <2>3 DEF ToSet
  <2>7. QED
    BY <2>4, <2>5, <2>6
<1>6. ASSUME IsInjective(a), IsInjective(b), ToSet(a) \cap ToSet(b) = {},
             NEW i \in 1..(m + n), NEW j \in 1..(m + n), c[i] = c[j]
      PROVE  i = j
  <2>1. \A k \in 1..m, l \in (m + 1)..(m + n) : c[k] # c[l]
    <3> SUFFICES ASSUME NEW k \in 1..m, NEW l \in (m + 1)..(m + n)
                 PROVE  c[k] # c[l]
      OBVIOUS
    <3>1. c[k] \in ToSet(a)
      BY <1>1 DEF ToSet
    <3>2. l - m \in 1..n
      BY <1>1
    <3>3. c[l] \in ToSet(b)
      BY <1>1, <3>2 DEF ToSet
    <3>4. QED
      BY <1>6, <3>1, <3>3
  <2>2. CASE i \in 1..m /\ j \in 1..m
    BY <1>1, <1>6, <2>2 DEF IsInjective
  <2>3. CASE i \in (m + 1)..(m + n) /\ j \in (m + 1)..(m + n)
    <3>1. i - m \in 1..n /\ j - m \in 1..n /\ b[i - m] = b[j - m]
      BY <1>1, <1>6, <2>3
    <3>2. i - m = j - m
      BY <1>1, <1>6, <3>1 DEF IsInjective
    <3>3. QED
      BY <1>1, <3>2
  <2>4. QED
    BY <1>2, <1>6, <2>1, <2>2, <2>3
<1>7. QED
  BY <1>1, <1>5, <1>6 DEF c, IsInjective

\* The same for FlattenSeq, which the loops of the code are in the model.
LEMMA Flatten ==
  ASSUME NEW X, NEW seqs \in Seq(Seq(X))
  PROVE  /\ FlattenSeq(seqs) \in Seq(X)
         /\ ToSet(FlattenSeq(seqs))
              = UNION {ToSet(seqs[k]) : k \in DOMAIN seqs}
         /\ /\ \A k \in DOMAIN seqs : IsInjective(seqs[k])
            /\ \A k, l \in DOMAIN seqs :
                 k # l => ToSet(seqs[k]) \cap ToSet(seqs[l]) = {}
            => IsInjective(FlattenSeq(seqs))
<1>1. CASE seqs = <<>>
  <2>1. FlattenSeq(seqs) = <<>> /\ DOMAIN <<>> = {} /\ <<>> \in Seq(X)
    BY <1>1 DEF FlattenSeq
  <2>2. QED
    BY <1>1, <2>1 DEF ToSet, IsInjective
<1>2. CASE seqs # <<>>
  <2> DEFINE L == Len(seqs)
  <2>1. PICK f \in [1..L -> Seq(X)] :
          /\ f[1] = seqs[1]
          /\ \A i \in 2..L : f[i] = f[i - 1] \o seqs[i]
          /\ FlattenSeq(seqs) = f[L]
    BY <1>2, FlattenTable
  <2>2. /\ L \in Nat /\ L # 0 /\ DOMAIN seqs = 1..L
        /\ \A k \in 1..L : seqs[k] \in Seq(X)
    BY <1>2
  <2> DEFINE Apart == /\ \A k \in 1..L : IsInjective(seqs[k])
                      /\ \A k, l \in 1..L :
                           k # l => ToSet(seqs[k]) \cap ToSet(seqs[l]) = {}
             Elements(n) == UNION {ToSet(seqs[k]) : k \in 1..n}
             P(n) == /\ ToSet(f[n]) = Elements(n)
                     /\ Apart => IsInjective(f[n])
             S == {n \in Nat : n + 1 <= L => P(n + 1)}
  <2>3. P(1)
    <3>1. 1..1 = {1} /\ 1 \in 1..L
      BY <2>2
    <3>2. Elements(1) = ToSet(seqs[1])
      BY <3>1
    <3>3. QED
      BY <2>1, <3>1, <3>2
  <2>4. ASSUME NEW n \in Nat, n + 2 <= L, P(n + 1)
        PROVE  P(n + 2)
    <3>1. /\ n + 2 \in 2..L /\ (n + 2) - 1 = n + 1 /\ n + 2 \in 1..L
          /\ n + 1 \in 1..L
      <4>1. L \in Nat /\ n + 2 <= L
        BY <2>2, <2>4
      <4>2. QED
        BY <4>1
    <3>2. f[n + 2] = f[n + 1] \o seqs[n + 2]
      <4>1. \A i \in 2..L : f[i] = f[i - 1] \o seqs[i]
        BY <2>1
      <4>2. f[n + 2] = f[(n + 2) - 1] \o seqs[n + 2]
        BY <3>1, <4>1
      <4>3. QED
        BY <3>1, <4>2
    <3>3. f[n + 1] \in Seq(X) /\ seqs[n + 2] \in Seq(X)
      <4>1. f[n + 1] \in Seq(X)
        BY <3>1
      <4>2. QED
        BY <2>2, <3>1, <4>1
    <3>4. 1..(n + 2) = 1..(n + 1) \cup {n + 2} /\ n + 2 \notin 1..(n + 1)
          /\ 1..(n + 1) \subseteq 1..L
      BY <2>2, <3>1
    <3>5. Elements(n + 2) = Elements(n + 1) \cup ToSet(seqs[n + 2])
      BY <3>4
    <3>6. ToSet(f[n + 2]) = ToSet(f[n + 1]) \cup ToSet(seqs[n + 2])
      BY <3>2, <3>3, Concat
    <3>7. ASSUME Apart
          PROVE  IsInjective(f[n + 2])
      <4>1. \A k \in 1..(n + 1) : ToSet(seqs[k]) \cap ToSet(seqs[n + 2]) = {}
        BY <3>1, <3>4, <3>7
      <4>2. Elements(n + 1) \cap ToSet(seqs[n + 2]) = {}
        BY <4>1
      <4>3. IsInjective(seqs[n + 2])
        BY <3>1, <3>7
      <4> HIDE DEF Elements, Apart
      <4>4. IsInjective(f[n + 1]) /\ ToSet(f[n + 1]) = Elements(n + 1)
        BY <2>4, <3>7
      <4>5. QED
        BY <3>2, <3>3, <4>2, <4>3, <4>4, Concat
    <3> HIDE DEF Elements, Apart
    <3>8. QED
      BY <2>4, <3>5, <3>6, <3>7
  <2> HIDE DEF P
  <2>5. P(L)
    <3>1. 0 \in S
      BY <2>3
    <3>2. ASSUME NEW n \in Nat, n \in S
          PROVE  n + 1 \in S
      <4> SUFFICES ASSUME (n + 1) + 1 <= L PROVE P((n + 1) + 1)
        OBVIOUS
      <4>1. n + 1 <= L /\ (n + 1) + 1 = n + 2
        BY <2>2
      <4>2. QED
        BY <2>4, <3>2, <4>1
    <3>3. Nat \subseteq S
      <4> HIDE DEF S
      <4>1. QED
        BY <3>1, <3>2, Induct
    <3>4. L - 1 \in Nat /\ (L - 1) + 1 = L
      BY <2>2
    <3>5. L - 1 \in S
      BY <3>3, <3>4
    <3>6. QED
      BY <2>2, <3>4, <3>5
  <2>6. FlattenSeq(seqs) \in Seq(X)
    <3>1. L \in 1..L
      BY <2>2
    <3>2. f[L] \in Seq(X)
      BY <3>1
    <3>3. QED
      BY <2>1, <3>2
  <2>7. Elements(L) = UNION {ToSet(seqs[k]) : k \in DOMAIN seqs}
    BY <2>2
  <2>8. Apart <=> /\ \A k \in DOMAIN seqs : IsInjective(seqs[k])
                  /\ \A k, l \in DOMAIN seqs :
                       k # l => ToSet(seqs[k]) \cap ToSet(seqs[l]) = {}
    BY <2>2
  <2> HIDE DEF Elements, Apart
  <2>9. QED
    BY <2>1, <2>5, <2>6, <2>7, <2>8 DEF P
<1>3. QED
  BY <1>1, <1>2

-----------------------------------------------------------------------------
(***************************************************************************)
(* The parser.  Parsed(formats, blocks, n) says what it holds after the first*)
(* n blocks: a place for every frame among them, each with the descriptors of*)
(* its own blocks.                                                         *)
(***************************************************************************)

\* What the parser makes of the blocks: uvc_frame_desc and uvc_format_desc.
FrameDescs ==
  [index : Nat, width : Nat, height : Nat, size : Nat,
   default : Ticks, intervals : Seq(Ticks),
   step : [min : Nat, max : Nat, by : Nat \ {0}]]

\* The same for formats.
Formats ==
  [subtype : FormatKinds, index : Nat, guid : STRING, frames : Seq(FrameDescs)]

\* Where the frames are in what was parsed: format x[1], and in it frame x[2].
Places(formats) ==
  {x \in (DOMAIN formats) \X Nat : x[2] \in DOMAIN formats[x[1]].frames}

\* A format descriptor is the one of a block.
FromBlock(format, block) ==
  /\ format.subtype = block.subtype /\ format.index = block.index
  /\ format.guid = block.guid

\* The frames among the first n blocks.
Until(blocks, n) == {x \in Listed(blocks) : x[2] <= n}

\* What is in a place comes from the blocks that at gives for it.
Places_At(formats, blocks, at) ==
  \A x \in Places(formats) :
    /\ FromBlock(formats[x[1]], blocks[at[x][1]])
    /\ formats[x[1]].frames[x[2]] = FrameDesc(blocks[at[x][2]])

\* The places and the frames that are listed are the same, one to one.
Mirrors(formats, blocks, n) ==
  \E at \in [Places(formats) -> Until(blocks, n)] :
    /\ IsInjective(at)
    /\ \A y \in Until(blocks, n) : \E x \in Places(formats) : at[x] = y
    /\ Places_At(formats, blocks, at)

\* The format that frames are added to is the one that the next frame belongs
\* to.
Current(formats, blocks, n) ==
  \A q \in 1..n : Owns(blocks, q, n) =>
    formats # <<>> /\ FromBlock(formats[Len(formats)], blocks[q])

\* What holds after the first n blocks.
Parsed(formats, blocks, n) ==
  /\ formats \in Seq(Formats)
  /\ Mirrors(formats, blocks, n)
  /\ Current(formats, blocks, n)

\* Every frame belongs to a format.
Framed(blocks) ==
  \A p \in DOMAIN blocks :
    IsFrame(blocks[p]) => \E q \in 1..p : Owns(blocks, q, p)

\* A block is of one kind only.
LEMMA BlockKinds ==
  ASSUME NEW b \in Blocks
  PROVE  /\ IsFormat(b) => b \in FormatBlocks /\ ~IsFrame(b)
         /\ IsFrame(b) => b \in FrameBlocks /\ ~IsFormat(b)
<1>1. b \in FormatBlocks => IsFormat(b) /\ ~IsFrame(b)
  BY DEF FormatBlocks, IsFormat, IsFrame, FormatKinds, FrameKinds
<1>2. b \in FrameBlocks => IsFrame(b) /\ ~IsFormat(b)
  BY DEF FrameBlocks, IsFormat, IsFrame, FormatKinds, FrameKinds
<1>3. b \in OtherBlocks => ~IsFrame(b) /\ ~IsFormat(b)
  BY DEF OtherBlocks
<1>4. QED
  BY <1>1, <1>2, <1>3 DEF Blocks

\* Who owns the next block.
LEMMA OwnsNext ==
  ASSUME NEW blocks, NEW n \in Nat, NEW q \in 1..(n + 1)
  PROVE  /\ ~IsFormat(blocks[n + 1]) =>
              (Owns(blocks, q, n + 1) <=> q <= n /\ Owns(blocks, q, n))
         /\ IsFormat(blocks[n + 1]) => (Owns(blocks, q, n + 1) <=> q = n + 1)
<1>1. CASE q = n + 1
  <2>1. (q + 1)..(n + 1) = {}
    BY <1>1
  <2>2. ~(q <= n)
    BY <1>1
  <2>3. QED
    BY <1>1, <2>1, <2>2 DEF Owns
<1>2. CASE q # n + 1
  <2>1. q <= n /\ (q + 1)..(n + 1) = (q + 1)..n \cup {n + 1}
    BY <1>2
  <2>2. QED
    BY <1>2, <2>1 DEF Owns
<1>3. QED
  BY <1>1, <1>2

\* A block belongs to one format.
LEMMA OwnerIs ==
  ASSUME NEW blocks, NEW p \in Nat, NEW q \in Nat, NEW r \in Nat,
         Owns(blocks, q, p), Owns(blocks, r, p)
  PROVE  q = r
<1>1. q < r => r \in (q + 1)..p
  BY DEF Owns
<1>2. r < q => q \in (r + 1)..p
  BY DEF Owns
<1>3. QED
  BY <1>1, <1>2 DEF Owns

\* The next block lists one frame more if it is a frame, else none.
LEMMA UntilNext ==
  ASSUME NEW blocks \in Seq(Blocks), NEW n \in Nat, n + 1 <= Len(blocks)
  PROVE  /\ ~IsFrame(blocks[n + 1]) => Until(blocks, n + 1) = Until(blocks, n)
         /\ \A q \in 1..n :
              IsFrame(blocks[n + 1]) /\ Owns(blocks, q, n) =>
                /\ Until(blocks, n + 1) = Until(blocks, n) \cup {<<q, n + 1>>}
                /\ <<q, n + 1>> \notin Until(blocks, n)
<1> DEFINE N == Len(blocks)
<1>1. /\ N \in Nat /\ DOMAIN blocks = 1..N /\ n + 1 \in 1..N
      /\ \A p \in 1..N : blocks[p] \in Blocks
  OBVIOUS
<1> HIDE DEF N
<1>2. \A x \in Listed(blocks) :
        /\ x = <<x[1], x[2]>> /\ x[1] \in 1..N /\ x[2] \in 1..N
        /\ IsFrame(blocks[x[2]]) /\ Owns(blocks, x[1], x[2])
  BY <1>1 DEF Listed
<1>3. ASSUME ~IsFrame(blocks[n + 1])
      PROVE  Until(blocks, n + 1) = Until(blocks, n)
  <2>1. \A x \in Listed(blocks) : x[2] # n + 1
    BY <1>2, <1>3
  <2>2. \A x \in Listed(blocks) : x[2] <= n + 1 <=> x[2] <= n
    BY <1>1, <1>2, <2>1
  <2>3. QED
    BY <2>2 DEF Until
<1>4. ASSUME NEW q \in 1..n, IsFrame(blocks[n + 1]), Owns(blocks, q, n)
      PROVE  /\ Until(blocks, n + 1) = Until(blocks, n) \cup {<<q, n + 1>>}
             /\ <<q, n + 1>> \notin Until(blocks, n)
  <2>1. ~IsFormat(blocks[n + 1])
    BY <1>1, <1>4, BlockKinds
  <2>2. q \in 1..N /\ q \in 1..(n + 1) /\ q <= n
    BY <1>1
  <2>3. Owns(blocks, q, n + 1)
    BY <1>4, <2>1, <2>2, OwnsNext
  <2>4. <<q, n + 1>> \in Listed(blocks)
    BY <1>1, <1>4, <2>2, <2>3 DEF Listed
  <2>5. ASSUME NEW x \in Listed(blocks), x[2] = n + 1
        PROVE  x = <<q, n + 1>>
    <3>1. x[1] = q
      BY <1>2, <2>3, <2>5, OwnerIs, SMTT(60)
    <3>2. QED
      BY <1>2, <2>5, <3>1
  <2>6. \A x \in Listed(blocks) : x[2] <= n + 1 <=> x[2] <= n \/ x[2] = n + 1
    BY <1>1, <1>2
  <2>7. <<q, n + 1>>[2] = n + 1 /\ n + 1 <= n + 1 /\ ~(n + 1 <= n)
    OBVIOUS
  <2>8. QED
    BY <2>4, <2>5, <2>6, <2>7 DEF Until
<1>5. QED
  BY <1>3, <1>4

\* The type of a frame descriptor.
LEMMA FrameDescIs ==
  ASSUME NEW b \in FrameBlocks
  PROVE  FrameDesc(b) \in FrameDescs
BY DEF FrameBlocks, FrameDesc, FrameDescs

\* uvc_parse_vs with a format block: a format more, without frames.
LEMMA ParseFormat ==
  ASSUME NEW blocks \in Seq(Blocks), NEW n \in Nat, n + 1 <= Len(blocks),
         NEW formats, Parsed(formats, blocks, n), IsFormat(blocks[n + 1])
  PROVE  Parsed(uvc_parse_vs(formats, blocks[n + 1]), blocks, n + 1)
<1> DEFINE b == blocks[n + 1]
           format == [subtype |-> b.subtype, index |-> b.index,
                      guid |-> b.guid, frames |-> <<>>]
           M == Len(formats)
           new == Append(formats, format)
<1>1. b \in FormatBlocks /\ ~IsFrame(b)
  BY BlockKinds
<1>2. formats \in Seq(Formats)
  BY DEF Parsed
<1>3. uvc_parse_vs(formats, b) = new
  <2>1. b.subtype \in FormatKinds /\ b.subtype \notin FrameKinds
    BY <1>1 DEF IsFormat, IsFrame
  <2> HIDE DEF b
  <2>2. QED
    BY <2>1 DEF uvc_parse_vs
<1>4. format \in Formats /\ DOMAIN format.frames = {}
  BY <1>1 DEF FormatBlocks, Formats
<1>5. FromBlock(format, b)
  BY DEF FromBlock
<1> HIDE DEF format
<1>6. /\ M \in Nat /\ DOMAIN formats = 1..M
      /\ new \in Seq(Formats) /\ Len(new) = M + 1 /\ new # <<>>
      /\ DOMAIN new = 1..(M + 1) /\ new[M + 1] = format
      /\ \A m \in 1..M : new[m] = formats[m]
  BY <1>2, <1>4
<1>7. Places(new) = Places(formats) /\ \A x \in Places(new) : x[1] \in 1..M
  <2>1. \A m \in 1..(M + 1) : m \in 1..M \/ m = M + 1
    BY <1>6
  <2>2. \A m \in 1..M : m \in 1..(M + 1)
    BY <1>6
  <2> HIDE DEF new, M
  <2>3. \A x \in Places(new) : x[1] \in 1..M
    BY <1>4, <1>6, <2>1 DEF Places
  <2>4. \A x \in Places(new) : x \in Places(formats)
    BY <1>6, <2>3 DEF Places
  <2>5. \A x \in Places(formats) : x \in Places(new)
    BY <1>6, <2>2 DEF Places
  <2>6. QED
    BY <2>3, <2>4, <2>5
<1>8. Until(blocks, n + 1) = Until(blocks, n)
  BY <1>1, UntilNext
<1> HIDE DEF new, M, b
<1>9. Mirrors(new, blocks, n + 1)
  <2>1. \A at : Places_At(formats, blocks, at) => Places_At(new, blocks, at)
    BY <1>6, <1>7 DEF Places_At
  <2>2. Mirrors(formats, blocks, n)
    BY DEF Parsed
  <2>3. QED
    BY <1>7, <1>8, <2>1, <2>2 DEF Mirrors
<1>10. Current(new, blocks, n + 1)
  <2>1. \A q \in 1..(n + 1) : Owns(blocks, q, n + 1) => q = n + 1
    BY OwnsNext
  <2>2. QED
    BY <1>5, <1>6, <2>1 DEF Current, b
<1>11. QED
  BY <1>3, <1>6, <1>9, <1>10 DEF Parsed, b

\* uvc_parse_vs with a block that is skipped.
LEMMA ParseOther ==
  ASSUME NEW blocks \in Seq(Blocks), NEW n \in Nat, n + 1 <= Len(blocks),
         NEW formats, Parsed(formats, blocks, n),
         ~IsFormat(blocks[n + 1]), ~IsFrame(blocks[n + 1])
  PROVE  Parsed(uvc_parse_vs(formats, blocks[n + 1]), blocks, n + 1)
<1>1. uvc_parse_vs(formats, blocks[n + 1]) = formats
  BY DEF uvc_parse_vs, IsFormat, IsFrame
<1>2. Until(blocks, n + 1) = Until(blocks, n)
  BY UntilNext
<1>3. Mirrors(formats, blocks, n + 1)
  BY <1>2 DEF Parsed, Mirrors
<1>4. Current(formats, blocks, n + 1)
  <2> SUFFICES ASSUME NEW q \in 1..(n + 1), Owns(blocks, q, n + 1)
               PROVE  /\ formats # <<>>
                      /\ FromBlock(formats[Len(formats)], blocks[q])
    BY DEF Current
  <2>1. q <= n /\ Owns(blocks, q, n)
    BY OwnsNext
  <2>2. QED
    BY <2>1 DEF Parsed, Current
<1>5. QED
  BY <1>1, <1>3, <1>4 DEF Parsed

\* uvc_parse_vs with a frame block, which adds a frame to the last format.
LEMMA ParseFrame ==
  ASSUME NEW blocks \in Seq(Blocks), NEW n \in Nat, n + 1 <= Len(blocks),
         Framed(blocks), NEW formats, Parsed(formats, blocks, n),
         IsFrame(blocks[n + 1])
  PROVE  Parsed(uvc_parse_vs(formats, blocks[n + 1]), blocks, n + 1)
<1> DEFINE b == blocks[n + 1]
           M == Len(formats)
           frames == formats[M].frames
           J == Len(frames) + 1
           new == [formats EXCEPT ![M].frames = Append(@, FrameDesc(b))]
<1>1. b \in FrameBlocks /\ ~IsFormat(b)
  BY BlockKinds
<1>2. formats \in Seq(Formats)
  BY DEF Parsed
<1>3. uvc_parse_vs(formats, b) = new
  BY <1>1 DEF uvc_parse_vs, IsFormat, IsFrame
<1>4. PICK q \in 1..n : Owns(blocks, q, n)
  <2>1. n + 1 \in DOMAIN blocks
    OBVIOUS
  <2>2. PICK q \in 1..(n + 1) : Owns(blocks, q, n + 1)
    BY <2>1 DEF Framed
  <2>3. q <= n /\ Owns(blocks, q, n)
    BY <1>1, <2>2, OwnsNext
  <2>4. QED
    BY <2>3
<1>5. formats # <<>> /\ FromBlock(formats[M], blocks[q])
  BY <1>4 DEF Parsed, Current
<1>6. /\ M \in Nat /\ M \in 1..M /\ DOMAIN formats = 1..M
      /\ \A m \in 1..M : formats[m] \in Formats
  BY <1>2, <1>5
<1>7. frames \in Seq(FrameDescs) /\ FrameDesc(b) \in FrameDescs
  BY <1>1, <1>6, FrameDescIs DEF Formats
<1> DEFINE longer == Append(frames, FrameDesc(b))
<1>8. /\ longer \in Seq(FrameDescs) /\ J \in Nat
      /\ DOMAIN longer = 1..J /\ DOMAIN frames = 1..(J - 1)
      /\ longer[J] = FrameDesc(b)
      /\ \A j \in 1..(J - 1) : longer[j] = frames[j]
  BY <1>7, SMTT(60)
<1>9. /\ DOMAIN new = 1..M
      /\ \A m \in 1..M : new[m] = IF m = M
                                  THEN [formats[m] EXCEPT !.frames = longer]
                                  ELSE formats[m]
  BY <1>6
<1> HIDE DEF longer, b
<1>10. /\ new[M].frames = longer /\ new[M] \in Formats
       /\ new[M].subtype = formats[M].subtype
       /\ new[M].index = formats[M].index /\ new[M].guid = formats[M].guid
  <2>1. formats[M] \in Formats
    BY <1>6
  <2> HIDE DEF new, M, J, frames
  <2>2. QED
    BY <1>6, <1>8, <1>9, <2>1 DEF Formats
<1>11. new \in Seq(Formats) /\ Len(new) = M /\ new # <<>>
  BY <1>2, <1>6, <1>9, <1>10
<1> HIDE DEF new, M, J, frames
<1>12. /\ Places(new) = Places(formats) \cup {<<M, J>>}
       /\ <<M, J>> \notin Places(formats)
       /\ \A x \in Places(formats) : x[1] = M => x[2] \in 1..(J - 1)
  <2>1. \A x \in Places(formats) :
          /\ x = <<x[1], x[2]>> /\ x[1] \in 1..M /\ x[2] \in Nat
          /\ x[2] \in DOMAIN formats[x[1]].frames
    BY <1>6 DEF Places
  <2>2. \A x \in Places(new) :
          /\ x = <<x[1], x[2]>> /\ x[1] \in 1..M /\ x[2] \in Nat
          /\ x[2] \in DOMAIN new[x[1]].frames
    BY <1>9 DEF Places
  <2>3. \A m \in 1..M : m # M => new[m] = formats[m]
    BY <1>9
  <2>4. ASSUME NEW x \in Places(new), x \notin Places(formats)
        PROVE  x = <<M, J>>
    <3>1. x[1] = M
      BY <1>6, <2>2, <2>3, <2>4 DEF Places
    <3>2. x[2] \in 1..J /\ x[2] \notin 1..(J - 1)
      BY <1>6, <1>8, <1>10, <2>2, <2>4, <3>1 DEF Places, frames
    <3>3. x[2] = J
      BY <1>8, <3>2
    <3>4. QED
      BY <2>2, <3>1, <3>3
  <2>5. ASSUME NEW x \in Places(formats)
        PROVE  x \in Places(new) /\ (x[1] = M => x[2] \in 1..(J - 1))
    <3>1. CASE x[1] = M
      <4>1. x[2] \in 1..(J - 1)
        BY <1>8, <2>1, <3>1 DEF frames
      <4>2. x[2] \in 1..J
        BY <1>8, <4>1
      <4>3. QED
        BY <1>8, <1>9, <1>10, <2>1, <3>1, <4>1, <4>2 DEF Places
    <3>2. CASE x[1] # M
      BY <1>9, <2>1, <2>3, <3>2 DEF Places
    <3>3. QED
      BY <3>1, <3>2
  <2>6. <<M, J>> \in Places(new)
    <3>1. J \in 1..J
      BY <1>7 DEF J, frames
    <3>2. QED
      BY <1>6, <1>8, <1>9, <1>10, <3>1 DEF Places
  <2>7. <<M, J>> \notin Places(formats)
    <3>1. J \notin 1..(J - 1)
      BY <1>8
    <3>2. QED
      BY <2>5, <3>1
  <2>8. QED
    BY <2>4, <2>5, <2>6, <2>7
<1>13. /\ Until(blocks, n + 1) = Until(blocks, n) \cup {<<q, n + 1>>}
       /\ <<q, n + 1>> \notin Until(blocks, n)
  BY <1>4, UntilNext
<1>14. Mirrors(new, blocks, n + 1)
  <2>1. PICK at \in [Places(formats) -> Until(blocks, n)] :
          /\ IsInjective(at)
          /\ \A y \in Until(blocks, n) : \E x \in Places(formats) : at[x] = y
          /\ Places_At(formats, blocks, at)
    BY DEF Parsed, Mirrors
  <2> DEFINE at2 == [x \in Places(new) |->
                       IF x = <<M, J>> THEN <<q, n + 1>> ELSE at[x]]
  <2>2. \A x \in Places(formats) :
          at2[x] = at[x] /\ at2[x] \in Until(blocks, n)
    BY <1>12, <2>1
  <2>3. at2[<<M, J>>] = <<q, n + 1>>
    BY <1>12
  <2>4. at2 \in [Places(new) -> Until(blocks, n + 1)]
    BY <1>12, <1>13, <2>1
  <2>5. DOMAIN at2 = Places(new) /\ DOMAIN at = Places(formats)
    BY <2>1
  <2> HIDE DEF at2
  <2>6. IsInjective(at2)
    <3>1. \A x, y \in Places(formats) : at2[x] = at2[y] => x = y
      BY <2>1, <2>2, <2>5 DEF IsInjective
    <3>2. \A x \in Places(formats) : at2[x] # <<q, n + 1>>
      BY <1>13, <2>2
    <3>3. \A x \in Places(new) : x \in Places(formats) \/ x = <<M, J>>
      BY <1>12
    <3>4. QED
      BY <2>3, <2>5, <3>1, <3>2, <3>3 DEF IsInjective
  <2>7. ASSUME NEW y \in Until(blocks, n + 1)
        PROVE  \E x \in Places(new) : at2[x] = y
    <3>1. CASE y \in Until(blocks, n)
      BY <1>12, <2>1, <2>2, <3>1
    <3>2. CASE y = <<q, n + 1>>
      BY <1>12, <2>3, <3>2
    <3>3. QED
      BY <1>13, <3>1, <3>2
  <2>8. Places_At(new, blocks, at2)
    <3> SUFFICES ASSUME NEW x \in Places(new)
                 PROVE  /\ FromBlock(new[x[1]], blocks[at2[x][1]])
                        /\ new[x[1]].frames[x[2]]
                             = FrameDesc(blocks[at2[x][2]])
      BY DEF Places_At
    <3>1. CASE x = <<M, J>>
      <4>1. x[1] = M /\ x[2] = J /\ at2[x][1] = q /\ at2[x][2] = n + 1
        BY <2>3, <3>1, SMTT(60)
      <4>2. FromBlock(new[M], blocks[q])
        BY <1>5, <1>10 DEF FromBlock
      <4>3. new[M].frames[J] = FrameDesc(blocks[n + 1])
        BY <1>8, <1>10 DEF b
      <4>4. QED
        BY <4>1, <4>2, <4>3
    <3>2. CASE x # <<M, J>>
      <4>1. x \in Places(formats) /\ at2[x] = at[x]
        BY <1>12, <2>2, <3>2
      <4>2. /\ FromBlock(formats[x[1]], blocks[at2[x][1]])
            /\ formats[x[1]].frames[x[2]] = FrameDesc(blocks[at2[x][2]])
        BY <2>1, <4>1 DEF Places_At
      <4>3. CASE x[1] = M
        BY <1>8, <1>10, <1>12, <4>1, <4>2, <4>3 DEF FromBlock, frames
      <4>4. CASE x[1] # M
        <5>1. x[1] \in 1..M
          BY <1>6, <4>1 DEF Places
        <5>2. QED
          BY <1>9, <4>2, <4>4, <5>1
      <4>5. QED
        BY <4>3, <4>4
    <3>3. QED
      BY <3>1, <3>2
  <2>9. QED
    BY <2>4, <2>6, <2>7, <2>8 DEF Mirrors
<1>15. Current(new, blocks, n + 1)
  <2> SUFFICES ASSUME NEW r \in 1..(n + 1), Owns(blocks, r, n + 1)
               PROVE  new # <<>> /\ FromBlock(new[M], blocks[r])
    BY <1>11 DEF Current
  <2>1. r <= n /\ Owns(blocks, r, n)
    BY <1>1, OwnsNext DEF b
  <2>2. r = q
    BY <1>4, <2>1, OwnerIs
  <2>3. QED
    BY <1>5, <1>10, <1>11, <2>2 DEF FromBlock
<1>16. QED
  BY <1>3, <1>11, <1>14, <1>15 DEF Parsed, b

\* uvc_parse_vs keeps the type of the descriptors.
LEMMA ParseTyped ==
  ASSUME NEW formats \in Seq(Formats), NEW b \in Blocks
  PROVE  uvc_parse_vs(formats, b) \in Seq(Formats)
<1>1. CASE IsFormat(b)
  <2> DEFINE format == [subtype |-> b.subtype, index |-> b.index,
                        guid |-> b.guid, frames |-> <<>>]
  <2>1. b \in FormatBlocks /\ b.subtype \in FormatKinds
    BY <1>1, BlockKinds DEF IsFormat
  <2>2. format \in Formats
    BY <2>1 DEF FormatBlocks, Formats
  <2>3. uvc_parse_vs(formats, b) = Append(formats, format)
    <3>1. b.subtype \notin FrameKinds
      BY <1>1, BlockKinds DEF IsFrame
    <3>2. QED
      BY <2>1, <3>1 DEF uvc_parse_vs
  <2> HIDE DEF format
  <2>4. QED
    BY <2>2, <2>3
<1>2. CASE IsFrame(b)
  <2> DEFINE M == Len(formats)
             new == [formats EXCEPT ![M].frames = Append(@, FrameDesc(b))]
  <2>1. /\ b \in FrameBlocks /\ b.subtype \in FrameKinds
        /\ b.subtype \notin FormatKinds
    BY <1>2, BlockKinds DEF IsFrame, IsFormat
  <2>2. uvc_parse_vs(formats, b) = new
    BY <2>1 DEF uvc_parse_vs
  <2>3. /\ M \in Nat /\ DOMAIN formats = 1..M /\ DOMAIN new = 1..M
        /\ \A m \in 1..M : formats[m] \in Formats
    OBVIOUS
  <2>4. ASSUME NEW m \in 1..M
        PROVE  new[m] \in Formats
    <3>1. FrameDesc(b) \in FrameDescs
      BY <2>1, FrameDescIs
    <3>2. Append(formats[m].frames, FrameDesc(b)) \in Seq(FrameDescs)
      <4>1. formats[m].frames \in Seq(FrameDescs)
        BY <2>3 DEF Formats
      <4>2. QED
        BY <3>1, <4>1
    <3>3. new[m] = formats[m] \/
          new[m] = [formats[m] EXCEPT !.frames =
                      Append(formats[m].frames, FrameDesc(b))]
      BY SMTT(60)
    <3> HIDE DEF new
    <3>4. QED
      BY <2>3, <3>2, <3>3 DEF Formats
  <2> HIDE DEF new, M
  <2>5. new \in Seq(Formats)
    <3>1. new \in [1..M -> Formats]
      BY <2>3, <2>4 DEF new
    <3>2. QED
      BY <2>3, <3>1
  <2>6. QED
    BY <2>2, <2>5
<1>3. CASE ~IsFormat(b) /\ ~IsFrame(b)
  BY <1>3 DEF uvc_parse_vs, IsFormat, IsFrame
<1>4. QED
  BY <1>1, <1>2, <1>3

\* The interfaces of a camera.
Interfaces == [number : Nat, alts : Seq(Nat), blocks : Seq(Blocks)]

\* uvc_scan_streaming parses every block of an interface.
LEMMA ScanStreaming ==
  ASSUME NEW interface \in Interfaces, Framed(interface.blocks)
  PROVE  /\ uvc_scan_streaming(interface).number = interface.number
         /\ uvc_scan_streaming(interface).alts = interface.alts
         /\ Parsed(uvc_scan_streaming(interface).formats,
                   interface.blocks, Len(interface.blocks))
<1> DEFINE blocks == interface.blocks
           N == Len(blocks)
           Recursive(f) ==
             f = [n \in 0..N |-> IF n = 0 THEN <<>>
                                 ELSE uvc_parse_vs(f[n - 1], blocks[n])]
<1>1. /\ blocks \in Seq(Blocks) /\ N \in Nat
      /\ \A n \in 1..N : blocks[n] \in Blocks
  BY DEF Interfaces
<1>2. \E f : Recursive(f)
  <2> DEFINE A == Seq(Formats)
             step == [n \in 1..N |-> [x \in A |-> uvc_parse_vs(x, blocks[n])]]
  <2>1. step \in [1..N -> [A -> A]]
    BY <1>1, ParseTyped
  <2>2. <<>> \in A
    OBVIOUS
  <2> HIDE DEF step, N, A
  <2>3. PICK f \in [0..N -> A] : Steps(f, <<>>, N, step)
    BY <1>1, <2>1, <2>2, Table
  <2>4. \A n \in 0..N : f[n] = IF n = 0 THEN <<>>
                               ELSE uvc_parse_vs(f[n - 1], blocks[n])
    <3> SUFFICES ASSUME NEW n \in 0..N, n # 0
                 PROVE  f[n] = uvc_parse_vs(f[n - 1], blocks[n])
      BY <2>3 DEF Steps
    <3>1. f[n] = step[n][f[n - 1]]
      BY <2>3 DEF Steps
    <3>2. n \in 1..N /\ n - 1 \in 0..N
      BY <1>1
    <3>3. QED
      BY <2>3, <3>1, <3>2 DEF step
  <2>5. f = [n \in 0..N |-> IF n = 0 THEN <<>>
                            ELSE uvc_parse_vs(f[n - 1], blocks[n])]
    BY <2>4
  <2>6. QED
    BY <2>5 DEF N
<1> DEFINE parsed == CHOOSE f : Recursive(f)
<1>3. Recursive(parsed)
  BY <1>2
<1>4. uvc_scan_streaming(interface)
        = [number |-> interface.number, alts |-> interface.alts,
           formats |-> parsed[N]]
  BY DEF uvc_scan_streaming
<1>5. /\ parsed[0] = <<>>
      /\ \A n \in 0..N : n + 1 <= N =>
           parsed[n + 1] = uvc_parse_vs(parsed[n], blocks[n + 1])
  <2> HIDE DEF parsed, N
  <2>1. parsed = [n \in 0..N |-> IF n = 0 THEN <<>>
                                 ELSE uvc_parse_vs(parsed[n - 1], blocks[n])]
    BY <1>3
  <2>2. \A n \in 0..N : parsed[n] = IF n = 0 THEN <<>>
                                    ELSE uvc_parse_vs(parsed[n - 1], blocks[n])
    BY <2>1
  <2>3. 0 \in 0..N /\ \A n \in 0..N : n + 1 <= N =>
          n + 1 \in 0..N /\ n + 1 # 0 /\ (n + 1) - 1 = n
    BY <1>1
  <2>4. QED
    BY <2>2, <2>3
<1> HIDE DEF parsed
<1> DEFINE S == {n \in Nat : n <= N => Parsed(parsed[n], blocks, n)}
<1>6. 0 \in S
  <2>1. <<>> \in Seq(Formats) /\ Places(<<>>) = {}
    BY DEF Places
  <2>2. Until(blocks, 0) = {}
    <3>1. \A x \in Listed(blocks) : x[2] \in Nat /\ x[2] # 0
      BY <1>1 DEF Listed
    <3>2. QED
      BY <3>1 DEF Until
  <2>3. Mirrors(<<>>, blocks, 0)
    <3> DEFINE at == [x \in Places(<<>>) |-> x]
    <3>1. at \in [Places(<<>>) -> Until(blocks, 0)] /\ IsInjective(at)
      BY <2>1 DEF IsInjective
    <3>2. Places_At(<<>>, blocks, at)
      BY <2>1 DEF Places_At
    <3> HIDE DEF at
    <3>3. QED
      BY <2>2, <3>1, <3>2 DEF Mirrors
  <2>4. Current(<<>>, blocks, 0)
    BY DEF Current
  <2>5. QED
    BY <1>5, <2>1, <2>3, <2>4 DEF Parsed
<1>7. ASSUME NEW n \in Nat, n \in S
      PROVE  n + 1 \in S
  <2> SUFFICES ASSUME n + 1 <= N PROVE Parsed(parsed[n + 1], blocks, n + 1)
    OBVIOUS
  <2>1. Parsed(parsed[n], blocks, n)
    BY <1>1, <1>7
  <2>2. parsed[n + 1] = uvc_parse_vs(parsed[n], blocks[n + 1])
    BY <1>1, <1>5
  <2>3. Parsed(uvc_parse_vs(parsed[n], blocks[n + 1]), blocks, n + 1)
    BY <1>1, <2>1, ParseFormat, ParseFrame, ParseOther
  <2>4. QED
    BY <2>2, <2>3
<1>8. N \in S
  <2>1. Nat \subseteq S
    <3> HIDE DEF S
    <3>1. QED
      BY <1>6, <1>7, Induct
  <2>2. QED
    BY <1>1, <2>1
<1>9. Parsed(parsed[N], blocks, N)
  BY <1>1, <1>8, SMTT(30)
<1>10. QED
  BY <1>4, <1>9

-----------------------------------------------------------------------------
(***************************************************************************)
(* The tables.                                                             *)
(***************************************************************************)

\* The entries of the tables.
Entries == [interface : Nat, format : Formats, frame : FrameDescs]

\* What uvc_open leaves in info.
Scanned(interfaces) ==
  [k \in DOMAIN interfaces |-> uvc_scan_streaming(interfaces[k])]

\* An entry stands for the frame x of interface k.
Stands(interfaces, e, k, x) ==
  LET blocks == interfaces[k].blocks IN
  /\ k \in DOMAIN interfaces /\ x \in Listed(blocks)
  /\ e.interface = interfaces[k].number
  /\ FromBlock(e.format, blocks[x[1]])
  /\ e.frame = FrameDesc(blocks[x[2]])

\* Two places with the same indices.
SameIndices(formats, x, y) ==
  /\ formats[x[1]].index = formats[y[1]].index
  /\ formats[x[1]].frames[x[2]].index = formats[y[1]].frames[y[2]].index

\* What was parsed of interface k.
ScannedAs(interfaces, k) ==
  LET formats == Scanned(interfaces)[k].formats
      blocks == interfaces[k].blocks
  IN  /\ Scanned(interfaces)[k].number = interfaces[k].number
      /\ Scanned(interfaces)[k].alts = interfaces[k].alts
      /\ formats \in Seq(Formats)
      /\ \A x \in Places(formats) :
           \E y \in Listed(blocks) :
             /\ FromBlock(formats[x[1]], blocks[y[1]])
             /\ formats[x[1]].frames[x[2]] = FrameDesc(blocks[y[2]])
      /\ \A y \in Listed(blocks) :
           \E x \in Places(formats) :
             /\ FromBlock(formats[x[1]], blocks[y[1]])
             /\ formats[x[1]].frames[x[2]] = FrameDesc(blocks[y[2]])
      /\ \A x, y \in Places(formats) : SameIndices(formats, x, y) => x = y

\* An interface is parsed as the camera means it.
LEMMA ScannedIs ==
  ASSUME NEW interfaces, WellFormed(interfaces), NEW k \in DOMAIN interfaces
  PROVE  ScannedAs(interfaces, k)
<1> DEFINE formats == Scanned(interfaces)[k].formats
           blocks == interfaces[k].blocks
           N == Len(blocks)
<1>1. interfaces[k] \in Interfaces /\ blocks \in Seq(Blocks)
  <2>1. interfaces \in Seq(Interfaces)
    BY DEF WellFormed, Interfaces
  <2>2. interfaces[k] \in Interfaces
    BY <2>1
  <2>3. QED
    BY <2>2 DEF Interfaces
<1>2. Framed(blocks)
  BY DEF WellFormed, Framed
<1>3. Scanned(interfaces)[k] = uvc_scan_streaming(interfaces[k])
  BY DEF Scanned
<1>4. /\ Scanned(interfaces)[k].number = interfaces[k].number
      /\ Scanned(interfaces)[k].alts = interfaces[k].alts
      /\ Parsed(formats, blocks, N)
  BY <1>1, <1>2, <1>3, ScanStreaming
<1>5. Until(blocks, N) = Listed(blocks)
  <2>1. \A x \in Listed(blocks) : x[2] <= N
    BY <1>1 DEF Listed
  <2>2. QED
    BY <2>1 DEF Until
<1> HIDE DEF formats, N
<1>6. PICK at \in [Places(formats) -> Listed(blocks)] :
        /\ IsInjective(at)
        /\ \A y \in Listed(blocks) : \E x \in Places(formats) : at[x] = y
        /\ Places_At(formats, blocks, at)
  BY <1>4, <1>5 DEF Parsed, Mirrors
<1>7. ASSUME NEW x \in Places(formats), NEW y \in Places(formats),
             SameIndices(formats, x, y)
      PROVE  x = y
  <2>1. /\ formats[x[1]].index = blocks[at[x][1]].index
        /\ formats[y[1]].index = blocks[at[y][1]].index
        /\ formats[x[1]].frames[x[2]] = FrameDesc(blocks[at[x][2]])
        /\ formats[y[1]].frames[y[2]] = FrameDesc(blocks[at[y][2]])
    BY <1>6 DEF Places_At, FromBlock
  <2>2. /\ formats[x[1]].frames[x[2]].index = blocks[at[x][2]].index
        /\ formats[y[1]].frames[y[2]].index = blocks[at[y][2]].index
    BY <2>1 DEF FrameDesc
  <2>3. /\ blocks[at[x][1]].index = blocks[at[y][1]].index
        /\ blocks[at[x][2]].index = blocks[at[y][2]].index
    BY <1>7, <2>1, <2>2 DEF SameIndices
  <2>4. at[x] = at[y]
    <3>1. at[x] \in Listed(blocks) /\ at[y] \in Listed(blocks)
      BY <1>6
    <3>2. \A u, v \in Listed(blocks) :
            /\ blocks[u[1]].index = blocks[v[1]].index
            /\ blocks[u[2]].index = blocks[v[2]].index
            => u = v
      BY DEF WellFormed
    <3>3. QED
      BY <2>3, <3>1, <3>2
  <2>5. QED
    BY <1>6, <2>4 DEF IsInjective
<1>8. \A x \in Places(formats) :
        /\ at[x] \in Listed(blocks)
        /\ FromBlock(formats[x[1]], blocks[at[x][1]])
        /\ formats[x[1]].frames[x[2]] = FrameDesc(blocks[at[x][2]])
  BY <1>6 DEF Places_At
<1>9. formats \in Seq(Formats)
  BY <1>4 DEF Parsed
<1>10. QED
  BY <1>4, <1>6, <1>7, <1>8, <1>9, ZenonT(120) DEF ScannedAs, formats

\* The entry of a table for a place of a scanned interface.
Entry(s, x) ==
  [interface |-> s.number, format |-> s.formats[x[1]],
   frame |-> s.formats[x[1]].frames[x[2]]]

\* The places of the formats of some kinds.
PlacesOf(s, kinds) ==
  {x \in Places(s.formats) : s.formats[x[1]].subtype \in kinds}

\* The loop over the frames of a format.
FormatFrames(s, m, kinds) ==
  LET format == s.formats[m] IN
  IF format.subtype \in kinds
  THEN [n \in DOMAIN format.frames |->
          [interface |-> s.number, format |-> format,
           frame |-> format.frames[n]]]
  ELSE <<>>

\* The loop over the formats of an interface.
InterfaceFrames(s, kinds) ==
  FlattenSeq([m \in DOMAIN s.formats |-> FormatFrames(s, m, kinds)])

\* The loops over one interface meet every place once.
LEMMA InterfaceFramesAre ==
  ASSUME NEW s, NEW kinds, s.number \in Nat, s.formats \in Seq(Formats),
         \A x, y \in Places(s.formats) : SameIndices(s.formats, x, y) => x = y
  PROVE  /\ InterfaceFrames(s, kinds) \in Seq(Entries)
         /\ ToSet(InterfaceFrames(s, kinds))
              = {Entry(s, x) : x \in PlacesOf(s, kinds)}
         /\ IsInjective(InterfaceFrames(s, kinds))
<1> DEFINE formats == s.formats
           M == Len(formats)
           part == [m \in DOMAIN formats |-> FormatFrames(s, m, kinds)]
<1>1. /\ M \in Nat /\ DOMAIN formats = 1..M
      /\ \A m \in 1..M : formats[m] \in Formats
  OBVIOUS
<1>2. ASSUME NEW m \in 1..M
      PROVE  /\ FormatFrames(s, m, kinds) \in Seq(Entries)
             /\ ToSet(FormatFrames(s, m, kinds)) =
                  {Entry(s, x) : x \in {z \in PlacesOf(s, kinds) : z[1] = m}}
  <2>1. formats[m] \in Formats
    BY <1>1
  <2> DEFINE frames == formats[m].frames
             J == Len(frames)
  <2>2. /\ J \in Nat /\ DOMAIN frames = 1..J
        /\ \A n \in 1..J : frames[n] \in FrameDescs
    <3>1. frames \in Seq(FrameDescs)
      BY <2>1 DEF Formats
    <3> HIDE DEF frames
    <3>2. QED
      BY <3>1
  <2>3. \A x \in Places(formats) :
          x[1] = m => x = <<m, x[2]>> /\ x[2] \in 1..J
    BY <2>2 DEF Places
  <2>4. \A n \in 1..J : <<m, n>> \in Places(formats)
    BY <1>1, <2>2 DEF Places
  <2> HIDE DEF J
  <2>5. CASE formats[m].subtype \in kinds
    <3> DEFINE seq == [n \in 1..J |-> Entry(s, <<m, n>>)]
    <3>1. FormatFrames(s, m, kinds) = seq
      BY <2>2, <2>5 DEF FormatFrames, Entry
    <3>2. \A n \in 1..J : Entry(s, <<m, n>>) \in Entries
      BY <2>1, <2>2 DEF Entry, Entries
    <3>3. seq \in Seq(Entries)
      BY <2>2, <3>2
    <3>4. ToSet(seq) = {Entry(s, <<m, n>>) : n \in 1..J}
      BY DEF ToSet
    <3>5. \A n \in 1..J : /\ <<m, n>> \in PlacesOf(s, kinds) /\ <<m, n>>[1] = m
      BY <2>4, <2>5 DEF PlacesOf
    <3>6. \A x \in PlacesOf(s, kinds) :
            x[1] = m => x = <<m, x[2]>> /\ x[2] \in 1..J
      BY <2>3 DEF PlacesOf
    <3>7. {Entry(s, x) : x \in {z \in PlacesOf(s, kinds) : z[1] = m}}
            = {Entry(s, <<m, n>>) : n \in 1..J}
      BY <3>5, <3>6
    <3>8. QED
      BY <3>1, <3>3, <3>4, <3>7
  <2>6. CASE formats[m].subtype \notin kinds
    <3>1. FormatFrames(s, m, kinds) = <<>>
      BY <2>6 DEF FormatFrames
    <3>2. \A z \in PlacesOf(s, kinds) : z[1] # m
      BY <2>6 DEF PlacesOf
    <3>3. ToSet(<<>>) = {} /\ <<>> \in Seq(Entries)
      BY DEF ToSet
    <3>4. QED
      BY <3>1, <3>2, <3>3
  <2>7. QED
    BY <2>5, <2>6
<1>3. \A x, y \in Places(formats) :
        Entry(s, x) = Entry(s, y) => x = y
  BY Zenon DEF Entry, SameIndices
<1>4. ASSUME NEW m \in 1..M
      PROVE  IsInjective(FormatFrames(s, m, kinds))
  <2>1. CASE formats[m].subtype \in kinds
    <3>1. FormatFrames(s, m, kinds)
            = [n \in DOMAIN formats[m].frames |-> Entry(s, <<m, n>>)]
      BY <2>1 DEF FormatFrames, Entry
    <3>2. \A n \in DOMAIN formats[m].frames : <<m, n>> \in Places(formats)
      <4>1. formats[m].frames \in Seq(FrameDescs)
        BY <1>1 DEF Formats
      <4>2. DOMAIN formats[m].frames \subseteq Nat
        BY <4>1
      <4>3. QED
        BY <1>1, <4>2 DEF Places
    <3>3. \A i, n \in DOMAIN formats[m].frames :
            Entry(s, <<m, i>>) = Entry(s, <<m, n>>) => i = n
      BY <1>3, <3>2
    <3>4. QED
      BY <3>1, <3>3 DEF IsInjective
  <2>2. CASE formats[m].subtype \notin kinds
    BY <2>2 DEF FormatFrames, IsInjective
  <2>3. QED
    BY <2>1, <2>2
<1>5. ASSUME NEW l \in 1..M, NEW m \in 1..M, l # m
      PROVE  ToSet(FormatFrames(s, l, kinds)) \cap
               ToSet(FormatFrames(s, m, kinds)) = {}
  <2>1. \A x, y \in PlacesOf(s, kinds) : Entry(s, x) = Entry(s, y) => x = y
    BY <1>3 DEF PlacesOf
  <2>2. QED
    BY <1>2, <1>5, <2>1, SMTT(60)
<1>6. /\ part \in Seq(Seq(Entries)) /\ DOMAIN part = 1..M
      /\ \A m \in 1..M : part[m] = FormatFrames(s, m, kinds)
  BY <1>1, <1>2
<1> HIDE DEF part, M
<1>7. /\ FlattenSeq(part) \in Seq(Entries)
      /\ ToSet(FlattenSeq(part)) = UNION {ToSet(part[m]) : m \in 1..M}
      /\ IsInjective(FlattenSeq(part))
  BY <1>4, <1>5, <1>6, Flatten
<1>8. InterfaceFrames(s, kinds) = FlattenSeq(part)
  BY DEF InterfaceFrames, part
<1>9. ToSet(FlattenSeq(part)) = {Entry(s, x) : x \in PlacesOf(s, kinds)}
  <2>1. \A m \in 1..M : ToSet(part[m]) =
          {Entry(s, x) : x \in {z \in PlacesOf(s, kinds) : z[1] = m}}
    BY <1>2, <1>6
  <2>2. \A x \in PlacesOf(s, kinds) : x[1] \in 1..M
    BY <1>1 DEF PlacesOf, Places
  <2>3. ASSUME NEW e \in ToSet(FlattenSeq(part))
        PROVE  \E x \in PlacesOf(s, kinds) : e = Entry(s, x)
    <3>1. PICK m \in 1..M : e \in ToSet(part[m])
      BY <1>7
    <3>2. e \in {Entry(s, x) : x \in {z \in PlacesOf(s, kinds) : z[1] = m}}
      BY <2>1, <3>1
    <3>3. QED
      BY <3>2
  <2>4. ASSUME NEW x \in PlacesOf(s, kinds)
        PROVE  Entry(s, x) \in ToSet(FlattenSeq(part))
    <3>1. x \in {z \in PlacesOf(s, kinds) : z[1] = x[1]}
      OBVIOUS
    <3>2. Entry(s, x)
            \in {Entry(s, y) : y \in {z \in PlacesOf(s, kinds) : z[1] = x[1]}}
      BY <3>1
    <3>3. Entry(s, x) \in ToSet(part[x[1]])
      BY <2>1, <2>2, <3>2
    <3>4. QED
      BY <1>7, <2>2, <3>3
  <2>5. QED
    BY <2>3, <2>4
<1>10. QED
  BY <1>7, <1>8, <1>9

\* The frames of the camera, of the formats of some kinds, each once.
TableOf(interfaces, all, kinds) ==
  /\ all \in Seq(Entries)
  /\ IsInjective(all)
  /\ \A e \in ToSet(all) :
       /\ e.format.subtype \in kinds
       /\ \E k \in DOMAIN interfaces, x \in Nat \X Nat :
            Stands(interfaces, e, k, x)
  /\ \A k \in DOMAIN interfaces : \A x \in Listed(interfaces[k].blocks) :
       interfaces[k].blocks[x[1]].subtype \in kinds =>
         \E e \in ToSet(all) : Stands(interfaces, e, k, x)

\* FramesOf meets every frame that the camera lists once.
LEMMA FramesOfAre ==
  ASSUME NEW interfaces, WellFormed(interfaces), NEW kinds
  PROVE  TableOf(interfaces, FramesOf(Scanned(interfaces), kinds), kinds)
<1> DEFINE S == Scanned(interfaces)
           K == Len(interfaces)
           part == [k \in DOMAIN S |-> InterfaceFrames(S[k], kinds)]
<1>1. /\ K \in Nat /\ DOMAIN interfaces = 1..K /\ DOMAIN S = 1..K
      /\ \A k \in 1..K : interfaces[k].number \in Nat
      /\ \A k \in 1..K : interfaces[k].blocks \in Seq(Blocks)
  <2>1. interfaces \in Seq(Interfaces)
    BY DEF WellFormed, Interfaces
  <2>2. \A k \in 1..K : interfaces[k] \in Interfaces
    BY <2>1
  <2>3. QED
    BY <2>1, <2>2, SMTT(60) DEF Scanned, Interfaces
<1> HIDE DEF K, S
<1>2. \A k \in 1..K : ScannedAs(interfaces, k)
  BY <1>1, ScannedIs
<1>3. \A k \in 1..K :
        /\ S[k].number = interfaces[k].number /\ S[k].formats \in Seq(Formats)
        /\ \A x, y \in Places(S[k].formats) :
             SameIndices(S[k].formats, x, y) => x = y
  BY <1>2 DEF ScannedAs, S
<1>4. \A k \in 1..K :
        /\ InterfaceFrames(S[k], kinds) \in Seq(Entries)
        /\ ToSet(InterfaceFrames(S[k], kinds))
             = {Entry(S[k], x) : x \in PlacesOf(S[k], kinds)}
        /\ IsInjective(InterfaceFrames(S[k], kinds))
  BY <1>1, <1>3, InterfaceFramesAre
<1>5. /\ part \in Seq(Seq(Entries)) /\ DOMAIN part = 1..K
      /\ \A k \in 1..K : part[k] = InterfaceFrames(S[k], kinds)
  BY <1>1, <1>4
<1>6. \A k \in 1..K : \A e \in ToSet(part[k]) :
        e.interface = interfaces[k].number
  BY <1>3, <1>4, <1>5 DEF Entry
<1>7. FramesOf(S, kinds) = FlattenSeq(part)
  BY DEF FramesOf, InterfaceFrames, FormatFrames
<1> HIDE DEF part
<1>8. \A k, l \in 1..K : k # l => ToSet(part[k]) \cap ToSet(part[l]) = {}
  <2>1. \A k, l \in 1..K : k # l => interfaces[k].number # interfaces[l].number
    BY <1>1 DEF WellFormed
  <2>2. QED
    BY <1>6, <2>1
<1>9. /\ FlattenSeq(part) \in Seq(Entries)
      /\ ToSet(FlattenSeq(part)) = UNION {ToSet(part[k]) : k \in 1..K}
      /\ IsInjective(FlattenSeq(part))
  <2>1. \A k \in 1..K : IsInjective(part[k])
    BY <1>4, <1>5
  <2>2. /\ FlattenSeq(part) \in Seq(Entries)
        /\ ToSet(FlattenSeq(part)) = UNION {ToSet(part[k]) : k \in DOMAIN part}
        /\ /\ \A k \in DOMAIN part : IsInjective(part[k])
           /\ \A k, l \in DOMAIN part :
                k # l => ToSet(part[k]) \cap ToSet(part[l]) = {}
           => IsInjective(FlattenSeq(part))
    BY <1>5, Flatten
  <2>3. QED
    BY <1>5, <1>8, <2>1, <2>2
<1>10. ASSUME NEW e \in ToSet(FlattenSeq(part))
       PROVE  /\ e.format.subtype \in kinds
              /\ \E k \in 1..K, x \in Nat \X Nat : Stands(interfaces, e, k, x)
  <2>1. PICK k \in 1..K : e \in ToSet(part[k])
    BY <1>9
  <2>2. PICK x \in PlacesOf(S[k], kinds) : e = Entry(S[k], x)
    BY <1>4, <1>5, <2>1
  <2>3. x \in Places(S[k].formats) /\ S[k].formats[x[1]].subtype \in kinds
    BY DEF PlacesOf
  <2>4. PICK y \in Listed(interfaces[k].blocks) :
          /\ FromBlock(S[k].formats[x[1]], interfaces[k].blocks[y[1]])
          /\ S[k].formats[x[1]].frames[x[2]]
               = FrameDesc(interfaces[k].blocks[y[2]])
    BY <1>2, <2>3 DEF ScannedAs, S
  <2>5. /\ e.interface = interfaces[k].number /\ e.format = S[k].formats[x[1]]
        /\ e.frame = S[k].formats[x[1]].frames[x[2]]
    BY <1>3, <2>2 DEF Entry
  <2>6. Stands(interfaces, e, k, y)
    BY <1>1, <2>4, <2>5 DEF Stands
  <2>7. y \in Nat \X Nat
    BY <1>1 DEF Listed
  <2>8. QED
    BY <2>3, <2>5, <2>6, <2>7
<1>11. ASSUME NEW k \in 1..K, NEW y \in Listed(interfaces[k].blocks),
              interfaces[k].blocks[y[1]].subtype \in kinds
       PROVE  \E e \in ToSet(FlattenSeq(part)) : Stands(interfaces, e, k, y)
  <2>1. PICK x \in Places(S[k].formats) :
          /\ FromBlock(S[k].formats[x[1]], interfaces[k].blocks[y[1]])
          /\ S[k].formats[x[1]].frames[x[2]]
               = FrameDesc(interfaces[k].blocks[y[2]])
    BY <1>2, Zenon DEF ScannedAs, S
  <2>2. x \in PlacesOf(S[k], kinds)
    BY <1>11, <2>1 DEF PlacesOf, FromBlock
  <2>3. Entry(S[k], x) \in ToSet(part[k])
    BY <1>4, <1>5, <2>2
  <2>4. Stands(interfaces, Entry(S[k], x), k, y)
    BY <1>1, <1>3, <2>1 DEF Stands, Entry
  <2>5. QED
    BY <1>9, <2>3, <2>4
<1>12. QED
  BY <1>1, <1>7, <1>9, <1>10, <1>11 DEF TableOf, S

\* The number of an interface names it.
LEMMA InterfaceIs ==
  ASSUME NEW interfaces, WellFormed(interfaces), NEW k \in DOMAIN interfaces
  PROVE  InterfaceOf(interfaces, interfaces[k].number) = interfaces[k]
<1>1. \A i \in ToSet(interfaces) :
        i.number = interfaces[k].number => i = interfaces[k]
  BY DEF ToSet, WellFormed
<1>2. interfaces[k] \in ToSet(interfaces)
  BY DEF ToSet
<1>3. QED
  BY <1>1, <1>2 DEF InterfaceOf

\* The indices of a frame name its blocks.
LEMMA NamedIs ==
  ASSUME NEW interfaces, WellFormed(interfaces), NEW k \in DOMAIN interfaces,
         NEW x \in Listed(interfaces[k].blocks)
  PROVE  LET blocks == interfaces[k].blocks
         IN  Named(blocks, blocks[x[1]].index, blocks[x[2]].index) = x
<1> DEFINE blocks == interfaces[k].blocks
<1>1. \A u, v \in Listed(blocks) :
        /\ blocks[u[1]].index = blocks[v[1]].index
        /\ blocks[u[2]].index = blocks[v[2]].index
        => u = v
  BY DEF WellFormed
<1> HIDE DEF blocks
<1>2. Named(blocks, blocks[x[1]].index, blocks[x[2]].index) = x
  BY <1>1 DEF Named, blocks
<1>3. QED
  BY <1>2 DEF blocks

\* What the camera means by the indices of an entry.
LEMMA MeantIs ==
  ASSUME NEW c, WellFormed(c.interfaces), NEW e, NEW k, NEW x,
         Stands(c.interfaces, e, k, x)
  PROVE  Meant(c, e.interface, e.format.index, e.frame.index)
           = [format |-> c.interfaces[k].blocks[x[1]],
              frame |-> c.interfaces[k].blocks[x[2]]]
<1> DEFINE blocks == c.interfaces[k].blocks
<1>1. /\ k \in DOMAIN c.interfaces /\ x \in Listed(blocks)
      /\ e.interface = c.interfaces[k].number
      /\ e.format.index = blocks[x[1]].index
      /\ e.frame.index = blocks[x[2]].index
  BY DEF Stands, FromBlock, FrameDesc
<1>2. InterfaceOf(c.interfaces, e.interface).blocks = blocks
  BY <1>1, InterfaceIs
<1>3. Named(blocks, e.format.index, e.frame.index) = x
  BY <1>1, NamedIs
<1>4. QED
  BY <1>2, <1>3 DEF Meant

\* What the entries of the table and the blocks of the camera have in common.
LEMMA MeantAgrees ==
  ASSUME NEW c, WellFormed(c.interfaces), NEW e, NEW k, NEW x,
         Stands(c.interfaces, e, k, x)
  PROVE  LET m == Meant(c, e.interface, e.format.index, e.frame.index)
         IN  /\ m.frame.width = e.frame.width
             /\ m.frame.height = e.frame.height
             /\ m.frame.default = e.frame.default
             /\ m.format.guid = e.format.guid
             /\ m.format.subtype = e.format.subtype
<1> DEFINE blocks == c.interfaces[k].blocks
           m == Meant(c, e.interface, e.format.index, e.frame.index)
<1>1. FromBlock(e.format, blocks[x[1]]) /\ e.frame = FrameDesc(blocks[x[2]])
  BY DEF Stands
<1>2. m.format = blocks[x[1]] /\ m.frame = blocks[x[2]]
  <2>1. m = [format |-> blocks[x[1]], frame |-> blocks[x[2]]]
    BY MeantIs
  <2>2. QED
    BY <2>1
<1> HIDE DEF blocks, m
<1>3. /\ m.frame.width = e.frame.width
      /\ m.frame.height = e.frame.height
      /\ m.frame.default = e.frame.default
  BY <1>1, <1>2 DEF FrameDesc
<1>4. m.format.guid = e.format.guid /\ m.format.subtype = e.format.subtype
  BY <1>1, <1>2 DEF FromBlock
<1>5. QED
  BY <1>3, <1>4 DEF m

\* What the format table of tcluvc holds, and in which order.
Tabled(interfaces, f) ==
  /\ \A i \in DOMAIN f : \E k, x : Stands(interfaces, f[i], k, x)
  /\ \A i \in DOMAIN f : f[i] \in Entries
  /\ \A i, j \in DOMAIN f :
       /\ i # j => f[i] # f[j]
       /\ i < j /\ f[i].format.subtype = "FORMAT_MJPEG" =>
            f[j].format.subtype = "FORMAT_MJPEG"

\* InitControls builds such a table.
LEMMA FormatTableIs ==
  ASSUME NEW interfaces, WellFormed(interfaces)
  PROVE  /\ FormatTable(Scanned(interfaces)) \in Seq(Entries)
         /\ Tabled(interfaces, FormatTable(Scanned(interfaces)))
<1> DEFINE u == FramesOf(Scanned(interfaces), {"FORMAT_UNCOMPRESSED"})
           m == FramesOf(Scanned(interfaces), {"FORMAT_MJPEG"})
           f == u \o m
<1>1. /\ TableOf(interfaces, u, {"FORMAT_UNCOMPRESSED"})
      /\ TableOf(interfaces, m, {"FORMAT_MJPEG"})
  BY FramesOfAre
<1>2. FormatTable(Scanned(interfaces)) = f
  BY DEF FormatTable
<1> HIDE DEF u, m
<1>3. /\ u \in Seq(Entries) /\ IsInjective(u)
      /\ \A e \in ToSet(u) : e.format.subtype = "FORMAT_UNCOMPRESSED"
      /\ \A e \in ToSet(u) : \E k, x : Stands(interfaces, e, k, x)
  BY <1>1 DEF TableOf
<1>4. /\ m \in Seq(Entries) /\ IsInjective(m)
      /\ \A e \in ToSet(m) : e.format.subtype = "FORMAT_MJPEG"
      /\ \A e \in ToSet(m) : \E k, x : Stands(interfaces, e, k, x)
  BY <1>1 DEF TableOf
<1>5. ToSet(u) \cap ToSet(m) = {}
  BY <1>3, <1>4
<1>6. /\ f \in Seq(Entries) /\ ToSet(f) = ToSet(u) \cup ToSet(m)
      /\ IsInjective(f)
  BY <1>3, <1>4, <1>5, Concat
<1>7. \A i \in DOMAIN f : f[i] \in ToSet(f)
  BY DEF ToSet
<1>8. ASSUME NEW i \in DOMAIN f, NEW j \in DOMAIN f, i < j,
             f[i].format.subtype = "FORMAT_MJPEG"
      PROVE  f[j].format.subtype = "FORMAT_MJPEG"
  <2>1. /\ Len(u) \in Nat /\ Len(m) \in Nat /\ DOMAIN u = 1..Len(u)
        /\ DOMAIN m = 1..Len(m) /\ DOMAIN f = 1..(Len(u) + Len(m))
        /\ \A n \in 1..Len(u) : f[n] = u[n]
        /\ \A n \in (Len(u) + 1)..(Len(u) + Len(m)) : f[n] = m[n - Len(u)]
    BY <1>3, <1>4
  <2> HIDE DEF f
  <2>2. i \notin 1..Len(u)
    <3>1. i \in 1..Len(u) => f[i] \in ToSet(u)
      BY <2>1 DEF ToSet
    <3>2. QED
      BY <1>3, <1>8, <3>1
  <2>3. j \in (Len(u) + 1)..(Len(u) + Len(m)) /\ j - Len(u) \in 1..Len(m)
    BY <1>8, <2>1, <2>2
  <2>4. f[j] \in ToSet(m)
    BY <2>1, <2>3 DEF ToSet
  <2>5. QED
    BY <1>4, <2>4
<1> HIDE DEF f
<1>9. \A i \in DOMAIN f : f[i] \in Entries
  BY <1>6
<1>10. QED
  BY <1>2, <1>3, <1>4, <1>6, <1>7, <1>8, <1>9 DEF Tabled, IsInjective

-----------------------------------------------------------------------------
(***************************************************************************)
(* The searches of libuvc.                                                 *)
(***************************************************************************)

\* What a search through a table returns.
LEMMA FindFrameIs ==
  ASSUME NEW all \in Seq(Entries), NEW format, NEW frame
  PROVE  LET d == FindFrame(all, format, frame)
         IN  \/ /\ d = NoFrame
                /\ \A e \in ToSet(all) :
                     ~(e.format.index = format /\ e.frame.index = frame)
             \/ /\ d \in ToSet(all) /\ d # NoFrame
                /\ d.format.index = format /\ d.frame.index = frame
<1> DEFINE at == {i \in DOMAIN all : /\ all[i].format.index = format
                                     /\ all[i].frame.index = frame}
           d == FindFrame(all, format, frame)
<1>1. d = First(all, at, NoFrame)
  BY DEF FindFrame
<1>2. at \in SUBSET Nat /\ at \subseteq DOMAIN all
  OBVIOUS
<1>3. CASE at = {}
  <2>1. First(all, at, NoFrame) = NoFrame
    BY <1>3 DEF First
  <2>2. \A e \in ToSet(all) :
          ~(e.format.index = format /\ e.frame.index = frame)
    BY <1>3 DEF ToSet
  <2>3. QED
    BY <1>1, <2>1, <2>2
<1>4. CASE at # {}
  <2> DEFINE i == Least(at)
  <2>1. i \in at
    <3> HIDE DEF at
    <3>1. QED
      BY <1>2, <1>4, LeastIs
  <2>2. First(all, at, NoFrame) = all[i]
    BY <1>4 DEF First
  <2>3. /\ all[i] \in ToSet(all) /\ all[i] \in Entries
        /\ all[i].format.index = format /\ all[i].frame.index = frame
    <3> HIDE DEF i
    <3>1. i \in DOMAIN all /\ all[i] \in Entries
      BY <2>1
    <3>2. QED
      BY <2>1, <3>1 DEF ToSet
  <2>4. all[i] # NoFrame
    <3> HIDE DEF i
    <3>1. all[i].interface \in Nat
      BY <2>3 DEF Entries
    <3>2. NoFrame.interface = -1 /\ -1 \notin Nat
      BY DEF NoFrame
    <3>3. QED
      BY <3>1, <3>2
  <2> HIDE DEF i, at, d
  <2>5. d = all[i]
    BY <1>1, <2>2
  <2>6. QED
    BY <2>3, <2>4, <2>5 DEF d
<1> HIDE DEF d
<1>5. QED
  BY <1>3, <1>4 DEF d

\* The number of an interface finds what was parsed of it.
LEMMA ScannedInterface ==
  ASSUME NEW interfaces, WellFormed(interfaces), NEW k \in DOMAIN interfaces
  PROVE  /\ InterfaceOf(Scanned(interfaces), interfaces[k].number)
              = Scanned(interfaces)[k]
         /\ Scanned(<<interfaces[k]>>) = <<Scanned(interfaces)[k]>>
         /\ WellFormed(<<interfaces[k]>>)
<1> DEFINE S == Scanned(interfaces)
           one == <<interfaces[k]>>
<1>1. DOMAIN S = DOMAIN interfaces /\ S[k] = uvc_scan_streaming(interfaces[k])
  BY DEF Scanned
<1>2. \A l \in DOMAIN interfaces : S[l].number = interfaces[l].number
  BY ScannedIs DEF ScannedAs
<1>3. \A l \in DOMAIN interfaces :
        interfaces[k].number = interfaces[l].number => k = l
  BY DEF WellFormed
<1> HIDE DEF S
<1>4. InterfaceOf(S, interfaces[k].number) = S[k]
  <2>1. S[k] \in ToSet(S)
    BY <1>1 DEF ToSet
  <2>2. \A i \in ToSet(S) : i.number = interfaces[k].number => i = S[k]
    BY <1>1, <1>2, <1>3 DEF ToSet
  <2>3. QED
    BY <1>2, <2>1, <2>2 DEF InterfaceOf
<1>5. /\ one \in Seq(Interfaces) /\ DOMAIN one = {1} /\ one[1] = interfaces[k]
      /\ Len(one) = 1
  <2>1. interfaces \in Seq(Interfaces)
    BY DEF WellFormed, Interfaces
  <2>2. interfaces[k] \in Interfaces
    BY <2>1
  <2>3. 1..1 = {1}
    OBVIOUS
  <2>4. QED
    BY <2>2, <2>3
<1>6. Scanned(one) = <<S[k]>>
  <2>1. Scanned(one) = [l \in {1} |-> uvc_scan_streaming(one[l])]
    BY <1>5 DEF Scanned
  <2>2. DOMAIN <<S[k]>> = {1} /\ <<S[k]>>[1] = S[k]
    BY <1>5
  <2> HIDE DEF one
  <2>3. <<S[k]>> = [l \in {1} |-> S[k]]
    BY <2>2
  <2>4. \A l \in {1} : uvc_scan_streaming(one[l]) = S[k]
    BY <1>1, <1>5
  <2>5. QED
    BY <2>1, <2>3, <2>4
<1>7. WellFormed(one)
  <2>1. LET blocks == interfaces[k].blocks IN
        /\ \A p \in DOMAIN blocks :
             IsFrame(blocks[p]) => \E q \in 1..p : Owns(blocks, q, p)
        /\ \A x, y \in Listed(blocks) :
             /\ blocks[x[1]].index = blocks[y[1]].index
             /\ blocks[x[2]].index = blocks[y[2]].index
             => x = y
    BY DEF WellFormed
  <2> HIDE DEF one
  <2>2. QED
    BY <1>5, <2>1 DEF WellFormed, Interfaces
<1>8. QED
  BY <1>4, <1>6, <1>7 DEF S

\* What libuvc finds in the interface of a stream is what the camera means.
LEMMA StreamFrame ==
  ASSUME NEW interfaces, WellFormed(interfaces), NEW k \in DOMAIN interfaces,
         NEW format, NEW frame
  PROVE  LET d == uvc_find_frame_desc_stream(Scanned(interfaces),
                                             interfaces[k].number,
                                             format, frame)
         IN  d # NoFrame =>
               /\ d \in Entries
               /\ d.format.index = format /\ d.frame.index = frame
               /\ \E x : Stands(interfaces, d, k, x)
<1> DEFINE one == <<interfaces[k]>>
           all == AllFrames(Scanned(one))
           d == uvc_find_frame_desc_stream(Scanned(interfaces),
                                           interfaces[k].number, format, frame)
<1>1. d = FindFrame(all, format, frame)
  BY ScannedInterface DEF uvc_find_frame_desc_stream
<1>2. TableOf(one, all, FormatKinds)
  BY ScannedInterface, FramesOfAre DEF AllFrames
<1> SUFFICES ASSUME d # NoFrame
             PROVE  /\ d \in Entries /\ d.format.index = format
                    /\ d.frame.index = frame
                    /\ \E x : Stands(interfaces, d, k, x)
  OBVIOUS
<1> HIDE DEF d, all
<1>3. /\ d \in ToSet(all) /\ d.format.index = format /\ d.frame.index = frame
  <2>1. all \in Seq(Entries)
    BY <1>2 DEF TableOf
  <2>2. QED
    BY <1>1, <2>1, FindFrameIs
<1>4. d \in Entries
  BY <1>2, <1>3 DEF TableOf, ToSet
<1>5. PICK l \in DOMAIN one, x \in Nat \X Nat : Stands(one, d, l, x)
  BY <1>2, <1>3 DEF TableOf
<1>6. one[l] = interfaces[k]
  OBVIOUS
<1>7. Stands(interfaces, d, k, x)
  BY <1>5, <1>6 DEF Stands
<1>8. QED
  BY <1>3, <1>4, <1>7

-----------------------------------------------------------------------------
(***************************************************************************)
(* Rates and intervals, and the blocks that are tried.                     *)
(***************************************************************************)

\* Division, by multiplication.
LEMMA Quotient ==
  ASSUME NEW n \in Nat, NEW d \in Nat \ {0}, NEW m \in Nat
  PROVE  n \div d \in Nat /\ (m <= n \div d <=> m * d <= n)
<1> DEFINE q == n \div d
<1>1. q \in Int /\ q * d <= n /\ n < (q + 1) * d
  <2>1. n = d * q + (n % d) /\ n % d \in 0..(d - 1) /\ q \in Int
    OBVIOUS
  <2>2. QED
    BY <2>1
<1> HIDE DEF q
<1>2. q >= 0
  <2>1. q < 0 => (q + 1) * d <= 0
    BY <1>1
  <2>2. QED
    BY <1>1, <2>1
<1>3. m <= q => m * d <= q * d
  BY <1>1
<1>4. m > q => (q + 1) * d <= m * d
  BY <1>1
<1>5. QED
  BY <1>1, <1>2, <1>3, <1>4 DEF q

\* A rate is also an interval, and the interval of a rate has the rate: the
\* code goes both ways.
LEMMA RateIs ==
  ASSUME NEW x \in Ticks
  PROVE  /\ Rate(x) \in Ticks
         /\ TicksPerSecond \div Rate(x) \in Ticks
         /\ Rate(TicksPerSecond \div Rate(x)) = Rate(x)
<1> DEFINE N == TicksPerSecond
           a == N \div x
           b == N \div a
           r == N \div b
<1>1. N \in Nat /\ x \in Nat \ {0} /\ x <= N
  <2>1. N \in Nat
    BY SMT DEF TicksPerSecond
  <2>2. x \in 1..N
    BY DEF Ticks
  <2> HIDE DEF N
  <2>3. QED
    BY <2>1, <2>2
<1> HIDE DEF N
<1>2. a \in Nat /\ \A m \in Nat : m <= a <=> m * x <= N
  BY <1>1, Quotient
<1>3. 1 <= a /\ a <= N /\ a * x <= N
  <2>1. 1 <= a
    BY <1>1, <1>2
  <2>2. a * x <= N
    BY <1>2
  <2>3. a <= a * x
    BY <1>1, <1>2
  <2>4. QED
    BY <1>1, <1>2, <2>1, <2>2, <2>3
<1> HIDE DEF a
<1>4. b \in Nat /\ \A m \in Nat : m <= b <=> m * a <= N
  BY <1>1, <1>2, <1>3, Quotient
<1>5. x <= b /\ b * a <= N
  <2>1. x * a <= N
    BY <1>1, <1>2, <1>3
  <2>2. QED
    BY <1>1, <1>4, <2>1
<1>6. 1 <= b /\ b <= N
  <2>1. b <= b * a
    BY <1>2, <1>3, <1>4
  <2>2. QED
    BY <1>1, <1>2, <1>4, <1>5, <2>1
<1> HIDE DEF b
<1>7. r \in Nat /\ \A m \in Nat : m <= r <=> m * b <= N
  BY <1>1, <1>4, <1>6, Quotient
<1>8. a <= r
  <2>1. a * b <= N
    BY <1>2, <1>4, <1>5
  <2>2. QED
    BY <1>2, <1>7, <2>1
<1>9. r <= a
  <2>1. r * b <= N
    BY <1>7
  <2> HIDE DEF r
  <2>2. r * x <= r * b
    BY <1>1, <1>4, <1>5, <1>7
  <2>3. r * x <= N
    BY <1>1, <1>4, <1>7, <2>1, <2>2
  <2>4. QED
    BY <1>2, <1>7, <2>3
<1>10. r = a
  BY <1>2, <1>7, <1>8, <1>9
<1>11. QED
  BY <1>1, <1>2, <1>3, <1>4, <1>6, <1>10 DEF Rate, Ticks, N, a, b

\* The control blocks that are sent.
CtrlBlocks ==
  [interface : Nat, hint : BOOLEAN, format : Nat, frame : Nat,
   interval : Ticks, size : Int, payload : Nat]

\* The rates that the settings of TUVC can have.
Fps == {Rate(x) : x \in Ticks}

\* A control block for a frame and an interval, as the loops set it up.
Candidate(e, v) ==
  [format |-> e.format, frame |-> e.frame,
   asked |-> Ctrl(e.interface, TRUE, e.format.index, e.frame.index, v)]

\* The intervals that are tried; those taken have the rate of the settings.
LEMMA IntervalsAre ==
  ASSUME NEW frame \in FrameDescs, NEW fps \in Fps
  PROVE  /\ Intervals(frame, fps) \in Seq(Ticks)
         /\ \A v \in ToSet(Intervals(frame, fps)) :
              HasRate(frame, v, fps) => Rate(v) = fps
<1>1. PICK x \in Ticks : fps = Rate(x)
  BY DEF Fps
<1>2. /\ fps \in Ticks /\ fps # 0
      /\ TicksPerSecond \div fps \in Ticks
      /\ Rate(TicksPerSecond \div fps) = fps
  BY <1>1, RateIs DEF Ticks
<1>3. frame.intervals \in Seq(Ticks)
  BY DEF FrameDescs
<1>4. CASE frame.intervals # <<>>
  <2>1. Intervals(frame, fps) = frame.intervals
    BY <1>4 DEF Intervals
  <2>2. fps # 0
    BY <1>2
  <2>3. QED
    BY <1>3, <1>4, <2>1, <2>2 DEF HasRate
<1>5. CASE frame.intervals = <<>>
  <2> DEFINE w == TicksPerSecond \div fps
  <2>1. Intervals(frame, fps) = <<w>>
    BY <1>5 DEF Intervals
  <2> HIDE DEF w
  <2>2. w \in Ticks /\ Rate(w) = fps
    BY <1>2 DEF w
  <2>3. <<w>> \in Seq(Ticks) /\ ToSet(<<w>>) = {w}
    <3>1. DOMAIN <<w>> = 1..1 /\ 1..1 = {1}
      OBVIOUS
    <3>2. QED
      BY <2>2, <3>1 DEF ToSet
  <2>4. QED
    BY <2>1, <2>2, <2>3
<1>6. QED
  BY <1>4, <1>5

\* The control blocks for one frame; and for all.
Options(e, fps) ==
  LET intervals == Intervals(e.frame, fps) IN
  [m \in DOMAIN intervals |->
     [format |-> e.format, frame |-> e.frame,
      asked |-> Ctrl(e.interface, TRUE, e.format.index, e.frame.index,
                     intervals[m])]]

\* What the loops look at.
CandidateSet == [format : Formats, frame : FrameDescs, asked : CtrlBlocks]

\* The loop over the intervals of a frame.
LEMMA OptionsAre ==
  ASSUME NEW e \in Entries, NEW fps \in Fps
  PROVE  /\ Options(e, fps) \in Seq(CandidateSet)
         /\ \A d \in ToSet(Options(e, fps)) :
              \E v \in ToSet(Intervals(e.frame, fps)) : d = Candidate(e, v)
         /\ \A v \in ToSet(Intervals(e.frame, fps)) :
              Candidate(e, v) \in ToSet(Options(e, fps))
<1> DEFINE intervals == Intervals(e.frame, fps)
           L == Len(intervals)
<1>1. /\ e.interface \in Nat /\ e.format \in Formats /\ e.frame \in FrameDescs
      /\ e.format.index \in Nat /\ e.frame.index \in Nat
  BY DEF Entries, Formats, FrameDescs
<1>2. intervals \in Seq(Ticks)
  BY <1>1, IntervalsAre
<1> HIDE DEF intervals
<1>3. /\ L \in Nat /\ DOMAIN intervals = 1..L
      /\ \A m \in 1..L : intervals[m] \in Ticks
  BY <1>2
<1>4. Options(e, fps) = [m \in 1..L |-> Candidate(e, intervals[m])]
  <2>1. Options(e, fps)
          = [m \in DOMAIN intervals |-> Candidate(e, intervals[m])]
    BY DEF Options, Candidate, intervals
  <2>2. QED
    BY <1>3, <2>1
<1>5. \A v \in Ticks : Candidate(e, v) \in CandidateSet
  BY <1>1 DEF Candidate, CandidateSet, Ctrl, CtrlBlocks
<1> HIDE DEF L
<1>6. Options(e, fps) \in Seq(CandidateSet)
  BY <1>3, <1>4, <1>5
<1>7. ToSet(intervals) = {intervals[m] : m \in 1..L}
  BY <1>3 DEF ToSet
<1>8. ToSet(Options(e, fps)) = {Candidate(e, intervals[m]) : m \in 1..L}
  BY <1>4 DEF ToSet
<1>9. QED
  BY <1>6, <1>7, <1>8 DEF intervals

\* The loops over all frames.
LEMMA CandidatesAre ==
  ASSUME NEW interfaces, WellFormed(interfaces), NEW fps \in Fps
  PROVE  LET S == Scanned(interfaces) IN
         /\ Candidates(S, fps) \in Seq(CandidateSet)
         /\ \A d \in ToSet(Candidates(S, fps)) :
              \E e \in ToSet(AllFrames(S)) :
                \E v \in ToSet(Intervals(e.frame, fps)) : d = Candidate(e, v)
         /\ \A e \in ToSet(AllFrames(S)) :
              \A v \in ToSet(Intervals(e.frame, fps)) :
                Candidate(e, v) \in ToSet(Candidates(S, fps))
<1> DEFINE S == Scanned(interfaces)
           all == AllFrames(S)
           A == Len(all)
           part == [k \in DOMAIN all |-> Options(all[k], fps)]
           C == Candidates(S, fps)
<1>1. all \in Seq(Entries)
  BY FramesOfAre DEF AllFrames, TableOf
<1>2. C = FlattenSeq(part)
  BY DEF Candidates, Options
<1> HIDE DEF all, C
<1>3. /\ A \in Nat /\ DOMAIN all = 1..A
      /\ \A k \in 1..A : all[k] \in Entries
  BY <1>1
<1>4. /\ part \in Seq(Seq(CandidateSet)) /\ DOMAIN part = 1..A
      /\ \A k \in 1..A : part[k] = Options(all[k], fps)
  BY <1>3, OptionsAre
<1> HIDE DEF part, A
<1>5. /\ FlattenSeq(part) \in Seq(CandidateSet)
      /\ ToSet(FlattenSeq(part)) = UNION {ToSet(part[k]) : k \in 1..A}
  BY <1>4, Flatten
<1>6. ASSUME NEW d \in ToSet(C)
      PROVE  \E e \in ToSet(all) :
               \E v \in ToSet(Intervals(e.frame, fps)) : d = Candidate(e, v)
  <2>1. PICK k \in 1..A : d \in ToSet(Options(all[k], fps))
    BY <1>2, <1>4, <1>5
  <2>2. all[k] \in ToSet(all) /\ all[k] \in Entries
    BY <1>3 DEF ToSet
  <2>3. QED
    BY <2>1, <2>2, OptionsAre
<1>7. ASSUME NEW e \in ToSet(all), NEW v \in ToSet(Intervals(e.frame, fps))
      PROVE  Candidate(e, v) \in ToSet(C)
  <2>1. PICK k \in 1..A : e = all[k]
    BY <1>3 DEF ToSet
  <2>2. Candidate(e, v) \in ToSet(Options(e, fps))
    BY <1>3, <2>1, OptionsAre
  <2>3. QED
    BY <1>2, <1>4, <1>5, <2>1, <2>2
<1>8. QED
  BY <1>2, <1>5, <1>6, <1>7 DEF C, all

\* What uvc_get_stream_ctrl_format_size asks the camera for.
LEMMA FoundIs ==
  ASSUME NEW interfaces, WellFormed(interfaces), NEW c, NEW cf, NEW t, NEW max,
         t.fps \in Fps
  PROVE  LET S == Scanned(interfaces)
             asked == Found(c, S, cf, t, max)
         IN  \/ asked = NoCtrl
             \/ /\ asked \in CtrlBlocks
                /\ \E d \in CandidateSet, e \in Entries, v \in Ticks :
                     /\ e \in ToSet(AllFrames(S))
                     /\ v \in ToSet(Intervals(e.frame, t.fps))
                     /\ d = Candidate(e, v) /\ asked = d.asked
                     /\ Takes(c, cf, t, max, d)
<1> DEFINE S == Scanned(interfaces)
           asked == Found(c, S, cf, t, max)
           all == Candidates(S, t.fps)
           at == {i \in DOMAIN all : Takes(c, cf, t, max, all[i])}
           none == [asked |-> NoCtrl]
<1>1. asked = First(all, at, none).asked
  BY DEF Found
<1>2. /\ all \in Seq(CandidateSet)
      /\ \A d \in ToSet(all) :
           \E e \in ToSet(AllFrames(S)) :
             \E v \in ToSet(Intervals(e.frame, t.fps)) : d = Candidate(e, v)
  BY CandidatesAre
<1> HIDE DEF asked, all
<1>3. at \in SUBSET Nat /\ at \subseteq DOMAIN all
  BY <1>2
<1>4. CASE at = {}
  BY <1>1, <1>4 DEF First, asked
<1>5. CASE at # {}
  <2> DEFINE i == Least(at)
             d == all[i]
  <2>1. i \in at
    <3> HIDE DEF at
    <3>1. QED
      BY <1>3, <1>5, LeastIs
  <2>2. asked = d.asked
    BY <1>1, <1>5 DEF First
  <2> HIDE DEF i
  <2>3. d \in CandidateSet /\ d \in ToSet(all) /\ Takes(c, cf, t, max, d)
    BY <1>2, <2>1 DEF ToSet
  <2> HIDE DEF d, at
  <2>4. PICK e \in ToSet(AllFrames(S)) :
          \E v \in ToSet(Intervals(e.frame, t.fps)) : d = Candidate(e, v)
    BY <1>2, <2>3
  <2> PICK v \in ToSet(Intervals(e.frame, t.fps)) : d = Candidate(e, v)
    BY <2>4
  <2>5. e \in Entries
    BY FramesOfAre DEF AllFrames, TableOf, ToSet
  <2>6. v \in Ticks
    <3>1. e.frame \in FrameDescs
      BY <2>5 DEF Entries
    <3>2. Intervals(e.frame, t.fps) \in Seq(Ticks)
      BY <3>1, IntervalsAre
    <3>3. PICK m \in DOMAIN Intervals(e.frame, t.fps) :
            v = Intervals(e.frame, t.fps)[m]
      BY DEF ToSet
    <3>4. QED
      BY <3>2, <3>3
  <2>7. asked \in CtrlBlocks
    BY <2>2, <2>3 DEF CandidateSet
  <2>8. QED
    BY <2>2, <2>3, <2>4, <2>5, <2>6, <2>7 DEF asked
<1>6. QED
  BY <1>4, <1>5

-----------------------------------------------------------------------------
(***************************************************************************)
(* The camera.                                                             *)
(***************************************************************************)

\* A control block is about the frame y of interface k.
Names(interfaces, cur, k, y) ==
  LET blocks == interfaces[k].blocks IN
  /\ k \in DOMAIN interfaces /\ y \in Listed(blocks)
  /\ cur.interface = interfaces[k].number
  /\ cur.format = blocks[y[1]].index
  /\ cur.frame = blocks[y[2]].index

\* What the camera means by the indices of the block.
MeansIn(c, cur, k, y) ==
  /\ Meant(c, cur.interface, cur.format, cur.frame)
       = [format |-> c.interfaces[k].blocks[y[1]],
          frame |-> c.interfaces[k].blocks[y[2]]]
  /\ InterfaceOf(c.interfaces, cur.interface) = c.interfaces[k]

\* A control block that names a frame means its blocks.
LEMMA MeantBlocks ==
  ASSUME NEW c, WellFormed(c.interfaces), NEW cur, NEW k, NEW y,
         Names(c.interfaces, cur, k, y)
  PROVE  MeansIn(c, cur, k, y)
<1> DEFINE blocks == c.interfaces[k].blocks
<1>1. /\ k \in DOMAIN c.interfaces /\ y \in Listed(blocks)
      /\ cur.interface = c.interfaces[k].number
      /\ cur.format = blocks[y[1]].index
      /\ cur.frame = blocks[y[2]].index
  BY DEF Names
<1>2. InterfaceOf(c.interfaces, cur.interface) = c.interfaces[k]
  BY <1>1, InterfaceIs
<1>3. Named(blocks, cur.format, cur.frame) = y
  BY <1>1, NamedIs
<1>4. QED
  BY <1>2, <1>3 DEF Meant, MeansIn

\* The types of what an interface holds.
LEMMA ListedBlocks ==
  ASSUME NEW interfaces, WellFormed(interfaces), NEW k \in DOMAIN interfaces
  PROVE  LET blocks == interfaces[k].blocks IN
         /\ blocks \in Seq(Blocks) /\ interfaces[k].number \in Nat
         /\ interfaces[k].alts \in Seq(Nat)
         /\ \A y \in Listed(blocks) :
              /\ y[1] \in DOMAIN blocks /\ y[2] \in DOMAIN blocks
              /\ blocks[y[1]] \in FormatBlocks /\ blocks[y[2]] \in FrameBlocks
              /\ y = <<y[1], y[2]>>
         /\ \A p \in DOMAIN blocks : IsFrame(blocks[p]) =>
              \E q \in DOMAIN blocks : <<q, p>> \in Listed(blocks)
<1> DEFINE blocks == interfaces[k].blocks
<1>1. interfaces[k] \in Interfaces
  <2>1. interfaces \in Seq(Interfaces)
    BY DEF WellFormed, Interfaces
  <2>2. QED
    BY <2>1
<1>2. \A p \in DOMAIN blocks :
        IsFrame(blocks[p]) => \E q \in 1..p : Owns(blocks, q, p)
  BY DEF WellFormed
<1>3. /\ blocks \in Seq(Blocks) /\ interfaces[k].number \in Nat
      /\ interfaces[k].alts \in Seq(Nat)
  BY <1>1 DEF Interfaces
<1> HIDE DEF blocks
<1>4. \A p \in DOMAIN blocks : blocks[p] \in Blocks /\ p \in Nat
  BY <1>3
<1>5. \A y \in Listed(blocks) :
        /\ y[1] \in DOMAIN blocks /\ y[2] \in DOMAIN blocks
        /\ IsFormat(blocks[y[1]]) /\ IsFrame(blocks[y[2]])
        /\ y = <<y[1], y[2]>>
  BY DEF Listed, Owns
<1>6. \A y \in Listed(blocks) :
        blocks[y[1]] \in FormatBlocks /\ blocks[y[2]] \in FrameBlocks
  BY <1>4, <1>5, BlockKinds
<1>7. ASSUME NEW p \in DOMAIN blocks, IsFrame(blocks[p])
      PROVE  \E q \in DOMAIN blocks : <<q, p>> \in Listed(blocks)
  <2>1. PICK q \in 1..p : Owns(blocks, q, p)
    BY <1>2, <1>7 DEF blocks
  <2>2. q \in DOMAIN blocks
    BY <1>3, <1>4, SMTT(30)
  <2>3. QED
    BY <1>7, <2>1, <2>2 DEF Listed
<1>8. QED
  BY <1>3, <1>5, <1>6, <1>7 DEF blocks

\* How a camera answers a block that names one of its frames.
Answer(c, asked, k, x, a) ==
  \E y :
    /\ a \in CtrlBlocks
    /\ Names(c.interfaces, a, k, y)
    /\ a.hint = asked.hint
    /\ a.payload \in {Unlimited, c.payload}
    /\ c.wild = {} => a.payload = c.payload
    /\ a.size = IF c.size = "given" THEN c.interfaces[k].blocks[y[2]].size
                ELSE IF c.size = "zero" THEN 0 ELSE Unset
    /\ c.obeys => y = x /\ (a.hint => a.interval = asked.interval)

\* It answers with a frame of the interface it is asked about, and with the
\* one it is asked for if it obeys.
LEMMA AcceptsIs ==
  ASSUME NEW c, WellFormed(c.interfaces), c.obeys \in BOOLEAN,
         c.payload \in Nat,
         NEW asked \in CtrlBlocks, NEW k, NEW x,
         Names(c.interfaces, asked, k, x)
  PROVE  Answer(c, asked, k, x, Accepts(c, asked))
<1> DEFINE blocks == c.interfaces[k].blocks
           frames == {p \in DOMAIN blocks : IsFrame(blocks[p])}
           L == Least(frames)
           Q == CHOOSE q \in DOMAIN blocks : Owns(blocks, q, L)
           frameOf == Meant(c, asked.interface, asked.format, asked.frame)
                        .frame
           held == IF c.obeys
                   THEN IF asked.hint THEN asked
                        ELSE [asked EXCEPT !.interval = frameOf.default]
                   ELSE [asked EXCEPT !.format = blocks[Q].index,
                                      !.frame = blocks[L].index,
                                      !.interval = blocks[L].default]
           payload == IF held.interval \in c.wild THEN Unlimited ELSE c.payload
           size == IF c.size = "given"
                   THEN Meant(c, held.interface, held.format, held.frame)
                          .frame.size
                   ELSE IF c.size = "zero" THEN 0 ELSE Unset
           a == Accepts(c, asked)
<1>1. /\ InterfaceOf(c.interfaces, asked.interface) = c.interfaces[k]
      /\ frameOf = blocks[x[2]]
  <2>1. MeansIn(c, asked, k, x)
    BY MeantBlocks
  <2> HIDE DEF blocks
  <2>2. QED
    BY <2>1 DEF MeansIn, blocks
<1>2. a = [held EXCEPT !.payload = payload, !.size = size]
  BY <1>1 DEF Accepts
<1>3. /\ k \in DOMAIN c.interfaces /\ x \in Listed(blocks)
      /\ asked.interface = c.interfaces[k].number
      /\ asked.format = blocks[x[1]].index /\ asked.frame = blocks[x[2]].index
  BY Zenon DEF Names
<1>4. /\ blocks \in Seq(Blocks)
      /\ \A y \in Listed(blocks) :
           /\ y[1] \in DOMAIN blocks /\ y[2] \in DOMAIN blocks
           /\ blocks[y[1]] \in FormatBlocks /\ blocks[y[2]] \in FrameBlocks
      /\ \A p \in DOMAIN blocks : IsFrame(blocks[p]) =>
           \E q \in DOMAIN blocks : <<q, p>> \in Listed(blocks)
  BY <1>3, ListedBlocks
<1> HIDE DEF blocks
<1>5. <<Q, L>> \in Listed(blocks)
  <2>1. frames \in SUBSET Nat
    BY <1>4
  <2>2. x[2] \in frames
    BY <1>3, <1>4 DEF Listed
  <2> HIDE DEF frames
  <2>3. L \in frames
    BY <2>1, <2>2, LeastIs
  <2> HIDE DEF L
  <2>4. L \in DOMAIN blocks /\ IsFrame(blocks[L])
    BY <2>3 DEF frames
  <2>5. PICK q \in DOMAIN blocks : <<q, L>> \in Listed(blocks)
    BY <1>4, <2>4
  <2>6. Owns(blocks, q, L)
    BY <2>5 DEF Listed
  <2>7. Q \in DOMAIN blocks /\ Owns(blocks, Q, L)
    BY <2>6
  <2>8. QED
    BY <2>4, <2>7 DEF Listed
<1> HIDE DEF Q, L, frameOf, held, payload, size, a
<1> DEFINE y == IF c.obeys THEN x ELSE <<Q, L>>
<1>6. y \in Listed(blocks)
  BY <1>3, <1>5
<1>7. /\ blocks[y[1]] \in FormatBlocks /\ blocks[y[2]] \in FrameBlocks
      /\ blocks[y[1]].index \in Nat /\ blocks[y[2]].index \in Nat
      /\ blocks[y[2]].default \in Ticks /\ blocks[y[2]].size \in Nat
  BY <1>4, <1>6 DEF FormatBlocks, FrameBlocks
<1>8. /\ held \in CtrlBlocks /\ held.interface = asked.interface
      /\ held.hint = asked.hint
      /\ held.format = blocks[y[1]].index /\ held.frame = blocks[y[2]].index
      /\ c.obeys /\ held.hint => held.interval = asked.interval
  <2>1. CASE c.obeys /\ asked.hint
    BY <1>3, <2>1 DEF held
  <2>2. CASE c.obeys /\ ~asked.hint
    <3>1. held = [asked EXCEPT !.interval = blocks[x[2]].default] /\ y = x
      BY <1>1, <2>2 DEF held, frameOf
    <3> HIDE DEF y
    <3>2. QED
      BY <1>3, <1>7, <2>2, <3>1 DEF CtrlBlocks
  <2>3. CASE ~c.obeys
    <3>1. held = [asked EXCEPT !.format = blocks[Q].index,
                               !.frame = blocks[L].index,
                               !.interval = blocks[L].default]
      BY <2>3 DEF held
    <3>2. y[1] = Q /\ y[2] = L
      BY <2>3
    <3> HIDE DEF y
    <3>3. QED
      BY <1>7, <2>3, <3>1, <3>2 DEF CtrlBlocks
  <2>4. QED
    BY <2>1, <2>2, <2>3
<1> HIDE DEF y
<1>9. Names(c.interfaces, held, k, y)
  BY <1>3, <1>6, <1>8 DEF Names, blocks
<1>10. size = IF c.size = "given" THEN blocks[y[2]].size
              ELSE IF c.size = "zero" THEN 0 ELSE Unset
  <2>1. MeansIn(c, held, k, y)
    BY <1>9, MeantBlocks
  <2>2. QED
    BY <2>1 DEF MeansIn, size, blocks
<1>11. size \in Int /\ payload \in {Unlimited, c.payload} /\ payload \in Nat
  <2>1. size \in Int
    BY <1>7, <1>10 DEF Unset
  <2>2. QED
    BY <2>1 DEF payload, Unlimited
<1>12. /\ a \in CtrlBlocks
       /\ a.interface = held.interface /\ a.hint = held.hint
       /\ a.format = held.format /\ a.frame = held.frame
       /\ a.interval = held.interval /\ a.payload = payload /\ a.size = size
  BY <1>2, <1>8, <1>11 DEF CtrlBlocks
<1>13. Names(c.interfaces, a, k, y)
  BY <1>9, <1>12 DEF Names
<1>14. c.obeys => y = x
  BY DEF y
<1>15. c.wild = {} => payload = c.payload
  BY DEF payload
<1>16. QED
  BY <1>8, <1>10, <1>11, <1>12, <1>13, <1>14, <1>15, Zenon DEF Answer, blocks, a

\* A block that asks for a frame with the format, the size and the rate.
AsksFor(interfaces, asked, cf, t, k, x) ==
  LET blocks == interfaces[k].blocks IN
  /\ asked \in CtrlBlocks
  /\ Names(interfaces, asked, k, x)
  /\ asked.hint /\ Rate(asked.interval) = t.fps
  /\ blocks[x[2]].width = t.width /\ blocks[x[2]].height = t.height
  /\ Matches(cf, blocks[x[1]].guid)

\* uvc_get_stream_ctrl_format_size asks for what it was given.
LEMMA FoundAsks ==
  ASSUME NEW interfaces, WellFormed(interfaces), NEW c, NEW cf, NEW t, NEW max,
         t.fps \in Fps, Found(c, Scanned(interfaces), cf, t, max) # NoCtrl
  PROVE  \E k, x :
           AsksFor(interfaces, Found(c, Scanned(interfaces), cf, t, max),
                   cf, t, k, x)
<1> DEFINE S == Scanned(interfaces)
           asked == Found(c, S, cf, t, max)
<1>1. /\ asked \in CtrlBlocks
      /\ \E d \in CandidateSet, e \in Entries, v \in Ticks :
           /\ e \in ToSet(AllFrames(S))
           /\ v \in ToSet(Intervals(e.frame, t.fps))
           /\ d = Candidate(e, v) /\ asked = d.asked
           /\ Takes(c, cf, t, max, d)
  BY FoundIs
<1> HIDE DEF asked
<1>2. PICK d \in CandidateSet, e \in Entries, v \in Ticks :
           /\ e \in ToSet(AllFrames(S))
           /\ v \in ToSet(Intervals(e.frame, t.fps))
           /\ d = Candidate(e, v) /\ asked = d.asked
           /\ Takes(c, cf, t, max, d)
  BY <1>1
<1>3. /\ d.format = e.format /\ d.frame = e.frame
      /\ asked.interface = e.interface /\ asked.hint = TRUE
      /\ asked.format = e.format.index /\ asked.frame = e.frame.index
      /\ asked.interval = v
  BY <1>2 DEF Candidate, Ctrl
<1>4. PICK k \in DOMAIN interfaces, x \in Nat \X Nat :
        Stands(interfaces, e, k, x)
  BY <1>2, FramesOfAre DEF AllFrames, TableOf
<1> DEFINE blocks == interfaces[k].blocks
<1>5. /\ x \in Listed(blocks) /\ e.interface = interfaces[k].number
      /\ FromBlock(e.format, blocks[x[1]]) /\ e.frame = FrameDesc(blocks[x[2]])
  BY <1>4 DEF Stands
<1> HIDE DEF blocks
<1>6. /\ e.format.index = blocks[x[1]].index
      /\ e.format.guid = blocks[x[1]].guid
      /\ e.frame.index = blocks[x[2]].index
      /\ e.frame.width = blocks[x[2]].width
      /\ e.frame.height = blocks[x[2]].height
  BY <1>5 DEF FromBlock, FrameDesc
<1>7. Names(interfaces, asked, k, x)
  BY <1>3, <1>5, <1>6 DEF Names, blocks
<1>8. /\ Matches(cf, e.format.guid) /\ e.frame.width = t.width
      /\ e.frame.height = t.height /\ HasRate(e.frame, v, t.fps)
  BY <1>2, <1>3 DEF Takes
<1>9. Rate(v) = t.fps
  <2>1. e.frame \in FrameDescs
    BY DEF Entries
  <2>2. QED
    BY <1>2, <1>8, <2>1, IntervalsAre
<1>10. AsksFor(interfaces, asked, cf, t, k, x)
  BY <1>1, <1>3, <1>6, <1>7, <1>8, <1>9 DEF AsksFor, blocks
<1>11. QED
  BY <1>10 DEF asked

\* Where the descriptors give the size of a frame.
LEMMA SizeFound ==
  ASSUME NEW interfaces, WellFormed(interfaces), NEW cur, NEW k, NEW y,
         Names(interfaces, cur, k, y)
  PROVE  LET d == uvc_find_frame_desc(Scanned(interfaces), cur.format,
                                      cur.frame)
         IN  /\ d # NoFrame /\ d \in Entries
             /\ d.format.index = cur.format /\ d.frame.index = cur.frame
             /\ \E l, z : Stands(interfaces, d, l, z)
<1> DEFINE all == AllFrames(Scanned(interfaces))
           d == uvc_find_frame_desc(Scanned(interfaces), cur.format, cur.frame)
           blocks == interfaces[k].blocks
<1>1. TableOf(interfaces, all, FormatKinds)
  BY FramesOfAre DEF AllFrames
<1>2. d = FindFrame(all, cur.format, cur.frame)
  BY DEF uvc_find_frame_desc
<1>3. /\ k \in DOMAIN interfaces /\ y \in Listed(blocks)
      /\ cur.format = blocks[y[1]].index /\ cur.frame = blocks[y[2]].index
  BY DEF Names
<1> HIDE DEF all, d, blocks
<1>4. blocks[y[1]].subtype \in FormatKinds
  BY <1>3 DEF Listed, Owns, IsFormat
<1>5. PICK e \in ToSet(all) : Stands(interfaces, e, k, y)
  BY <1>1, <1>3, <1>4 DEF TableOf, blocks
<1>6. e.format.index = cur.format /\ e.frame.index = cur.frame
  <2>1. FromBlock(e.format, blocks[y[1]]) /\ e.frame = FrameDesc(blocks[y[2]])
    BY <1>5 DEF Stands, blocks
  <2>2. QED
    BY <1>3, <2>1 DEF FromBlock, FrameDesc
<1>7. all \in Seq(Entries)
  BY <1>1 DEF TableOf
<1>8. /\ d \in ToSet(all) /\ d # NoFrame
      /\ d.format.index = cur.format /\ d.frame.index = cur.frame
  BY <1>2, <1>5, <1>6, <1>7, FindFrameIs
<1>9. d \in Entries /\ \E l, z : Stands(interfaces, d, l, z)
  BY <1>1, <1>7, <1>8 DEF TableOf, ToSet
<1>10. QED
  BY <1>8, <1>9 DEF d

-----------------------------------------------------------------------------
(***************************************************************************)
(* The stream.                                                             *)
(***************************************************************************)

\* The frames that a stream can be opened for.
LEMMA StreamFrameFound ==
  ASSUME NEW interfaces, WellFormed(interfaces), NEW cur, NEW k, NEW y,
         Names(interfaces, cur, k, y)
  PROVE  uvc_find_frame_desc_stream(Scanned(interfaces), cur.interface,
                                    cur.format, cur.frame) # NoFrame
<1> DEFINE one == <<interfaces[k]>>
           all == AllFrames(Scanned(one))
           d == uvc_find_frame_desc_stream(Scanned(interfaces), cur.interface,
                                           cur.format, cur.frame)
           blocks == interfaces[k].blocks
<1>1. /\ k \in DOMAIN interfaces /\ y \in Listed(blocks)
      /\ cur.interface = interfaces[k].number
      /\ cur.format = blocks[y[1]].index /\ cur.frame = blocks[y[2]].index
  BY DEF Names
<1>2. /\ InterfaceOf(Scanned(interfaces), cur.interface)
           = Scanned(interfaces)[k]
      /\ Scanned(one) = <<Scanned(interfaces)[k]>>
      /\ WellFormed(one)
  BY <1>1, ScannedInterface
<1>3. d = FindFrame(all, cur.format, cur.frame)
  BY <1>2 DEF uvc_find_frame_desc_stream
<1>4. TableOf(one, all, FormatKinds)
  BY <1>2, FramesOfAre DEF AllFrames
<1>5. 1 \in DOMAIN one /\ one[1].blocks = blocks
  OBVIOUS
<1> HIDE DEF one, all, d, blocks
<1>6. blocks[y[1]].subtype \in FormatKinds
  BY <1>1 DEF Listed, Owns, IsFormat
<1>7. PICK e \in ToSet(all) : Stands(one, e, 1, y)
  BY <1>1, <1>4, <1>5, <1>6 DEF TableOf
<1>8. e.format.index = cur.format /\ e.frame.index = cur.frame
  <2>1. FromBlock(e.format, blocks[y[1]]) /\ e.frame = FrameDesc(blocks[y[2]])
    BY <1>5, <1>7 DEF Stands
  <2>2. QED
    BY <1>1, <2>1 DEF FromBlock, FrameDesc
<1>9. all \in Seq(Entries)
  BY <1>4 DEF TableOf
<1>10. d # NoFrame
  BY <1>3, <1>7, <1>8, <1>9, FindFrameIs
<1>11. QED
  BY <1>10 DEF d

\* The descriptor that libuvc finds in the interface of a stream is the one of
\* the frame that the control block names.
LEMMA StreamDesc ==
  ASSUME NEW interfaces, WellFormed(interfaces), NEW cur, NEW k, NEW y,
         Names(interfaces, cur, k, y)
  PROVE  LET d == uvc_find_frame_desc_stream(Scanned(interfaces),
                                             cur.interface, cur.format,
                                             cur.frame)
         IN  d # NoFrame /\ Stands(interfaces, d, k, y)
<1> DEFINE d == uvc_find_frame_desc_stream(Scanned(interfaces), cur.interface,
                                           cur.format, cur.frame)
           blocks == interfaces[k].blocks
           g == uvc_find_frame_desc_stream(Scanned(interfaces),
                                           interfaces[k].number, cur.format,
                                           cur.frame)
<1>1. /\ k \in DOMAIN interfaces /\ y \in Listed(blocks)
      /\ cur.interface = interfaces[k].number
      /\ cur.format = blocks[y[1]].index /\ cur.frame = blocks[y[2]].index
  BY DEF Names
<1>2. d = g
  BY <1>1
<1>3. d # NoFrame
  BY StreamFrameFound
<1>4. g # NoFrame =>
        /\ g \in Entries
        /\ g.format.index = cur.format /\ g.frame.index = cur.frame
        /\ \E x : Stands(interfaces, g, k, x)
  <2>1. WellFormed(interfaces) /\ k \in DOMAIN interfaces
    BY <1>1
  <2> HIDE DEF d, blocks
  <2>2. QED
    BY ONLY <2>1, StreamFrame
<1> HIDE DEF d, g
<1>5. PICK x : Stands(interfaces, d, k, x)
  BY <1>2, <1>3, <1>4
<1>6. /\ x \in Listed(blocks) /\ FromBlock(d.format, blocks[x[1]])
      /\ d.frame = FrameDesc(blocks[x[2]])
  BY <1>5 DEF Stands
<1>7. /\ blocks[x[1]].index = blocks[y[1]].index
      /\ blocks[x[2]].index = blocks[y[2]].index
  <2>1. d.format.index = cur.format /\ d.frame.index = cur.frame
    BY <1>2, <1>3, <1>4
  <2> HIDE DEF blocks
  <2>2. QED
    BY <1>1, <1>6, <2>1 DEF FromBlock, FrameDesc
<1>8. x = y
  BY <1>1, <1>6, <1>7 DEF WellFormed
<1>9. QED
  BY <1>3, <1>5, <1>8 DEF d

\* The handle of a stream that started.
Handle(cur, format, alt, packets, bytes) ==
  [interface |-> cur.interface, cur |-> cur, frame_format |-> format,
   alt |-> alt, packets |-> packets, bytes |-> bytes]

\* What uvc_stream_open_ctrl and uvc_stream_start come to, seen by the camera,
\* for a block about the frame y of interface k.
Outcome(c, cur, k, y) ==
  LET interface == c.interfaces[k]
      need == BytesNeeded(interface.blocks[y[2]], cur)
      format == uvc_frame_format_for_guid(interface.blocks[y[1]].guid)
      alt == AltSetting(interface.alts, need)
      bytes == interface.alts[alt]
      packets == PacketsFor(cur.size, bytes)
  IN  IF "COMMIT" \in c.fails \/ format = "UNKNOWN" THEN NoStream
      ELSE IF ~Isochronous(interface)
           THEN Handle(cur, format, 0, 0, cur.payload)
      ELSE IF alt = 0 THEN NoStream
      ELSE IF bytes = 0 THEN Crashed
      ELSE IF (~(bytes >= need) /\ packets = 0) \/ "ALT" \in c.fails
           THEN NoStream
      ELSE Handle(cur, format, alt, packets, packets * bytes)

\* The descriptor that the code finds is that of the frame.
LEMMA OpenedIs ==
  ASSUME NEW c, WellFormed(c.interfaces), NEW cur, NEW k, NEW y,
         Names(c.interfaces, cur, k, y)
  PROVE  Opened(c, Scanned(c.interfaces), cur) = Outcome(c, cur, k, y)
<1> DEFINE S == Scanned(c.interfaces)
           desc == uvc_find_frame_desc_stream(S, cur.interface,
                                              cur.format, cur.frame)
           this == c.interfaces[k]
           blocks == this.blocks
           need == BytesNeeded(blocks[y[2]], cur)
           format == uvc_frame_format_for_guid(blocks[y[1]].guid)
           alt == AltSetting(this.alts, need)
           packets == PacketsFor(cur.size, this.alts[alt])
<1>1. /\ k \in DOMAIN c.interfaces /\ y \in Listed(blocks)
      /\ cur.interface = this.number
  BY DEF Names
<1>2. desc # NoFrame /\ Stands(c.interfaces, desc, k, y)
  BY StreamDesc
<1>3. InterfaceOf(S, cur.interface) = S[k] /\ S[k].alts = this.alts
  <2>1. InterfaceOf(S, this.number) = S[k]
    BY <1>1, ScannedInterface
  <2>2. ScannedAs(c.interfaces, k)
    BY <1>1, ScannedIs
  <2>3. S[k].alts = this.alts
    BY <2>2 DEF ScannedAs
  <2> HIDE DEF S, this
  <2>4. QED
    BY <1>1, <2>1, <2>3
<1>4. /\ uvc_frame_format_for_guid(desc.format.guid) = format
      /\ BytesNeeded(desc.frame, cur) = need
  <2>1. /\ FromBlock(desc.format, blocks[y[1]])
        /\ desc.frame = FrameDesc(blocks[y[2]])
    BY <1>2 DEF Stands
  <2> HIDE DEF desc, blocks
  <2>2. /\ desc.format.guid = blocks[y[1]].guid
        /\ desc.frame.width = blocks[y[2]].width
        /\ desc.frame.height = blocks[y[2]].height
    BY <2>1 DEF FromBlock, FrameDesc
  <2>3. QED
    BY <2>2 DEF BytesNeeded, Estimate
<1>5. Isochronous(S[k]) = Isochronous(this)
  BY <1>3 DEF Isochronous
<1>6. Opened(c, S, cur)
        = IF "COMMIT" \in c.fails \/ format = "UNKNOWN" THEN NoStream
          ELSE IF ~Isochronous(this)
               THEN Handle(cur, format, 0, 0, cur.payload)
          ELSE IF alt = 0 THEN NoStream
          ELSE IF this.alts[alt] = 0 THEN Crashed
          ELSE IF (~(this.alts[alt] >= need) /\ packets = 0)
                    \/ "ALT" \in c.fails
               THEN NoStream
          ELSE Handle(cur, format, alt, packets, packets * this.alts[alt])
  <2> HIDE DEF blocks
  <2>1. QED
    BY <1>2, <1>3, <1>4, <1>5, ZenonT(60) DEF Opened, Handle
<1>7. QED
  BY <1>6 DEF Outcome

\* A stream that runs.
Opens(c, cur, k, y, h) ==
  LET interface == c.interfaces[k]
      need == BytesNeeded(interface.blocks[y[2]], cur)
      format == uvc_frame_format_for_guid(interface.blocks[y[1]].guid)
      alt == AltSetting(interface.alts, need)
      packets == PacketsFor(cur.size, interface.alts[alt])
  IN  /\ h.cur = cur /\ h.interface = cur.interface
      /\ h.frame_format = format /\ format # "UNKNOWN"
      /\ ~Isochronous(interface) => h.bytes = cur.payload
      /\ Isochronous(interface) =>
           /\ h.alt = alt /\ alt # 0 /\ interface.alts[alt] # 0
           /\ h.packets = packets /\ h.bytes = packets * interface.alts[alt]

\* What its handle says.
LEMMA OpensIs ==
  ASSUME NEW c, WellFormed(c.interfaces), NEW cur, NEW k, NEW y,
         Names(c.interfaces, cur, k, y),
         Opened(c, Scanned(c.interfaces), cur) \notin {NoStream, Crashed}
  PROVE  Opens(c, cur, k, y, Opened(c, Scanned(c.interfaces), cur))
<1> DEFINE h == Opened(c, Scanned(c.interfaces), cur)
           this == c.interfaces[k]
           need == BytesNeeded(this.blocks[y[2]], cur)
           format == uvc_frame_format_for_guid(this.blocks[y[1]].guid)
           alt == AltSetting(this.alts, need)
           bytes == this.alts[alt]
           packets == PacketsFor(cur.size, bytes)
<1>1. h = IF "COMMIT" \in c.fails \/ format = "UNKNOWN" THEN NoStream
          ELSE IF ~Isochronous(this)
               THEN Handle(cur, format, 0, 0, cur.payload)
          ELSE IF alt = 0 THEN NoStream
          ELSE IF bytes = 0 THEN Crashed
          ELSE IF (~(bytes >= need) /\ packets = 0) \/ "ALT" \in c.fails
               THEN NoStream
          ELSE Handle(cur, format, alt, packets, packets * bytes)
  BY OpenedIs DEF Outcome
<1>2. \A a, p, b : LET r == Handle(cur, format, a, p, b) IN
        /\ r.cur = cur /\ r.interface = cur.interface
        /\ r.frame_format = format
        /\ r.alt = a /\ r.packets = p /\ r.bytes = b
  <2> HIDE DEF format
  <2>1. QED
    BY DEF Handle
<1> DEFINE size == packets * bytes
<1> HIDE DEF h, this, need, format, alt, bytes, packets, size
<1>3. /\ format # "UNKNOWN"
      /\ ~Isochronous(this) => h = Handle(cur, format, 0, 0, cur.payload)
      /\ Isochronous(this) =>
           /\ h = Handle(cur, format, alt, packets, size)
           /\ alt # 0 /\ bytes # 0
  BY <1>1 DEF h, size
<1>4. /\ h.cur = cur /\ h.interface = cur.interface
      /\ h.frame_format = format
      /\ ~Isochronous(this) => h.bytes = cur.payload
      /\ Isochronous(this) =>
           h.alt = alt /\ h.packets = packets /\ h.bytes = size
  <2>1. CASE ~Isochronous(this)
    BY <1>2, <1>3, <2>1
  <2>2. CASE Isochronous(this)
    <3>1. h = Handle(cur, format, alt, packets, size)
      BY <1>3, <2>2
    <3>2. QED
      BY <1>2, <2>2, <3>1
  <2>3. QED
    BY <2>1, <2>2
<1>5. Opens(c, cur, k, y, h)
  BY <1>3, <1>4, Zenon
  DEF Opens, this, need, format, alt, bytes, packets, size
<1>6. QED
  BY <1>5 DEF h

-----------------------------------------------------------------------------
(***************************************************************************)
(* What TryFormat obtains.                                                 *)
(***************************************************************************)

\* A control block is about what the script chose.
AsAsked(c, t, build, cur) ==
  LET m == Meant(c, cur.interface, cur.format, cur.frame) IN
  /\ m.frame.width = t.width /\ m.frame.height = t.height
  /\ cur.hint => Rate(cur.interval) = t.fps
  /\ m.format.guid = "MJPG" => t.iscomp /\ build
  /\ \E cf : Matches(cf, m.format.guid)

\* The size of its frames is the camera's, or the one of a descriptor.
Sized(c, cur) ==
  LET d == uvc_find_frame_desc(Scanned(c.interfaces), cur.format, cur.frame)
  IN  IF c.size = "given" THEN cur.size \in Nat \ {0}
      ELSE cur.size = d.frame.size

\* What TryFormat leaves in the control block.
Obtained(c, t, build, cur) ==
  /\ cur \in CtrlBlocks
  /\ \E k, y : Names(c.interfaces, cur, k, y)
  /\ cur.payload \in {Unlimited, c.payload}
  /\ Sized(c, cur)
  /\ c.obeys => AsAsked(c, t, build, cur)

\* The assumptions, for the camera of the behaviour.
LEMMA CameraIs ==
  ASSUME cam \in Cameras
  PROVE  /\ WellFormed(cam.interfaces) /\ cam.obeys \in BOOLEAN
         /\ cam.payload \in Nat
         /\ cam.size \in {"given", "zero", "unset"}
BY CamerasAssumption, AnswersAssumption

\* The sequence s with first in front of it.
Behind(c, first, s) ==
  /\ Len(c) = 1 + Len(s) /\ c[1] = first
  /\ \A i \in 1..Len(s) : c[i + 1] = s[i]

\* That is what concatenation does.
LEMMA BehindIs ==
  ASSUME NEW T, NEW f \in Seq(T), NEW s \in Seq(T)
  PROVE  Len(f) = 1 => Behind(f \o s, f[1], s)
<1> DEFINE c == f \o s
           m == Len(f)
           n == Len(s)
<1>1. /\ m \in Nat /\ n \in Nat /\ c \in Seq(T) /\ DOMAIN c = 1..(m + n)
      /\ \A i \in 1..m : c[i] = f[i]
      /\ \A i \in (m + 1)..(m + n) : c[i] = s[i - m]
  OBVIOUS
<1> HIDE DEF c, m, n
<1>2. SUFFICES ASSUME m = 1 PROVE Behind(c, f[1], s)
  BY DEF c, m
<1>3. /\ 1 \in 1..m
      /\ \A i \in 1..n : i + 1 \in (m + 1)..(m + n) /\ (i + 1) - m = i
  BY <1>1, <1>2
<1>4. Len(c) = 1 + n
  BY <1>1, <1>2
<1>5. QED
  BY <1>1, <1>3, <1>4 DEF Behind, c, n

\* MJPEG is tried only for an entry that is compressed, in a build with JPEG:
\* it is the first of the formats, if it is one at all.
LEMMA FormatIs ==
  ASSUME jpeg \in BOOLEAN, tried \in Nat, tried < Len(tryfmts), ~Skips,
         Matches(Format.fmt, "MJPG")
  PROVE  tuvc.iscomp /\ jpeg
<1>1. Format.fmt = "MJPEG"
  BY DEF Matches, Guid
<1> DEFINE rest == <<Try("YUYV", FALSE), Try("UYVY", FALSE),
                     Try("GRAY16", FALSE), Try("GRAY8", FALSE),
                     Try("RGB", FALSE)>>
<1>2. \A i \in 1..5 : rest[i].fmt # "MJPEG"
  BY DEF Try
<1> DEFINE T == {Try("MJPEG", TRUE), Try("YUYV", FALSE), Try("UYVY", FALSE),
                 Try("GRAY16", FALSE), Try("GRAY8", FALSE), Try("RGB", FALSE)}
<1>3. Len(rest) = 5 /\ rest \in Seq(T) /\ DOMAIN rest = 1..5
  OBVIOUS
<1>4. CASE jpeg
  <2> DEFINE first == <<Try("MJPEG", TRUE)>>
  <2>1. tryfmts = first \o rest
    BY <1>4 DEF tryfmts
  <2>2. first \in Seq(T) /\ Len(first) = 1 /\ first[1] = Try("MJPEG", TRUE)
    OBVIOUS
  <2> HIDE DEF rest, T, first
  <2>3. Behind(first \o rest, first[1], rest)
    BY <1>3, <2>2, BehindIs
  <2>4. tried + 1 = 1
    <3>1. tried \in 1..5 => Format = rest[tried]
      BY <1>3, <2>1, <2>3 DEF Behind, Format
    <3>2. tried \notin 1..5
      BY <1>1, <1>2, <3>1
    <3>3. tried < 6
      BY <1>3, <2>1, <2>3 DEF Behind
    <3>4. QED
      BY <3>2, <3>3
  <2>5. Format = Try("MJPEG", TRUE)
    BY <2>1, <2>2, <2>3, <2>4 DEF Behind, Format
  <2>6. Format.iscomp
    BY <2>5 DEF Try
  <2>7. QED
    BY <1>4, <2>6 DEF Skips
<1>5. CASE ~jpeg
  <2>1. tryfmts = rest
    <3>1. tryfmts = <<>> \o rest
      BY <1>5 DEF tryfmts
    <3> HIDE DEF rest, T
    <3>2. QED
      BY <1>3, <3>1
  <2>2. tried + 1 \in 1..5
    BY <1>3, <2>1
  <2>3. QED
    BY <1>1, <1>2, <2>1, <2>2 DEF Format
<1>6. QED
  BY <1>4, <1>5

\* The block that TryFormat leaves, after the search, the answer of the camera
\* and the size from the descriptors.
LEMMA Obtains ==
  ASSUME NEW c, WellFormed(c.interfaces), c.obeys \in BOOLEAN,
         c.payload \in Nat, c.size \in {"given", "zero", "unset"},
         NEW cf, NEW t, t.fps \in Fps, NEW max, NEW build,
         Found(c, Scanned(c.interfaces), cf, t, max) # NoCtrl,
         NEW p \in Probes(c, Found(c, Scanned(c.interfaces), cf, t, max)),
         Matches(cf, "MJPG") => t.iscomp /\ build
  PROVE  Obtained(c, t, build, FixUp(Scanned(c.interfaces), Accepts(c, p)))
<1> DEFINE S == Scanned(c.interfaces)
           asked == Found(c, S, cf, t, max)
           a == Accepts(c, p)
           cur == FixUp(S, a)
<1>1. PICK k, x : AsksFor(c.interfaces, asked, cf, t, k, x)
  BY FoundAsks
<1>2. /\ asked \in CtrlBlocks /\ Names(c.interfaces, asked, k, x)
      /\ asked.hint /\ Rate(asked.interval) = t.fps
  BY <1>1 DEF AsksFor
<1> DEFINE blocks == c.interfaces[k].blocks
<1>3. /\ blocks[x[2]].width = t.width /\ blocks[x[2]].height = t.height
      /\ Matches(cf, blocks[x[1]].guid)
  BY <1>1 DEF AsksFor
<1> HIDE DEF asked
<1>4. /\ p \in CtrlBlocks /\ Names(c.interfaces, p, k, x)
      /\ p.interval = asked.interval
  <2>1. p = asked \/ p = [asked EXCEPT !.hint = FALSE]
    BY DEF Probes, asked
  <2>2. /\ p \in CtrlBlocks /\ p.interval = asked.interval
        /\ p.interface = asked.interface /\ p.format = asked.format
        /\ p.frame = asked.frame
    BY <1>2, <2>1 DEF CtrlBlocks
  <2>3. QED
    BY <1>2, <2>2 DEF Names
<1>5. Answer(c, p, k, x, a)
  BY <1>4, AcceptsIs
<1> HIDE DEF a, blocks
<1>6. PICK y :
        /\ a \in CtrlBlocks
        /\ Names(c.interfaces, a, k, y)
        /\ a.payload \in {Unlimited, c.payload}
        /\ a.size = IF c.size = "given" THEN blocks[y[2]].size
                    ELSE IF c.size = "zero" THEN 0 ELSE Unset
        /\ c.obeys => y = x /\ (a.hint => a.interval = p.interval)
  BY <1>5 DEF Answer, blocks
<1> DEFINE d == uvc_find_frame_desc(S, a.format, a.frame)
<1>7. d # NoFrame /\ d \in Entries
  BY <1>6, SizeFound
<1>8. cur = IF a.size \in {0, Unset}
            THEN [a EXCEPT !.size = d.frame.size] ELSE a
  BY <1>7 DEF FixUp
<1> HIDE DEF d, S
<1>9. d.frame.size \in Nat
  BY <1>7 DEF Entries, FrameDescs
<1>10. blocks[y[2]].size \in Nat \ {0}
  <2>1. k \in DOMAIN c.interfaces /\ y \in Listed(blocks)
    BY <1>6 DEF Names, blocks
  <2>2. blocks[y[2]] \in FrameBlocks
    BY <2>1, ListedBlocks DEF blocks
  <2>3. QED
    BY <2>2 DEF FrameBlocks
<1> HIDE DEF cur
<1>11. /\ cur \in CtrlBlocks
       /\ cur.interface = a.interface /\ cur.format = a.format
       /\ cur.frame = a.frame /\ cur.hint = a.hint
       /\ cur.interval = a.interval /\ cur.payload = a.payload
       /\ cur.size = IF a.size \in {0, Unset} THEN d.frame.size ELSE a.size
  BY <1>6, <1>8, <1>9 DEF CtrlBlocks
<1>12. Sized(c, cur)
  <2>1. CASE c.size = "given"
    <3>1. a.size = blocks[y[2]].size /\ a.size # 0 /\ a.size # Unset
      BY <1>6, <1>10, <2>1 DEF Unset
    <3>2. cur.size = a.size
      BY <1>11, <3>1
    <3>3. QED
      BY <1>10, <2>1, <3>1, <3>2 DEF Sized
  <2>2. CASE c.size # "given"
    <3>1. a.size \in {0, Unset}
      BY <1>6, <2>2
    <3>2. cur.size = d.frame.size
      BY <1>11, <3>1
    <3>3. QED
      BY <1>11, <2>2, <3>2 DEF Sized, d, S
  <2>3. QED
    BY <2>1, <2>2
<1>13. Names(c.interfaces, cur, k, y)
  BY <1>6, <1>11 DEF Names
<1>14. ASSUME c.obeys
       PROVE  AsAsked(c, t, build, cur)
  <2>1. MeansIn(c, cur, k, y)
    BY <1>13, MeantBlocks
  <2>2. Meant(c, cur.interface, cur.format, cur.frame)
          = [format |-> blocks[x[1]], frame |-> blocks[x[2]]]
    BY <1>6, <1>14, <2>1 DEF MeansIn, blocks
  <2>3. cur.hint => Rate(cur.interval) = t.fps
    BY <1>2, <1>4, <1>6, <1>11, <1>14
  <2>4. QED
    BY <1>3, <2>2, <2>3 DEF AsAsked
<1>15. QED
  BY <1>6, <1>11, <1>12, <1>13, <1>14 DEF Obtained, cur, a, S

-----------------------------------------------------------------------------
(***************************************************************************)
(* The invariant.                                                          *)
(***************************************************************************)

\* What the steps keep: the descriptors are those of the camera, the rate is
\* one of an interval, and the control block is what TryFormat obtained, from
\* the time it returns to the end of the stream.
NegotiateInv ==
  /\ cam \in Cameras /\ jpeg \in BOOLEAN /\ tried \in Nat
  /\ tuvc.fps \in Fps
  /\ info = IF pc = "closed" THEN <<>> ELSE Scanned(cam.interfaces)
  /\ pc = "negotiated" => Obtained(cam, tuvc, jpeg, ctrl)
  /\ pc = "running" =>
       /\ strmh \notin {NoStream, Crashed}
       /\ strmh = Opened(cam, Scanned(cam.interfaces), strmh.cur)
       /\ Obtained(cam, tuvc, jpeg, strmh.cur)

\* The rate that CMD_open sets is the one of an interval.
LEMMA DefaultRate == 30 \in Fps
<1> DEFINE n == TicksPerSecond
           q == n \div 30
           r == n \div q
<1>1. n \in Nat /\ n > 1000
  BY SMT DEF TicksPerSecond
<1> HIDE DEF n
<1>2. q \in Nat /\ \A m \in Nat : m <= q <=> m * 30 <= n
  BY <1>1, Quotient
<1> HIDE DEF q
<1>3. q * 30 <= n /\ n < (q + 1) * 30
  BY <1>1, <1>2
<1>4. q \in Nat \ {0} /\ 30 * q <= n /\ n < 31 * q /\ q <= n
  <2>1. q > 30
    BY <1>1, <1>2, <1>3
  <2>2. QED
    BY <1>1, <1>2, <1>3, <2>1
<1>5. r \in Nat /\ \A m \in Nat : m <= r <=> m * q <= n
  BY <1>1, <1>4, Quotient
<1> HIDE DEF r
<1>6. r = 30
  <2>1. 30 <= r <=> 30 * q <= n
    BY <1>5
  <2>2. 31 <= r <=> 31 * q <= n
    BY <1>5
  <2>3. r \in Nat /\ q \in Nat /\ n \in Nat
    BY <1>1, <1>4, <1>5
  <2>4. QED
    BY <1>4, <2>1, <2>2, <2>3
<1>7. q \in Ticks /\ Rate(q) = r
  BY <1>1, <1>4 DEF Ticks, Rate, n, r
<1>8. QED
  BY <1>6, <1>7 DEF Fps

\* The rate of an entry of the table.
LEMMA SettingsRate ==
  ASSUME NEW e \in Entries, NEW index
  PROVE  Settings(index, e).fps \in Fps
<1>1. e.frame.default \in Ticks
  BY DEF Entries, FrameDescs
<1>2. QED
  BY <1>1 DEF Settings, Fps

\* The rate that "uvc format" chooses is one of the list.
LEMMA FrameRateIs ==
  ASSUME NEW frame \in FrameDescs, NEW fps
  PROVE  LET rates == [k \in DOMAIN frame.intervals |->
                         Rate(frame.intervals[k])]
         IN  rates # <<>> =>
               /\ FrameRate(rates, fps) \in Fps
               /\ \E v \in ToSet(frame.intervals) :
                    FrameRate(rates, fps) = Rate(v)
<1> DEFINE intervals == frame.intervals
           rates == [k \in DOMAIN intervals |-> Rate(intervals[k])]
           low == {k \in DOMAIN rates : rates[k] <= fps}
           n == Len(intervals)
<1>1. intervals \in Seq(Ticks)
  BY DEF FrameDescs
<1> HIDE DEF intervals
<1>2. n \in Nat /\ DOMAIN intervals = 1..n
  BY <1>1
<1>3. \A k \in 1..n : Rate(intervals[k]) \in Fps
  BY <1>1 DEF Fps
<1> HIDE DEF n
<1>4. /\ DOMAIN rates = 1..n /\ \A k \in 1..n : rates[k] \in Fps
      /\ rates = [k \in 1..n |-> Rate(intervals[k])]
  BY <1>2, <1>3
<1>5. rates \in Seq(Fps) /\ Len(rates) = n
  BY <1>2, <1>3
<1>6. ASSUME rates # <<>>
      PROVE  \E k \in 1..n : FrameRate(rates, fps) = rates[k]
  <2>1. n \in DOMAIN rates
    <3> HIDE DEF rates
    <3>1. n # 0
      BY <1>5, <1>6
    <3>2. QED
      BY <1>2, <1>4, <3>1
  <2>2. low # {} => Least(low) \in DOMAIN rates
    <3>1. low \in SUBSET Nat /\ low \subseteq DOMAIN rates
      BY <1>4
    <3> HIDE DEF low, rates
    <3>2. QED
      BY <3>1, LeastIs
  <2> HIDE DEF low, rates
  <2>3. QED
    BY <1>4, <1>5, <2>1, <2>2 DEF FrameRate, low
<1>7. ASSUME rates # <<>>
      PROVE  /\ FrameRate(rates, fps) \in Fps
             /\ \E v \in ToSet(intervals) : FrameRate(rates, fps) = Rate(v)
  <2>1. PICK k \in 1..n : FrameRate(rates, fps) = rates[k]
    BY <1>6, <1>7
  <2>2. rates[k] = Rate(intervals[k]) /\ rates[k] \in Fps
    BY <1>4
  <2>3. intervals[k] \in ToSet(intervals)
    BY <1>2 DEF ToSet
  <2> HIDE DEF rates
  <2>4. QED
    BY <2>1, <2>2, <2>3
<1>8. QED
  BY <1>7 DEF intervals

\* A device that is closed.
LEMMA NegotiateInit == Init => NegotiateInv
<1>1. Init => tuvc.fps = 30
  BY DEF Init, Defaults
<1>2. QED
  BY <1>1, DefaultRate, BuildsAssumption DEF Init, NegotiateInv

\* uvc_open parses the descriptors and takes the first entry of the table.
LEMMA NegotiateOpen ==
  ASSUME NegotiateInv, OpenDevice
  PROVE  NegotiateInv'
<1>1. /\ cam' = cam /\ jpeg' = jpeg /\ tried' = tried /\ pc' = "idle"
      /\ info' = Scanned(cam.interfaces)
  BY DEF OpenDevice, Scanned
<1>2. tuvc'.fps \in Fps
  <2>1. tuvc' = IF FormatTable(info') = <<>> THEN Defaults
                ELSE Settings(0, FormatTable(info')[1])
    BY DEF OpenDevice
  <2>2. CASE FormatTable(info') = <<>>
    BY <2>1, <2>2, DefaultRate DEF Defaults
  <2>3. CASE FormatTable(info') # <<>>
    <3> DEFINE f == FormatTable(info')
    <3>1. f \in Seq(Entries)
      <4>1. WellFormed(cam.interfaces)
        BY CameraIs DEF NegotiateInv
      <4>2. QED
        BY <1>1, <4>1, FormatTableIs
    <3> HIDE DEF f
    <3>2. f # <<>> => f[1] \in Entries
      BY <3>1
    <3>3. QED
      BY <2>1, <2>3, <3>2, SettingsRate DEF f
  <2>4. QED
    BY <2>2, <2>3
<1>3. QED
  BY <1>1, <1>2 DEF NegotiateInv

\* "uvc format" takes the settings of an entry.
LEMMA NegotiateFormat ==
  ASSUME NegotiateInv, NEW index, NEW fps, CMD_format(index, fps)
  PROVE  NegotiateInv'
<1>1. /\ cam' = cam /\ jpeg' = jpeg /\ tried' = tried /\ info' = info
      /\ pc = "idle" /\ pc' = "idle"
  BY DEF CMD_format
<1> DEFINE entry == fmts[index + 1]
           rates == [k \in DOMAIN entry.frame.intervals |->
                       Rate(entry.frame.intervals[k])]
<1>2. entry \in Entries
  <2>1. WellFormed(cam.interfaces) /\ info = Scanned(cam.interfaces)
    BY <1>1, CameraIs DEF NegotiateInv
  <2>2. fmts \in Seq(Entries)
    BY <2>1, FormatTableIs DEF fmts
  <2>3. index + 1 \in DOMAIN fmts
    BY DEF CMD_format
  <2>4. QED
    BY <2>2, <2>3
<1>3. tuvc' = IF fps > 0 /\ rates # <<>>
              THEN [Settings(index, entry) EXCEPT
                      !.fps = FrameRate(rates, fps)]
              ELSE Settings(index, entry)
  BY DEF CMD_format
<1>4. rates # <<>> => FrameRate(rates, fps) \in Fps
  <2>1. entry.frame \in FrameDescs
    BY <1>2 DEF Entries
  <2> HIDE DEF entry
  <2>2. QED
    BY <2>1, FrameRateIs
<1>5. Settings(index, entry).fps \in Fps
  BY <1>2, SettingsRate
<1> HIDE DEF rates, entry
<1>6. tuvc'.fps \in Fps
  <2>1. CASE fps > 0 /\ rates # <<>>
    BY <1>3, <1>4, <2>1 DEF Settings
  <2>2. CASE ~(fps > 0 /\ rates # <<>>)
    BY <1>3, <1>5, <2>2
  <2>3. QED
    BY <2>1, <2>2
<1>7. QED
  BY <1>1, <1>6 DEF NegotiateInv

\* One format of the loop of StartCapture: it is here that the control block
\* is obtained.
LEMMA NegotiateTry ==
  ASSUME NegotiateInv, TryFormat
  PROVE  NegotiateInv'
<1>1. /\ cam' = cam /\ jpeg' = jpeg /\ info' = info /\ tuvc' = tuvc
      /\ pc = "trying" /\ ~Skips /\ tried < Len(tryfmts)
  BY DEF TryFormat
<1>2. PICK max :
        LET asked == Found(cam, info, Format.fmt, tuvc, max)
            sent  == IF asked = NoCtrl THEN {} ELSE Probes(cam, asked)
        IN  \/ /\ \E p \in sent : ctrl' = FixUp(info, Accepts(cam, p))
               /\ pc' = "negotiated"
               /\ UNCHANGED tried
            \/ /\ sent = {}
               /\ tried' = AfterFailure(tried)
               /\ UNCHANGED <<ctrl, pc>>
  BY DEF TryFormat
<1> DEFINE asked == Found(cam, info, Format.fmt, tuvc, max)
           sent  == IF asked = NoCtrl THEN {} ELSE Probes(cam, asked)
<1>3. /\ cam \in Cameras /\ jpeg \in BOOLEAN /\ tried \in Nat
      /\ tuvc.fps \in Fps /\ info = Scanned(cam.interfaces)
  BY <1>1 DEF NegotiateInv
<1>4. CASE /\ \E p \in sent : ctrl' = FixUp(info, Accepts(cam, p))
           /\ pc' = "negotiated"
           /\ UNCHANGED tried
  <2>1. PICK p \in sent : ctrl' = FixUp(info, Accepts(cam, p))
    BY <1>4
  <2>2. asked # NoCtrl /\ p \in Probes(cam, asked)
    BY <2>1
  <2>3. Matches(Format.fmt, "MJPG") => tuvc.iscomp /\ jpeg
    BY <1>1, <1>3, FormatIs
  <2>4. Obtained(cam, tuvc, jpeg, FixUp(info, Accepts(cam, p)))
    BY <1>3, <2>2, <2>3, CameraIs, Obtains
  <2>5. QED
    BY <1>1, <1>3, <1>4, <2>1, <2>4 DEF NegotiateInv
<1>5. CASE /\ sent = {}
           /\ tried' = AfterFailure(tried)
           /\ UNCHANGED <<ctrl, pc>>
  BY <1>1, <1>3, <1>5 DEF NegotiateInv, AfterFailure
<1>6. QED
  BY <1>2, <1>4, <1>5

\* The block is committed, and kept in the handle of the stream.
LEMMA NegotiateStart ==
  ASSUME NegotiateInv, StartStreaming
  PROVE  NegotiateInv'
<1>1. /\ cam' = cam /\ jpeg' = jpeg /\ info' = info /\ tuvc' = tuvc
      /\ pc = "negotiated" /\ tried' = 0
      /\ strmh' = Opened(cam, info, ctrl)
      /\ \/ pc' \in {"idle", "crashed"}
         \/ pc' = "running" /\ strmh' \notin {NoStream, Crashed}
  BY DEF StartStreaming
<1>2. /\ cam \in Cameras /\ jpeg \in BOOLEAN /\ tuvc.fps \in Fps
      /\ info = Scanned(cam.interfaces) /\ Obtained(cam, tuvc, jpeg, ctrl)
  BY <1>1 DEF NegotiateInv
<1>3. CASE pc' \in {"idle", "crashed"}
  BY <1>1, <1>2, <1>3 DEF NegotiateInv
<1>4. CASE pc' = "running" /\ strmh' \notin {NoStream, Crashed}
  <2>1. PICK k, y : Names(cam.interfaces, ctrl, k, y)
    BY <1>2 DEF Obtained
  <2>2. Opens(cam, ctrl, k, y, strmh')
    BY <1>1, <1>2, <1>4, <2>1, CameraIs, OpensIs
  <2>3. strmh'.cur = ctrl
    BY <2>2 DEF Opens
  <2>4. QED
    BY <1>1, <1>2, <1>4, <2>3 DEF NegotiateInv
<1>5. QED
  BY <1>1, <1>3, <1>4

\* The other steps leave what the invariant is about.
LEMMA NegotiateOther ==
  ASSUME NegotiateInv,
         \/ StartCapture \/ SkipFormat \/ NoFormat \/ StopCapture
         \/ UNCHANGED vars
  PROVE  NegotiateInv'
<1>1. CASE StartCapture
  BY <1>1 DEF NegotiateInv, StartCapture
<1>2. CASE SkipFormat
  BY <1>2 DEF NegotiateInv, SkipFormat
<1>3. CASE NoFormat
  BY <1>3 DEF NegotiateInv, NoFormat
<1>4. CASE StopCapture
  BY <1>4 DEF NegotiateInv, StopCapture
<1>5. CASE UNCHANGED vars
  BY <1>5 DEF NegotiateInv, vars
<1>6. QED
  BY <1>1, <1>2, <1>3, <1>4, <1>5

\* Every step keeps the invariant.
LEMMA NegotiateNext == NegotiateInv /\ [Next]_vars => NegotiateInv'
<1> SUFFICES ASSUME NegotiateInv, [Next]_vars
             PROVE  NegotiateInv'
  OBVIOUS
<1>1. CASE OpenDevice
  BY <1>1, NegotiateOpen
<1>2. ASSUME NEW index, NEW fps, CMD_format(index, fps)
      PROVE  NegotiateInv'
  BY <1>2, NegotiateFormat
<1>3. CASE TryFormat
  BY <1>3, NegotiateTry
<1>4. CASE StartStreaming
  BY <1>4, NegotiateStart
<1>5. CASE \/ StartCapture \/ SkipFormat \/ NoFormat \/ StopCapture
           \/ UNCHANGED vars
  BY <1>5, NegotiateOther
<1>6. QED
  BY <1>1, <1>2, <1>3, <1>4, <1>5 DEF Next

\* NegotiateInv is an invariant.
THEOREM NegotiateInvariant == Spec => []NegotiateInv
<1>1. Init => NegotiateInv
  BY NegotiateInit
<1>2. NegotiateInv /\ [Next]_vars => NegotiateInv'
  BY NegotiateNext
<1>3. QED
  BY <1>1, <1>2, PTL DEF Spec

-----------------------------------------------------------------------------
(***************************************************************************)
(* The properties of the runs.                                             *)
(***************************************************************************)

\* The indices of "uvc listformats" name the frames of the camera, each once,
\* with the uncompressed ones first (tcluvc.c:2590).
THEOREM TableIsTrue == Spec => []TableNamesFrames
<1>1. NegotiateInv => TableNamesFrames
  <2> SUFFICES ASSUME NegotiateInv, info # <<>>
               PROVE  TableNamesFrames
    BY DEF TableNamesFrames
  <2>1. cam \in Cameras /\ info = Scanned(cam.interfaces)
    BY DEF NegotiateInv
  <2>2. WellFormed(cam.interfaces)
    BY <2>1, CameraIs
  <2>3. Tabled(cam.interfaces, fmts)
    BY <2>1, <2>2, FormatTableIs DEF fmts
  <2>4. ASSUME NEW e, NEW k, NEW x, Stands(cam.interfaces, e, k, x)
        PROVE  LET m == Meant(cam, e.interface, e.format.index, e.frame.index)
               IN  /\ m.frame.width = e.frame.width
                   /\ m.frame.height = e.frame.height
                   /\ m.format.guid = e.format.guid
    <3> DEFINE m == Meant(cam, e.interface, e.format.index, e.frame.index)
    <3>1. /\ m.frame.width = e.frame.width /\ m.frame.height = e.frame.height
          /\ m.format.guid = e.format.guid
      BY <2>2, <2>4, MeantAgrees
    <3>2. QED
      BY <3>1
  <2>5. \A i, j \in DOMAIN fmts :
          /\ i # j => fmts[i] # fmts[j]
          /\ i < j /\ fmts[i].format.subtype = "FORMAT_MJPEG" =>
               fmts[j].format.subtype = "FORMAT_MJPEG"
    BY <2>3 DEF Tabled
  <2>6. QED
    BY <2>3, <2>4, <2>5 DEF TableNamesFrames, Tabled
<1>2. QED
  BY <1>1, NegotiateInvariant, PTL

\* A stream is committed to the size, the rate and the kind of format that the
\* script chose, if the camera cooperates, and its frames are converted by the
\* format that the camera sends, however it answers (tcluvc.c:2194).
THEOREM ChosenFramesArrive == Spec => []FramesAsChosen
<1>1. NegotiateInv => FramesAsChosen
  <2> SUFFICES ASSUME NegotiateInv, pc = "running"
               PROVE  FramesAsChosen
    BY DEF FramesAsChosen, StartedAsAsked, DecodedAsSent
  <2>1. /\ cam \in Cameras
        /\ strmh \notin {NoStream, Crashed}
        /\ strmh = Opened(cam, Scanned(cam.interfaces), strmh.cur)
        /\ Obtained(cam, tuvc, jpeg, strmh.cur)
    BY DEF NegotiateInv
  <2> DEFINE cur == strmh.cur
  <2>2. PICK k, y : Names(cam.interfaces, cur, k, y)
    BY <2>1 DEF Obtained
  <2>3. WellFormed(cam.interfaces)
    BY <2>1, CameraIs
  <2>4. StartedAsAsked
    <3>1. cam.obeys => AsAsked(cam, tuvc, jpeg, cur)
      BY <2>1 DEF Obtained
    <3>2. QED
      BY <3>1 DEF StartedAsAsked, Cooperates, Sent, AsAsked
  <2>5. DecodedAsSent
    <3> DEFINE blocks == cam.interfaces[k].blocks
    <3>1. Opens(cam, cur, k, y, strmh)
      BY <2>1, <2>2, <2>3, OpensIs
    <3>2. strmh.frame_format = uvc_frame_format_for_guid(blocks[y[1]].guid)
      BY <3>1 DEF Opens
    <3>3. Sent.format = blocks[y[1]]
      <4>1. MeansIn(cam, cur, k, y)
        BY <2>2, <2>3, MeantBlocks
      <4>2. QED
        BY <4>1 DEF MeansIn, Sent
    <3>4. QED
      BY <3>2, <3>3 DEF DecodedAsSent
  <2>6. QED
    BY <2>4, <2>5 DEF FramesAsChosen
<1>2. QED
  BY <1>1, NegotiateInvariant, PTL

-----------------------------------------------------------------------------
(***************************************************************************)
(* The transfers.                                                          *)
(***************************************************************************)

\* The alternate setting that is chosen is large enough or the largest, and
\* holds a packet if something is needed.
LEMMA AltIs ==
  ASSUME NEW alts \in Seq(Nat), NEW need \in Nat
  PROVE  LET alt == AltSetting(alts, need) IN
         alt # 0 =>
           /\ alt \in DOMAIN alts /\ alts[alt] \in Nat
           /\ need # 0 => alts[alt] # 0
           /\ \/ alts[alt] >= need
              \/ \A m \in DOMAIN alts : alts[m] <= alts[alt]
<1> DEFINE alt == AltSetting(alts, need)
           enough == {k \in DOMAIN alts : alts[k] >= need}
           most == {k \in DOMAIN alts : /\ alts[k] > 0
                                        /\ \A m \in DOMAIN alts :
                                             alts[m] <= alts[k]}
<1>1. alt = IF enough # {} THEN Least(enough)
            ELSE IF most # {} THEN Least(most) ELSE 0
  BY DEF AltSetting
<1>2. enough \in SUBSET Nat /\ most \in SUBSET Nat
  OBVIOUS
<1>3. \A k \in DOMAIN alts : alts[k] \in Nat
  OBVIOUS
<1>4. CASE enough # {}
  <2>1. alt \in enough
    <3> HIDE DEF enough
    <3>1. QED
      BY <1>1, <1>2, <1>4, LeastIs
  <2> HIDE DEF alt
  <2>2. QED
    BY <1>3, <2>1 DEF alt
<1>5. CASE enough = {} /\ most # {}
  <2>1. alt \in most
    <3> HIDE DEF enough, most
    <3>1. QED
      BY <1>1, <1>2, <1>5, LeastIs
  <2> HIDE DEF alt
  <2>2. QED
    BY <1>3, <2>1 DEF alt
<1>6. CASE enough = {} /\ most = {}
  BY <1>1, <1>6
<1>7. QED
  BY <1>4, <1>5, <1>6

\* The estimate for a camera that gives no payload is not 0.
LEMMA EstimateIs ==
  ASSUME NEW frame, frame.width \in Nat, frame.height \in Nat,
         NEW interval \in Ticks
  PROVE  Estimate(frame, interval) \in Nat \ {0}
<1> DEFINE w == frame.width
           h == frame.height
           r == Rate(interval)
           n == w * h * 6 * (r + 1)
<1>1. w \in Nat /\ h \in Nat /\ r \in Nat
  BY RateIs DEF Ticks
<1> HIDE DEF w, h, r
<1>2. w * h \in Nat
  BY <1>1
<1>3. (w * h) * 6 \in Nat /\ r + 1 \in Nat
  BY <1>1, <1>2
<1>4. n \in Nat
  <2> DEFINE a == (w * h) * 6
             b == r + 1
  <2>1. a \in Nat /\ b \in Nat
    BY <1>3
  <2> HIDE DEF a, b
  <2>2. a * b \in Nat
    BY <2>1
  <2>3. QED
    BY <2>2 DEF a, b
<1> HIDE DEF n
<1>5. n \div 8000 \in Nat
  BY <1>4
<1>6. Estimate(frame, interval) = n \div 8000 + 12
  BY DEF Estimate, n, w, h, r
<1> DEFINE q == n \div 8000
<1> HIDE DEF q
<1>7. q \in Nat /\ Estimate(frame, interval) = q + 12
  BY <1>5, <1>6 DEF q
<1>8. QED
  BY <1>7

\* Nor is what a stream needs, if the camera names a payload.
LEMMA NeedIs ==
  ASSUME NEW frame \in FrameBlocks, NEW cur \in CtrlBlocks
  PROVE  /\ BytesNeeded(frame, cur) \in Nat
         /\ cur.payload # 0 => BytesNeeded(frame, cur) # 0
<1>1. /\ frame.width \in Nat /\ frame.height \in Nat
      /\ cur.interval \in Ticks /\ cur.payload \in Nat
  BY DEF FrameBlocks, CtrlBlocks
<1>2. Estimate(frame, cur.interval) \in Nat \ {0}
  BY <1>1, EstimateIs
<1>3. QED
  BY <1>1, <1>2 DEF BytesNeeded

\* A transfer has room for a packet of a frame, and for no more than MaxPackets.
LEMMA PacketsIs ==
  ASSUME NEW size \in Nat, NEW bytes \in Nat \ {0}
  PROVE  /\ PacketsFor(size, bytes) \in 0..MaxPackets
         /\ size # 0 => PacketsFor(size, bytes) # 0
<1> DEFINE total == size + bytes - 1
           n == total \div bytes
<1>1. total \in Nat /\ (size # 0 => bytes <= total)
  OBVIOUS
<1> HIDE DEF total
<1>2. n \in Nat /\ (1 <= n <=> 1 * bytes <= total)
  BY <1>1, Quotient
<1> HIDE DEF n
<1>3. n \in Nat /\ (size # 0 => n # 0)
  BY <1>1, <1>2
<1>4. PacketsFor(size, bytes) = IF n > MaxPackets THEN MaxPackets ELSE n
  BY DEF PacketsFor, n, total
<1>5. QED
  BY <1>3, <1>4 DEF MaxPackets

\* A frame without a size names no frame of a format that libuvc knows.
SizedAlike(this, that) ==
  \A x \in Listed(this), y \in Listed(that) :
    /\ this[x[1]].index = that[y[1]].index
    /\ this[x[2]].index = that[y[2]].index
    /\ that[y[2]].subtype = "FRAME_FRAME_BASED"
    => uvc_frame_format_for_guid(this[x[1]].guid) = "UNKNOWN"

\* The frame size is not 0 for a stream that can start: from the camera, or
\* from a descriptor that has one.
LEMMA SizeIs ==
  ASSUME NEW c \in Cameras, SizesKnown(c),
         NEW t, NEW build, NEW cur, NEW k, NEW y,
         Obtained(c, t, build, cur), Names(c.interfaces, cur, k, y),
         uvc_frame_format_for_guid(c.interfaces[k].blocks[y[1]].guid)
           # "UNKNOWN"
  PROVE  cur.size \in Nat \ {0}
<1> DEFINE d == uvc_find_frame_desc(Scanned(c.interfaces), cur.format,
                                    cur.frame)
<1>1. WellFormed(c.interfaces)
  BY CamerasAssumption
<1>2. Sized(c, cur)
  BY DEF Obtained
<1>3. CASE c.size = "given"
  BY <1>2, <1>3 DEF Sized
<1>4. CASE c.size # "given"
  <2>1. cur.size = d.frame.size
    BY <1>2, <1>4 DEF Sized
  <2>2. /\ d.format.index = cur.format /\ d.frame.index = cur.frame
        /\ \E l, z : Stands(c.interfaces, d, l, z)
    BY <1>1, SizeFound
  <2> HIDE DEF d
  <2>3. PICK l, z : Stands(c.interfaces, d, l, z)
    BY <2>2
  <2> DEFINE this == c.interfaces[k].blocks
             that == c.interfaces[l].blocks
  <2>4. /\ l \in DOMAIN c.interfaces /\ z \in Listed(that)
        /\ FromBlock(d.format, that[z[1]]) /\ d.frame = FrameDesc(that[z[2]])
    BY <2>3 DEF Stands
  <2>5. /\ k \in DOMAIN c.interfaces /\ y \in Listed(this)
        /\ cur.format = this[y[1]].index /\ cur.frame = this[y[2]].index
    BY DEF Names
  <2>6. that[z[2]] \in FrameBlocks
    BY <1>1, <2>4, ListedBlocks
  <2>7. that[z[2]].subtype # "FRAME_FRAME_BASED"
    <3>1. /\ this[y[1]].index = that[z[1]].index
          /\ this[y[2]].index = that[z[2]].index
      <4> HIDE DEF this, that
      <4>1. d.format.index = that[z[1]].index
        BY <2>4 DEF FromBlock
      <4>2. d.frame.index = that[z[2]].index
        BY <2>4 DEF FrameDesc
      <4>3. QED
        BY <2>2, <2>5, <4>1, <4>2
    <3>2. SizedAlike(this, that)
      <4>1. \A i, j \in DOMAIN c.interfaces :
              SizedAlike(c.interfaces[i].blocks, c.interfaces[j].blocks)
        BY <1>4, Zenon DEF SizesKnown, SizedAlike
      <4>2. QED
        BY <2>4, <2>5, <4>1, Zenon
    <3> HIDE DEF that
    <3>3. uvc_frame_format_for_guid(this[y[1]].guid) # "UNKNOWN"
      OBVIOUS
    <3> HIDE DEF this
    <3>4. QED
      BY <2>4, <2>5, <3>1, <3>2, <3>3 DEF SizedAlike
  <2> HIDE DEF that
  <2>8. QED
    BY <2>1, <2>4, <2>6, <2>7 DEF FrameDesc, FrameBlocks
<1>5. QED
  BY <1>3, <1>4

\* It is a number in any case.
LEMMA SizeIsNat ==
  ASSUME NEW c, WellFormed(c.interfaces), NEW t, NEW build, NEW cur, NEW k,
         NEW y, Obtained(c, t, build, cur), Names(c.interfaces, cur, k, y)
  PROVE  cur.size \in Nat
<1> DEFINE d == uvc_find_frame_desc(Scanned(c.interfaces), cur.format,
                                    cur.frame)
<1>1. Sized(c, cur)
  BY DEF Obtained
<1>2. d \in Entries
  BY SizeFound
<1> HIDE DEF d
<1>3. d.frame.size \in Nat
  BY <1>2 DEF Entries, FrameDescs
<1>4. QED
  BY <1>1, <1>3 DEF Sized, d

\* A block with a payload does not divide by zero.
LEMMA NoCrash ==
  ASSUME NEW c \in Cameras, c.payload # 0, NEW t, NEW build, NEW cur,
         Obtained(c, t, build, cur)
  PROVE  Opened(c, Scanned(c.interfaces), cur) # Crashed
<1>1. WellFormed(c.interfaces)
  BY CamerasAssumption
<1>2. PICK k, y : Names(c.interfaces, cur, k, y)
  BY DEF Obtained
<1>3. cur \in CtrlBlocks /\ cur.payload \in {Unlimited, c.payload}
  BY DEF Obtained
<1> DEFINE this == c.interfaces[k]
           need == BytesNeeded(this.blocks[y[2]], cur)
           format == uvc_frame_format_for_guid(this.blocks[y[1]].guid)
           alt == AltSetting(this.alts, need)
           bytes == this.alts[alt]
           packets == PacketsFor(cur.size, bytes)
           h == Opened(c, Scanned(c.interfaces), cur)
<1>4. k \in DOMAIN c.interfaces /\ y \in Listed(this.blocks)
  BY <1>2 DEF Names
<1>5. need \in Nat \ {0} /\ this.alts \in Seq(Nat)
  <2>1. this.blocks[y[2]] \in FrameBlocks /\ this.alts \in Seq(Nat)
    BY <1>1, <1>4, ListedBlocks
  <2>2. cur.payload # 0
    BY <1>3 DEF Unlimited
  <2>3. QED
    BY <1>3, <2>1, <2>2, NeedIs
<1>6. alt # 0 => bytes # 0
  <2> HIDE DEF need, this
  <2>1. QED
    BY <1>5, AltIs
<1>7. h = IF "COMMIT" \in c.fails \/ format = "UNKNOWN" THEN NoStream
          ELSE IF ~Isochronous(this)
               THEN Handle(cur, format, 0, 0, cur.payload)
          ELSE IF alt = 0 THEN NoStream
          ELSE IF bytes = 0 THEN Crashed
          ELSE IF (~(bytes >= need) /\ packets = 0) \/ "ALT" \in c.fails
               THEN NoStream
          ELSE Handle(cur, format, alt, packets, packets * bytes)
  BY <1>1, <1>2, OpenedIs DEF Outcome
<1>8. /\ \A f, a, p, b : Handle(cur, f, a, p, b).interface = cur.interface
      /\ cur.interface \in Nat
      /\ NoStream.interface = -1 /\ Crashed.interface = -2
  BY <1>3 DEF Handle, CtrlBlocks, NoStream, Crashed
<1> HIDE DEF h, format, need, alt, bytes, packets, this
<1>9. h.interface \in {-1, cur.interface}
  BY <1>6, <1>7, <1>8
<1>10. h # Crashed
  BY <1>8, <1>9
<1>11. QED
  BY <1>10 DEF h

\* Only a camera without a payload ends the process.
CrashInv == pc = "crashed" => cam.payload = 0

\* Every step keeps that.
LEMMA CrashNext == NegotiateInv /\ CrashInv /\ [Next]_vars => CrashInv'
<1> SUFFICES ASSUME NegotiateInv, CrashInv, [Next]_vars
             PROVE  CrashInv'
  OBVIOUS
<1>1. CASE StartStreaming
  <2>1. /\ cam' = cam /\ pc = "negotiated"
        /\ pc' = "crashed" => Opened(cam, info, ctrl) = Crashed
    BY <1>1 DEF StartStreaming
  <2>2. /\ cam \in Cameras /\ info = Scanned(cam.interfaces)
        /\ Obtained(cam, tuvc, jpeg, ctrl)
    BY <2>1 DEF NegotiateInv
  <2>3. QED
    BY <2>1, <2>2, NoCrash DEF CrashInv
<1>2. CASE OpenDevice
  BY <1>2 DEF OpenDevice, CrashInv
<1>3. ASSUME NEW index, NEW fps, CMD_format(index, fps)
      PROVE  CrashInv'
  BY <1>3 DEF CMD_format, CrashInv
<1>4. CASE StartCapture \/ SkipFormat \/ NoFormat \/ StopCapture
  BY <1>4 DEF StartCapture, SkipFormat, NoFormat, StopCapture, CrashInv
<1>5. CASE TryFormat
  <2>1. pc' \in {"negotiated", pc} /\ pc = "trying"
    BY <1>5 DEF TryFormat
  <2>2. QED
    BY <2>1 DEF CrashInv
<1>6. CASE UNCHANGED vars
  BY <1>6 DEF vars, CrashInv
<1>7. QED
  BY <1>1, <1>2, <1>3, <1>4, <1>5, <1>6 DEF Next

\* However a camera answers, the alternate setting of a stream that runs holds
\* the payload or is the largest, and no transfer has more than MaxPackets
\* packets; where it names a payload, and a size is known, the transfers have
\* room for data and the process survives (stream.c:937, stream.c:266).
THEOREM TransfersHoldData == Spec => []TransfersCarryData
<1>1. NegotiateInv /\ CrashInv => TransfersCarryData
  <2> SUFFICES ASSUME NegotiateInv, CrashInv, pc = "running"
               PROVE  TransfersCarryData
    BY DEF TransfersCarryData, CrashInv
  <2> DEFINE cur == strmh.cur
  <2>1. /\ cam \in Cameras /\ strmh \notin {NoStream, Crashed}
        /\ strmh = Opened(cam, Scanned(cam.interfaces), cur)
        /\ Obtained(cam, tuvc, jpeg, cur)
    BY DEF NegotiateInv
  <2>2. WellFormed(cam.interfaces) /\ cam.payload \in Nat
    BY <2>1, CameraIs
  <2>3. PICK k, y : Names(cam.interfaces, cur, k, y)
    BY <2>1 DEF Obtained
  <2> HIDE DEF cur
  <2> DEFINE this == cam.interfaces[k]
             blocks == this.blocks
             need == BytesNeeded(blocks[y[2]], cur)
             alt == AltSetting(this.alts, need)
             bytes == this.alts[alt]
             packets == PacketsFor(cur.size, bytes)
             held == {this.alts[m] : m \in DOMAIN this.alts}
             Answers == cam.payload # 0 /\ SizesKnown(cam)
  <2>4. Opens(cam, cur, k, y, strmh)
    BY <2>1, <2>2, <2>3, OpensIs, Zenon
  <2>5. /\ strmh.interface = cur.interface
        /\ uvc_frame_format_for_guid(blocks[y[1]].guid) # "UNKNOWN"
        /\ ~Isochronous(this) => strmh.bytes = cur.payload
        /\ Isochronous(this) =>
             /\ strmh.alt = alt /\ alt # 0 /\ bytes # 0
             /\ strmh.packets = packets /\ strmh.bytes = packets * bytes
    BY <2>4, Zenon DEF Opens
  <2>6. /\ InterfaceOf(cam.interfaces, strmh.interface) = this
        /\ Sent.frame = blocks[y[2]]
    <3>1. MeansIn(cam, cur, k, y)
      BY <2>2, <2>3, MeantBlocks
    <3>2. QED
      BY <2>5, <3>1 DEF MeansIn, Sent, cur
  <2>7. /\ cur \in CtrlBlocks /\ cur.payload \in Nat
        /\ Answers => cur.payload # 0
    <3>1. cur \in CtrlBlocks /\ cur.payload \in {Unlimited, cam.payload}
      BY <2>1, Zenon DEF Obtained
    <3>2. QED
      BY <2>2, <3>1 DEF Unlimited
  <2>8. cur.size \in Nat /\ (Answers => cur.size # 0)
    <3>1. Answers => cur.size \in Nat \ {0}
      BY <2>1, <2>3, <2>5, SizeIs
    <3>2. cur.size \in Nat
      BY <2>1, <2>2, <2>3, SizeIsNat
    <3>3. QED
      BY <3>1, <3>2
  <2>9. need \in Nat
    <3>1. k \in DOMAIN cam.interfaces /\ y \in Listed(blocks)
      BY <2>3 DEF Names
    <3>2. blocks[y[2]] \in FrameBlocks
      BY <2>2, <3>1, ListedBlocks
    <3>3. QED
      BY <2>7, <3>2, NeedIs
  <2>10. this.alts \in Seq(Nat)
    <3>1. k \in DOMAIN cam.interfaces
      BY <2>3 DEF Names
    <3>2. QED
      BY <2>2, <3>1, ListedBlocks
  <2> HIDE DEF this, blocks, need
  <2>11. CASE ~Isochronous(this)
    <3>1. Answers => strmh.bytes > 0
      BY <2>5, <2>7, <2>11
    <3>2. QED
      BY <2>6, <2>11, <3>1 DEF TransfersCarryData
  <2>12. CASE Isochronous(this)
    <3>1. /\ alt \in DOMAIN this.alts /\ bytes \in Nat \ {0}
          /\ \/ bytes >= need
             \/ \A m \in DOMAIN this.alts : this.alts[m] <= bytes
      BY <2>5, <2>9, <2>10, <2>12, AltIs
    <3> HIDE DEF alt, bytes
    <3>2. packets \in 0..MaxPackets /\ (Answers => packets # 0)
      BY <2>8, <3>1, PacketsIs
    <3>3. bytes >= need \/ \A b \in held : b <= bytes
      BY <3>1
    <3> HIDE DEF packets, held
    <3>4. Answers => strmh.bytes > 0
      <4> SUFFICES ASSUME Answers PROVE packets * bytes > 0
        BY <2>5, <2>12
      <4>1. packets \in Nat \ {0}
        BY <3>2 DEF MaxPackets
      <4>2. QED
        BY <3>1, <4>1
    <3>5. this.alts[strmh.alt] = bytes
      BY <2>5, <2>12 DEF bytes
    <3>6. need = BytesNeeded(Sent.frame, strmh.cur)
      BY <2>6 DEF need, cur
    <3> HIDE DEF Answers
    <3>7. QED
      BY <2>5, <2>6, <2>12, <3>2, <3>3, <3>4, <3>5, <3>6
      DEF TransfersCarryData, held, Answers
  <2>13. QED
    BY <2>11, <2>12
<1>2. Init => CrashInv
  BY DEF Init, CrashInv
<1>3. NegotiateInv /\ CrashInv /\ [Next]_vars => CrashInv'
  BY CrashNext
<1>4. QED
  BY <1>1, <1>2, <1>3, NegotiateInvariant, PTL DEF Spec

-----------------------------------------------------------------------------
(***************************************************************************)
(* Types.                                                                  *)
(***************************************************************************)

\* Settings and control blocks have the fields of the ones at the start.
LEMMA FieldsAre ==
  /\ \A index, e : DOMAIN Settings(index, e) = DOMAIN Defaults
  /\ \A cur \in CtrlBlocks : DOMAIN cur = DOMAIN NoCtrl
<1>1. \A index, e : DOMAIN Settings(index, e) = DOMAIN Defaults
  BY DEF Settings, Defaults
<1>2. \A cur \in CtrlBlocks : DOMAIN cur = DOMAIN NoCtrl
  BY DEF CtrlBlocks, NoCtrl, Ctrl
<1>3. QED
  BY <1>1, <1>2

\* The list of formats is a sequence in every build.
LEMMA TryFormats == jpeg \in BOOLEAN => Len(tryfmts) \in Nat
<1> DEFINE T == {Try("MJPEG", TRUE), Try("YUYV", FALSE), Try("UYVY", FALSE),
                 Try("GRAY16", FALSE), Try("GRAY8", FALSE), Try("RGB", FALSE)}
           first == IF jpeg THEN <<Try("MJPEG", TRUE)>> ELSE <<>>
           rest == <<Try("YUYV", FALSE), Try("UYVY", FALSE),
                     Try("GRAY16", FALSE), Try("GRAY8", FALSE),
                     Try("RGB", FALSE)>>
<1>1. first \in Seq(T)
  <2> DEFINE w == Try("MJPEG", TRUE)
  <2>1. w \in T
    OBVIOUS
  <2> HIDE DEF T, w
  <2>2. <<w>> \in Seq(T) /\ <<>> \in Seq(T)
    BY <2>1
  <2>3. QED
    BY <2>2 DEF w
<1>2. rest \in Seq(T)
  OBVIOUS
<1>3. tryfmts = first \o rest
  BY DEF tryfmts
<1> HIDE DEF T, first, rest
<1>4. QED
  BY <1>1, <1>2, <1>3

\* The types at the start.
LEMMA TypeInit == Init => TypeOK
<1> SUFFICES ASSUME Init PROVE TypeOK
  OBVIOUS
<1>1. Len(tryfmts) \in Nat
  BY TryFormats, BuildsAssumption DEF Init
<1>2. NoStream # Crashed
  BY DEF NoStream, Crashed
<1>3. QED
  BY <1>1, <1>2 DEF Init, TypeOK, Defaults

\* The steps keep the types: the control block is the one of NegotiateInv.
LEMMA TypeNext ==
  TypeOK /\ NegotiateInv /\ NegotiateInv' /\ [Next]_vars => TypeOK'
<1> SUFFICES ASSUME TypeOK, NegotiateInv, NegotiateInv', [Next]_vars
             PROVE  TypeOK'
  OBVIOUS
<1>0. cam \in Cameras /\ jpeg \in BOOLEAN /\ tried \in Nat
  BY DEF NegotiateInv
<1>1. Len(tryfmts) \in Nat
  BY <1>0, TryFormats
<1>2. CASE OpenDevice
  <2>1. tuvc'.usefmt = 0 /\ DOMAIN tuvc' = DOMAIN Defaults
    <3>1. tuvc' = Defaults \/ \E e : tuvc' = Settings(0, e)
      BY <1>2 DEF OpenDevice
    <3>2. QED
      BY <3>1, FieldsAre DEF Defaults, Settings
  <2>2. tryfmts' = tryfmts
    BY <1>2 DEF OpenDevice, tryfmts
  <2>3. strmh' = strmh /\ pc = "closed" /\ pc' = "idle" /\ tried' = tried
        /\ ctrl' = ctrl /\ result' = result
    BY <1>2 DEF OpenDevice
  <2>4. QED
    BY <2>1, <2>2, <2>3 DEF TypeOK
<1>3. ASSUME NEW index \in 0..Len(fmts) - 1, NEW fps, CMD_format(index, fps)
      PROVE  TypeOK'
  <2>1. tuvc'.usefmt = index /\ DOMAIN tuvc' = DOMAIN Defaults
    <3>1. \E e, r : tuvc' \in {Settings(index, e),
                               [Settings(index, e) EXCEPT !.fps = r]}
      BY <1>3 DEF CMD_format
    <3>2. PICK e, r : tuvc' \in {Settings(index, e),
                               [Settings(index, e) EXCEPT !.fps = r]}
      BY <3>1
    <3>3. Settings(index, e).usefmt = index
      BY DEF Settings
    <3>4. DOMAIN tuvc' = DOMAIN Settings(index, e)
      BY <3>2
    <3>5. tuvc'.usefmt = index
      BY <3>2, <3>3 DEF Settings
    <3>6. QED
      BY <3>4, <3>5, FieldsAre
  <2>2. tryfmts' = tryfmts /\ fmts' = fmts
    BY <1>3 DEF CMD_format, tryfmts, fmts
  <2>3. UNCHANGED <<pc, tried, ctrl, strmh>> /\ result' = "none"
    BY <1>3 DEF CMD_format
  <2>4. QED
    BY <2>1, <2>2, <2>3 DEF TypeOK
<1>4. CASE TryFormat
  <2>1. /\ pc = "trying" /\ tried < Len(tryfmts)
        /\ UNCHANGED <<cam, jpeg, info, tuvc, strmh, result>>
        /\ \/ pc' = "negotiated" /\ tried' = tried
           \/ tried' = AfterFailure(tried) /\ ctrl' = ctrl /\ pc' = pc
    BY <1>4 DEF TryFormat
  <2>2. tryfmts' = tryfmts /\ fmts' = fmts
    BY <2>1 DEF tryfmts, fmts
  <2>3. tried' \in 0..Len(tryfmts) + 1
    BY <1>0, <1>1, <2>1 DEF AfterFailure
  <2>4. DOMAIN ctrl' = DOMAIN NoCtrl
    <3>1. CASE pc' = "negotiated"
      <4>1. ctrl' \in CtrlBlocks
        BY <3>1 DEF NegotiateInv, Obtained
      <4>2. QED
        BY <4>1, FieldsAre
    <3>2. CASE pc' # "negotiated"
      BY <2>1, <3>2 DEF TypeOK
    <3>3. QED
      BY <3>1, <3>2
  <2>5. QED
    BY <2>1, <2>2, <2>3, <2>4 DEF TypeOK
<1>5. CASE StartStreaming
  <2>1. tryfmts' = tryfmts /\ fmts' = fmts
    BY <1>5 DEF StartStreaming, tryfmts, fmts
  <2>2. /\ tried' = 0 /\ ctrl' = NoCtrl /\ tuvc' = tuvc
        /\ \/ strmh' = NoStream /\ pc' = "idle" /\ result' = "refused"
           \/ strmh' = Crashed /\ pc' = "crashed" /\ result' = "none"
           \/ /\ strmh' \notin {NoStream, Crashed}
              /\ pc' = "running" /\ result' = "started"
    BY <1>5 DEF StartStreaming
  <2>3. QED
    BY <1>1, <2>1, <2>2 DEF TypeOK, NoStream, Crashed
<1>6. CASE \/ StartCapture \/ SkipFormat \/ NoFormat \/ StopCapture
           \/ UNCHANGED vars
  <2>1. tryfmts' = tryfmts /\ fmts' = fmts
    BY <1>6 DEF StartCapture, SkipFormat, NoFormat, StopCapture, vars,
                tryfmts, fmts
  <2>2. CASE StartCapture
    BY <1>1, <2>1, <2>2 DEF StartCapture, TypeOK
  <2>3. CASE SkipFormat
    BY <1>0, <1>1, <2>1, <2>3 DEF SkipFormat, TypeOK
  <2>4. CASE NoFormat
    BY <1>1, <2>1, <2>4 DEF NoFormat, TypeOK
  <2>5. CASE StopCapture
    BY <2>1, <2>5 DEF StopCapture, TypeOK, NoStream, Crashed
  <2>6. CASE UNCHANGED vars
    BY <2>1, <2>6 DEF vars, TypeOK
  <2>7. QED
    BY <1>6, <2>2, <2>3, <2>4, <2>5, <2>6
<1>7. QED
  BY <1>2, <1>3, <1>4, <1>5, <1>6 DEF Next

\* TypeOK is an invariant.
THEOREM TypeCorrect == Spec => []TypeOK
<1>1. Init => TypeOK
  BY TypeInit
<1>2. TypeOK /\ NegotiateInv /\ NegotiateInv' /\ [Next]_vars => TypeOK'
  BY TypeNext
<1>3. QED
  BY <1>1, <1>2, NegotiateInvariant, PTL DEF Spec

-----------------------------------------------------------------------------
(***************************************************************************)
(* The entries whose format the loop of StartCapture gets to start.        *)
(***************************************************************************)

\* A finite sequence of numbers has a largest one.
LEMMA LargestExists ==
  ASSUME NEW s \in Seq(Nat), s # <<>>
  PROVE  \E k \in DOMAIN s : \A m \in DOMAIN s : s[m] <= s[k]
<1> DEFINE L == Len(s)
           Has(n) == \E k \in 1..n : \A m \in 1..n : s[m] <= s[k]
           I == {n \in Nat : n = 0 \/ n > L \/ Has(n)}
<1>1. L \in Nat \ {0} /\ DOMAIN s = 1..L /\ \A m \in 1..L : s[m] \in Nat
  OBVIOUS
<1> HIDE DEF L
<1>2. ASSUME NEW n \in Nat, n + 1 <= L, n = 0 \/ Has(n)
      PROVE  Has(n + 1)
  <2> DEFINE l == n + 1
  <2>1. l \in Nat /\ 1..l = (1..n) \cup {l} /\ \A m \in 1..l : s[m] \in Nat
    BY <1>1, <1>2
  <2>2. l \in 1..l /\ (n = 0 => 1..n = {})
    BY <2>1
  <2>3. CASE n = 0 \/ \A m \in 1..n : s[m] <= s[l]
    <3>1. \A m \in 1..l : s[m] <= s[l]
      <4>1. s[l] <= s[l]
        BY <2>1, <2>2
      <4> HIDE DEF l
      <4>2. QED
        BY <2>1, <2>2, <2>3, <4>1
    <3> HIDE DEF l
    <3>2. Has(l)
      BY <2>2, <3>1
    <3>3. QED
      BY <3>2 DEF l
  <2>4. CASE ~(n = 0 \/ \A m \in 1..n : s[m] <= s[l])
    <3>1. PICK k \in 1..n : \A m \in 1..n : s[m] <= s[k]
      BY <1>2, <2>4
    <3> HIDE DEF l
    <3>2. PICK i \in 1..n : ~(s[i] <= s[l])
      BY <2>4
    <3>3. s[l] \in Nat /\ s[i] \in Nat /\ s[k] \in Nat
      BY <2>1, <2>2
    <3>4. s[l] <= s[k]
      BY <3>1, <3>2, <3>3
    <3>5. k \in 1..l /\ \A m \in 1..l : s[m] <= s[k]
      BY <2>1, <3>1, <3>4
    <3>6. Has(l)
      BY <3>5
    <3>7. QED
      BY <3>6 DEF l
  <2>5. QED
    BY <2>3, <2>4
<1> HIDE DEF Has
<1>3. 0 \in I /\ \A n \in Nat : n \in I => n + 1 \in I
  BY <1>1, <1>2
<1>4. L \in I
  <2> HIDE DEF I
  <2>1. Nat \subseteq I
    BY <1>3, Induct
  <2>2. QED
    BY <1>1, <2>1
<1>5. Has(L)
  BY <1>1, <1>4
<1>6. QED
  BY <1>1, <1>5 DEF Has

\* An alternate setting is found if one has bandwidth.
LEMMA AltFound ==
  ASSUME NEW alts \in Seq(Nat), NEW need,
         NEW m \in DOMAIN alts, alts[m] > 0
  PROVE  AltSetting(alts, need) # 0
<1> DEFINE enough == {k \in DOMAIN alts : alts[k] >= need}
           most == {k \in DOMAIN alts : /\ alts[k] > 0
                                        /\ \A l \in DOMAIN alts :
                                             alts[l] <= alts[k]}
<1>1. AltSetting(alts, need)
        = IF enough # {} THEN Least(enough)
          ELSE IF most # {} THEN Least(most) ELSE 0
  BY DEF AltSetting
<1>2. most # {}
  <2>1. PICK k \in DOMAIN alts : \A l \in DOMAIN alts : alts[l] <= alts[k]
    BY LargestExists
  <2>2. alts[m] \in Nat /\ alts[k] \in Nat /\ alts[m] <= alts[k]
    BY <2>1
  <2>3. QED
    BY <2>1, <2>2, SMTT(120)
<1>3. /\ enough \in SUBSET DOMAIN alts /\ most \in SUBSET DOMAIN alts
      /\ DOMAIN alts \in SUBSET (Nat \ {0})
  OBVIOUS
<1> HIDE DEF enough, most
<1>4. \A T \in SUBSET DOMAIN alts : T # {} => Least(T) # 0
  <2> TAKE T \in SUBSET DOMAIN alts
  <2>1. T \in SUBSET Nat /\ 0 \notin T
    BY <1>3
  <2>2. QED
    BY <2>1, LeastIs
<1>5. QED
  BY <1>1, <1>2, <1>3, <1>4

\* The settings are those of an entry of the table, with its own rate or with
\* one of its list.
FromEntry(t, f) ==
  LET e == f[t.usefmt + 1] IN
  /\ t.usefmt + 1 \in DOMAIN f
  /\ t.width = e.frame.width /\ t.height = e.frame.height
  /\ t.iscomp = (e.format.subtype = "FORMAT_MJPEG")
  /\ \/ t.fps = Rate(e.frame.default)
     \/ \E v \in ToSet(e.frame.intervals) : t.fps = Rate(v)

\* The search looks at an interval with that rate.
LEMMA RateOffered ==
  ASSUME NEW frame \in FrameDescs, OffersDefault(frame), NEW fps,
         \/ fps = Rate(frame.default)
         \/ \E v \in ToSet(frame.intervals) : fps = Rate(v)
  PROVE  \E v \in ToSet(Intervals(frame, fps)) : HasRate(frame, v, fps)
<1>1. CASE frame.intervals # <<>>
  <2>1. Intervals(frame, fps) = frame.intervals
    BY <1>1 DEF Intervals
  <2>2. \E v \in ToSet(frame.intervals) : fps = Rate(v)
    BY <1>1 DEF OffersDefault
  <2>3. QED
    BY <1>1, <2>1, <2>2 DEF HasRate
<1>2. CASE frame.intervals = <<>>
  <2> DEFINE w == TicksPerSecond \div fps
  <2>1. ToSet(frame.intervals) = {}
    BY <1>2 DEF ToSet
  <2>2. fps = Rate(frame.default)
    BY <2>1
  <2>3. Intervals(frame, fps) = <<w>>
    BY <1>2 DEF Intervals
  <2>4. HasRate(frame, w, fps)
    BY <1>2, <2>2 DEF OffersDefault
  <2> HIDE DEF w
  <2>5. w \in ToSet(<<w>>)
    <3>1. 1 \in DOMAIN <<w>> /\ <<w>>[1] = w
      OBVIOUS
    <3>2. QED
      BY <3>1 DEF ToSet
  <2>6. QED
    BY <2>3, <2>4, <2>5
<1>3. QED
  BY <1>1, <1>2

\* A frame of a table is also among those that the search goes through.
LEMMA EntryListed ==
  ASSUME NEW interfaces, WellFormed(interfaces), NEW kinds,
         NEW e \in ToSet(FramesOf(Scanned(interfaces), kinds))
  PROVE  \E k \in DOMAIN interfaces : \E x \in Listed(interfaces[k].blocks) :
           /\ Stands(interfaces, e, k, x)
           /\ \E a \in ToSet(AllFrames(Scanned(interfaces))) :
                Stands(interfaces, a, k, x)
<1>1. /\ TableOf(interfaces, FramesOf(Scanned(interfaces), kinds), kinds)
      /\ TableOf(interfaces, AllFrames(Scanned(interfaces)), FormatKinds)
  BY FramesOfAre DEF AllFrames
<1>2. PICK k \in DOMAIN interfaces, x \in Nat \X Nat :
        Stands(interfaces, e, k, x)
  BY <1>1 DEF TableOf
<1>3. x \in Listed(interfaces[k].blocks)
  BY <1>2 DEF Stands
<1>4. interfaces[k].blocks[x[1]].subtype \in FormatKinds
  BY <1>3 DEF Listed, Owns, IsFormat
<1>5. PICK a \in ToSet(AllFrames(Scanned(interfaces))) :
        Stands(interfaces, a, k, x)
  BY <1>1, <1>3, <1>4 DEF TableOf
<1>6. QED
  BY <1>2, <1>3, <1>5

\* So it is for the entries of the table of tcluvc.
LEMMA TableListed ==
  ASSUME NEW interfaces, WellFormed(interfaces),
         NEW i \in DOMAIN FormatTable(Scanned(interfaces))
  PROVE  LET e == FormatTable(Scanned(interfaces))[i] IN
         \E k \in DOMAIN interfaces : \E x \in Listed(interfaces[k].blocks) :
           /\ Stands(interfaces, e, k, x)
           /\ \E a \in ToSet(AllFrames(Scanned(interfaces))) :
                Stands(interfaces, a, k, x)
<1> DEFINE u == FramesOf(Scanned(interfaces), {"FORMAT_UNCOMPRESSED"})
           m == FramesOf(Scanned(interfaces), {"FORMAT_MJPEG"})
           f == FormatTable(Scanned(interfaces))
<1>1. f = u \o m
  BY DEF FormatTable
<1>2. u \in Seq(Entries) /\ m \in Seq(Entries)
  BY FramesOfAre DEF TableOf
<1>3. f[i] \in ToSet(u) \/ f[i] \in ToSet(m)
  <2>1. i \in DOMAIN f
    OBVIOUS
  <2> HIDE DEF u, m, f
  <2>2. i \in DOMAIN (u \o m) /\ f[i] = (u \o m)[i]
    BY <1>1, <2>1
  <2>3. /\ i \in 1..(Len(u) + Len(m)) /\ Len(u) \in Nat /\ Len(m) \in Nat
        /\ DOMAIN u = 1..Len(u) /\ DOMAIN m = 1..Len(m)
        /\ f[i] = IF i <= Len(u) THEN u[i] ELSE m[i - Len(u)]
    BY <1>2, <2>2
  <2>4. CASE i <= Len(u)
    BY <2>3, <2>4 DEF ToSet
  <2>5. CASE i > Len(u)
    <3>1. i - Len(u) \in DOMAIN m /\ f[i] = m[i - Len(u)]
      BY <2>3, <2>5
    <3>2. QED
      BY <3>1 DEF ToSet
  <2>6. QED
    BY <2>3, <2>4, <2>5
<1> HIDE DEF f
<1>4. QED
  BY <1>3, EntryListed DEF f

\* A camera with a payload for every rate.
Pays(c) ==
  /\ WellFormed(c.interfaces) /\ c.obeys \in BOOLEAN
  /\ c.payload \in Nat \ {0} /\ c.payload # Unlimited /\ c.wild = {}

\* It takes every block that names one of its frames, or the search has the
\* payload from GET_MAX.
LEMMA PaysTried ==
  ASSUME NEW c, Pays(c), NEW asked \in CtrlBlocks, NEW k, NEW x,
         Names(c.interfaces, asked, k, x), NEW frame
  PROVE  Tried(c, frame, asked, c.payload)
<1>1. Answer(c, asked, k, x, Accepts(c, asked))
  BY AcceptsIs DEF Pays
<1>2. Accepts(c, asked).payload = c.payload
  BY <1>1 DEF Answer, Pays
<1>3. QED
  BY <1>2 DEF Tried, Pays

\* The control block for a frame of the search names it.
LEMMA CandidateNames ==
  ASSUME NEW interfaces, NEW a \in Entries, NEW k, NEW x,
         Stands(interfaces, a, k, x), NEW v \in Ticks
  PROVE  LET d == Candidate(a, v) IN
         /\ d.format = a.format /\ d.frame = a.frame
         /\ d.asked \in CtrlBlocks /\ d.asked.interval = v
         /\ Names(interfaces, d.asked, k, x)
<1> DEFINE d == Candidate(a, v)
           blocks == interfaces[k].blocks
<1>1. /\ d.format = a.format /\ d.frame = a.frame
      /\ d.asked = Ctrl(a.interface, TRUE, a.format.index, a.frame.index, v)
  BY DEF Candidate
<1>2. /\ a.interface \in Nat /\ a.format.index \in Nat
      /\ a.frame.index \in Nat
  BY DEF Entries, Formats, FrameDescs
<1> HIDE DEF d
<1>3. /\ d.asked \in CtrlBlocks /\ d.asked.interval = v
      /\ d.asked.interface = a.interface
      /\ d.asked.format = a.format.index /\ d.asked.frame = a.frame.index
  BY <1>1, <1>2 DEF Ctrl, CtrlBlocks
<1>4. /\ k \in DOMAIN interfaces /\ x \in Listed(blocks)
      /\ a.interface = interfaces[k].number
      /\ FromBlock(a.format, blocks[x[1]]) /\ a.frame = FrameDesc(blocks[x[2]])
  BY DEF Stands
<1> HIDE DEF blocks
<1>5. a.format.index = blocks[x[1]].index /\ a.frame.index = blocks[x[2]].index
  BY <1>4 DEF FromBlock, FrameDesc
<1>6. Names(interfaces, d.asked, k, x)
  BY <1>3, <1>4, <1>5 DEF Names, blocks
<1>7. QED
  BY <1>1, <1>3, <1>6 DEF d

\* A candidate that is taken is enough for the search to find one.
LEMMA TakesFound ==
  ASSUME NEW c, WellFormed(c.interfaces), NEW cf, NEW t, t.fps \in Fps, NEW max,
         NEW d \in ToSet(Candidates(Scanned(c.interfaces), t.fps)),
         Takes(c, cf, t, max, d)
  PROVE  Found(c, Scanned(c.interfaces), cf, t, max) # NoCtrl
<1> DEFINE all == Candidates(Scanned(c.interfaces), t.fps)
           at == {i \in DOMAIN all : Takes(c, cf, t, max, all[i])}
           none == [asked |-> NoCtrl]
           found == Found(c, Scanned(c.interfaces), cf, t, max)
<1>1. found = First(all, at, none).asked
  BY DEF Found
<1>2. all \in Seq(CandidateSet)
  BY CandidatesAre
<1> HIDE DEF all, found
<1>3. at \in SUBSET Nat /\ at \subseteq DOMAIN all
  BY <1>2
<1>4. at # {}
  BY DEF ToSet, all
<1>5. Least(at) \in DOMAIN all
  <2> HIDE DEF at
  <2>1. QED
    BY <1>3, <1>4, LeastIs
<1>6. found = all[Least(at)].asked
  <2> HIDE DEF at
  <2>1. QED
    BY <1>1, <1>4 DEF First
<1>7. found \in CtrlBlocks
  <2>1. PICK n \in DOMAIN all : found = all[n].asked
    BY <1>5, <1>6
  <2>2. all[n] \in CandidateSet
    BY <1>2
  <2>3. QED
    BY <2>1, <2>2 DEF CandidateSet
<1>8. found.interface \in Nat /\ NoCtrl.interface = -1
  BY <1>7 DEF CtrlBlocks, NoCtrl, Ctrl
<1>9. QED
  BY <1>8 DEF found

\* OffersDefault, for what the parser makes of a frame.
LEMMA OffersScanned ==
  ASSUME NEW b \in FrameBlocks, OffersDefault(b)
  PROVE  OffersDefault(FrameDesc(b))
<1>1. /\ FrameDesc(b).intervals = b.intervals
      /\ FrameDesc(b).default = b.default
      /\ FrameDesc(b).step = b.step
  BY DEF FrameDesc
<1>2. QED
  BY <1>1 DEF OffersDefault, HasRate

\* uvc_get_stream_ctrl_format_size finds a block for the format of the entry.
LEMMA EntryFound ==
  ASSUME NEW c, Pays(c),
         \A k \in DOMAIN c.interfaces : Consistent(c.interfaces[k]),
         NEW t, t.fps \in Fps, FromEntry(t, FormatTable(Scanned(c.interfaces))),
         NEW cf,
         Matches(cf, FormatTable(Scanned(c.interfaces))
                       [t.usefmt + 1].format.guid)
  PROVE  Found(c, Scanned(c.interfaces), cf, t, c.payload) # NoCtrl
<1> DEFINE S == Scanned(c.interfaces)
           f == FormatTable(S)
           i == t.usefmt + 1
           e == f[i]
<1>0. WellFormed(c.interfaces)
  BY DEF Pays
<1>1. /\ i \in DOMAIN f
      /\ t.width = e.frame.width /\ t.height = e.frame.height
      /\ \/ t.fps = Rate(e.frame.default)
         \/ \E v \in ToSet(e.frame.intervals) : t.fps = Rate(v)
  BY DEF FromEntry
<1>2. Matches(cf, e.format.guid)
  OBVIOUS
<1> HIDE DEF i
<1>3. PICK k \in DOMAIN c.interfaces :
        \E x \in Listed(c.interfaces[k].blocks) :
        /\ Stands(c.interfaces, e, k, x)
        /\ \E a \in ToSet(AllFrames(S)) : Stands(c.interfaces, a, k, x)
  BY <1>0, <1>1, TableListed
<1> DEFINE blocks == c.interfaces[k].blocks
<1>4. PICK x \in Listed(blocks) :
        /\ Stands(c.interfaces, e, k, x)
        /\ \E a \in ToSet(AllFrames(S)) : Stands(c.interfaces, a, k, x)
  BY <1>3
<1>5. PICK a \in ToSet(AllFrames(S)) : Stands(c.interfaces, a, k, x)
  BY <1>4
<1> HIDE DEF e
<1>6. /\ e.frame = FrameDesc(blocks[x[2]]) /\ a.frame = e.frame
      /\ a.format.guid = e.format.guid
  BY <1>4, <1>5 DEF Stands, FromBlock
<1>7. a \in Entries
  BY <1>0, FramesOfAre DEF AllFrames, TableOf, ToSet
<1>8. OffersDefault(a.frame)
  <2>1. OffersDefault(blocks[x[2]])
    BY DEF Consistent
  <2>2. blocks[x[2]] \in FrameBlocks
    BY <1>0, ListedBlocks
  <2> HIDE DEF blocks
  <2>3. QED
    BY <1>6, <2>1, <2>2, OffersScanned
<1>9. a.frame \in FrameDescs
  BY <1>7, Zenon DEF Entries
<1>10. PICK v \in ToSet(Intervals(a.frame, t.fps)) : HasRate(a.frame, v, t.fps)
  BY <1>1, <1>6, <1>8, <1>9, RateOffered, Zenon
<1>11. v \in Ticks
  BY <1>9, IntervalsAre DEF ToSet
<1> DEFINE d == Candidate(a, v)
<1>12. d \in ToSet(Candidates(S, t.fps))
  BY <1>0, CandidatesAre
<1>13. /\ d.format = a.format /\ d.frame = a.frame
       /\ d.asked \in CtrlBlocks /\ d.asked.interval = v
       /\ Names(c.interfaces, d.asked, k, x)
  BY <1>5, <1>7, <1>11, CandidateNames
<1> HIDE DEF d, S, blocks
<1>14. Tried(c, d.frame, d.asked, c.payload)
  BY <1>13, PaysTried
<1>15. Takes(c, cf, t, c.payload, d)
  BY <1>1, <1>2, <1>6, <1>10, <1>13, <1>14 DEF Takes
<1>16. QED
  BY <1>0, <1>12, <1>15, TakesFound DEF S

\* The formats that the loop of StartCapture gets to, and where it can be on
\* its way to each.
Ways ==
  IF jpeg THEN [MJPEG |-> {0}, YUYV |-> {0, 1}, GRAY16 |-> {0, 1, 3}]
  ELSE [YUYV |-> {0}, GRAY16 |-> {0, 2}]

\* The places of these formats in the list.
LEMMA FormatsAre ==
  ASSUME jpeg \in BOOLEAN
  PROVE  /\ jpeg =>
              /\ Len(tryfmts) = 6 /\ tryfmts[1] = Try("MJPEG", TRUE)
              /\ tryfmts[2] = Try("YUYV", FALSE)
              /\ tryfmts[4] = Try("GRAY16", FALSE)
         /\ ~jpeg =>
              /\ Len(tryfmts) = 5 /\ tryfmts[1] = Try("YUYV", FALSE)
              /\ tryfmts[3] = Try("GRAY16", FALSE)
<1> DEFINE rest == <<Try("YUYV", FALSE), Try("UYVY", FALSE),
                     Try("GRAY16", FALSE), Try("GRAY8", FALSE),
                     Try("RGB", FALSE)>>
           T == {Try("MJPEG", TRUE), Try("YUYV", FALSE), Try("UYVY", FALSE),
                 Try("GRAY16", FALSE), Try("GRAY8", FALSE), Try("RGB", FALSE)}
<1>1. /\ Len(rest) = 5 /\ rest \in Seq(T)
      /\ rest[1] = Try("YUYV", FALSE) /\ rest[3] = Try("GRAY16", FALSE)
  OBVIOUS
<1>2. CASE jpeg
  <2> DEFINE first == <<Try("MJPEG", TRUE)>>
  <2>1. tryfmts = first \o rest
    BY <1>2 DEF tryfmts
  <2>2. first \in Seq(T) /\ Len(first) = 1 /\ first[1] = Try("MJPEG", TRUE)
    OBVIOUS
  <2> HIDE DEF rest, T, first
  <2>3. Behind(first \o rest, first[1], rest)
    BY <1>1, <2>2, BehindIs
  <2>4. /\ Len(tryfmts) = 6 /\ tryfmts[1] = first[1]
        /\ \A n \in 1..5 : tryfmts[n + 1] = rest[n]
    BY <1>1, <2>1, <2>3, SMTT(60) DEF Behind
  <2>5. tryfmts[2] = rest[1] /\ tryfmts[4] = rest[3]
    BY <2>4
  <2>6. QED
    BY <1>1, <1>2, <2>2, <2>4, <2>5
<1>3. CASE ~jpeg
  <2>1. tryfmts = rest
    <3>1. tryfmts = <<>> \o rest
      BY <1>3 DEF tryfmts
    <3> HIDE DEF rest, T
    <3>2. QED
      BY <1>1, <3>1
  <2>2. QED
    BY <1>1, <1>3, <2>1
<1>4. QED
  BY <1>2, <1>3

\* On its way the loop skips MJPEG for an entry that is not compressed, passes
\* YUYV if it fails, two places at a time, and comes to the format.
LEMMA WayLeads ==
  ASSUME jpeg \in BOOLEAN, NEW cf \in DOMAIN Ways, tried \in Ways[cf],
         tuvc.iscomp <=> cf = "MJPEG"
  PROVE  /\ tried \in Nat /\ tried < Len(tryfmts)
         /\ Skips => tried + 1 \in Ways[cf]
         /\ ~Skips => Format.fmt = cf \/ AfterFailure(tried) \in Ways[cf]
<1>1. CASE jpeg
  <2>1. /\ Len(tryfmts) = 6 /\ tryfmts[1] = Try("MJPEG", TRUE)
        /\ tryfmts[2] = Try("YUYV", FALSE)
        /\ tryfmts[4] = Try("GRAY16", FALSE)
    BY <1>1, FormatsAre
  <2>2. Ways = [MJPEG |-> {0}, YUYV |-> {0, 1}, GRAY16 |-> {0, 1, 3}]
    BY <1>1 DEF Ways
  <2>3. /\ tried = 0 => Format.fmt = "MJPEG" /\ Format.iscomp
        /\ tried = 1 => Format.fmt = "YUYV" /\ ~Format.iscomp
        /\ tried = 3 => Format.fmt = "GRAY16" /\ ~Format.iscomp
    BY <2>1 DEF Format, Try
  <2>4. /\ DOMAIN Ways = {"MJPEG", "YUYV", "GRAY16"}
        /\ Ways["MJPEG"] = {0} /\ Ways["YUYV"] = {0, 1}
        /\ Ways["GRAY16"] = {0, 1, 3} /\ AfterFailure(1) = 3
    BY <2>2 DEF AfterFailure
  <2>5. CASE cf = "MJPEG"
    <3>1. tried = 0 /\ ~Skips
      BY <2>4, <2>5 DEF Skips
    <3>2. QED
      BY <2>1, <2>3, <2>5, <3>1
  <2>6. CASE cf = "YUYV"
    <3>1. (tried = 0 => Skips) /\ (tried = 1 => ~Skips)
      BY <2>3, <2>6 DEF Skips
    <3>2. tried \in {0, 1}
      BY <2>4, <2>6
    <3>3. QED
      BY <2>1, <2>3, <2>4, <2>6, <3>1, <3>2
  <2>7. CASE cf = "GRAY16"
    <3>1. tried \in {0, 1, 3}
      BY <2>4, <2>7
    <3>2. /\ tried = 0 => Skips
          /\ tried = 1 => ~Skips
          /\ tried = 3 => ~Skips
      BY <2>3, <2>7 DEF Skips
    <3>3. QED
      BY <2>1, <2>3, <2>4, <2>7, <3>1, <3>2
  <2>8. QED
    BY <2>4, <2>5, <2>6, <2>7
<1>2. CASE ~jpeg
  <2>1. /\ Len(tryfmts) = 5 /\ tryfmts[1] = Try("YUYV", FALSE)
        /\ tryfmts[3] = Try("GRAY16", FALSE)
    BY <1>2, FormatsAre
  <2>2. Ways = [YUYV |-> {0}, GRAY16 |-> {0, 2}]
    BY <1>2 DEF Ways
  <2>3. /\ tried = 0 => Format.fmt = "YUYV" /\ ~Format.iscomp
        /\ tried = 2 => Format.fmt = "GRAY16" /\ ~Format.iscomp
    BY <2>1 DEF Format, Try
  <2>4. CASE cf = "YUYV"
    BY <2>1, <2>2, <2>3, <2>4 DEF Skips
  <2>5. CASE cf = "GRAY16"
    BY <2>1, <2>2, <2>3, <2>5 DEF Skips, AfterFailure
  <2>6. QED
    BY <2>2, <2>4, <2>5
<1>3. QED
  BY <1>1, <1>2

\* The guid of a format that libuvc knows.
LEMMA FormatOfGuid ==
  ASSUME NEW guid, NEW cf, uvc_frame_format_for_guid(guid) = cf,
         cf \in {"YUYV", "GRAY16", "MJPEG"}
  PROVE  Matches(cf, guid) /\ (cf = "MJPEG" <=> guid = "MJPG")
<1>1. \E f \in DOMAIN Guid : Guid[f] = guid
  BY DEF uvc_frame_format_for_guid
<1>2. Matches(cf, guid)
  BY <1>1 DEF uvc_frame_format_for_guid, Matches
<1>3. cf = "MJPEG" <=> guid = "MJPG"
  BY <1>2 DEF Matches, Guid
<1>4. QED
  BY <1>2, <1>3

\* The packets of a stream whose frames have a size.
LEMMA PacketsFound ==
  ASSUME NEW alts \in Seq(Nat), NEW need \in Nat \ {0}, NEW size \in Nat \ {0},
         NEW m \in DOMAIN alts, alts[m] > 0
  PROVE  /\ AltSetting(alts, need) # 0
         /\ alts[AltSetting(alts, need)] # 0
         /\ PacketsFor(size, alts[AltSetting(alts, need)]) # 0
<1> DEFINE alt == AltSetting(alts, need)
<1>1. alt # 0
  BY AltFound
<1>2. alt # 0 =>
        /\ alt \in DOMAIN alts /\ alts[alt] \in Nat
        /\ need # 0 => alts[alt] # 0
        /\ \/ alts[alt] >= need
           \/ \A n \in DOMAIN alts : alts[n] <= alts[alt]
  BY AltIs
<1> DEFINE bytes == alts[alt]
<1> HIDE DEF alt
<1>3. bytes \in Nat \ {0}
  BY <1>1, <1>2
<1> HIDE DEF bytes
<1>4. PacketsFor(size, bytes) # 0
  BY <1>3, PacketsIs
<1>5. QED
  BY <1>1, <1>3, <1>4 DEF alt, bytes

\* A camera that answers, with descriptors that describe streams, lets
\* uvc_stream_start succeed for what was negotiated with it.
LEMMA StreamStarts ==
  ASSUME NEW c \in Cameras, c.obeys, c.fails \subseteq {"GET_MAX", "hinted"},
         c.payload # 0, SizesKnown(c),
         \A k \in DOMAIN c.interfaces : Consistent(c.interfaces[k]),
         NEW t, NEW build, NEW cur, Obtained(c, t, build, cur)
  PROVE  Opened(c, Scanned(c.interfaces), cur) # NoStream
<1>1. WellFormed(c.interfaces) /\ c.payload \in Nat
  BY CamerasAssumption, AnswersAssumption
<1>2. PICK k, y : Names(c.interfaces, cur, k, y)
  BY DEF Obtained
<1> DEFINE this == c.interfaces[k]
           blocks == this.blocks
           need == BytesNeeded(blocks[y[2]], cur)
           format == uvc_frame_format_for_guid(blocks[y[1]].guid)
           alt == AltSetting(this.alts, need)
           bytes == this.alts[alt]
           packets == PacketsFor(cur.size, bytes)
           h == Opened(c, Scanned(c.interfaces), cur)
<1>3. k \in DOMAIN c.interfaces /\ y \in Listed(blocks)
  BY <1>2 DEF Names
<1>4. cur \in CtrlBlocks /\ cur.payload \in Nat \ {0}
  <2>1. cur \in CtrlBlocks /\ cur.payload \in {Unlimited, c.payload}
    BY DEF Obtained
  <2>2. QED
    BY <1>1, <2>1 DEF Unlimited
<1>5. format # "UNKNOWN"
  <2>1. AsAsked(c, t, build, cur)
    BY DEF Obtained
  <2>2. MeansIn(c, cur, k, y)
    BY <1>1, <1>2, MeantBlocks
  <2>3. Meant(c, cur.interface, cur.format, cur.frame).format = blocks[y[1]]
    BY <2>2 DEF MeansIn
  <2>4. PICK cf : Matches(cf, blocks[y[1]].guid)
    BY <2>1, <2>3 DEF AsAsked
  <2> HIDE DEF blocks
  <2>5. format \in DOMAIN Guid
    BY <2>4 DEF uvc_frame_format_for_guid, Matches
  <2>6. "UNKNOWN" \notin DOMAIN Guid
    BY DEF Guid
  <2>7. QED
    BY <2>5, <2>6
<1>6. cur.size \in Nat \ {0}
  BY <1>2, <1>5, SizeIs
<1>7. need \in Nat \ {0}
  <2>1. blocks[y[2]] \in FrameBlocks
    BY <1>1, <1>3, ListedBlocks
  <2>2. QED
    BY <1>4, <2>1, NeedIs
<1>8. Isochronous(this) => alt # 0 /\ bytes # 0 /\ packets # 0
  <2>1. this.alts \in Seq(Nat)
    BY <1>1, <1>3, ListedBlocks
  <2>2. ASSUME Isochronous(this)
        PROVE  \E m \in DOMAIN this.alts : this.alts[m] > 0
    BY <1>3, <2>2 DEF Consistent
  <2> HIDE DEF this, need
  <2>3. QED
    BY <1>6, <1>7, <2>1, <2>2, PacketsFound
<1>9. h = IF "COMMIT" \in c.fails \/ format = "UNKNOWN" THEN NoStream
          ELSE IF ~Isochronous(this)
               THEN Handle(cur, format, 0, 0, cur.payload)
          ELSE IF alt = 0 THEN NoStream
          ELSE IF bytes = 0 THEN Crashed
          ELSE IF (~(bytes >= need) /\ packets = 0) \/ "ALT" \in c.fails
               THEN NoStream
          ELSE Handle(cur, format, alt, packets, packets * bytes)
  BY <1>1, <1>2, OpenedIs DEF Outcome
<1>10. "COMMIT" \notin c.fails /\ "ALT" \notin c.fails
  OBVIOUS
<1>11. \A f, a, p, b : Handle(cur, f, a, p, b).interface = cur.interface
  BY DEF Handle
<1>12. cur.interface \in Nat /\ NoStream.interface = -1
  BY <1>4 DEF CtrlBlocks, NoStream
<1> HIDE DEF h, format, need, alt, bytes, packets, this
<1>13. h.interface = cur.interface
  BY <1>5, <1>8, <1>9, <1>10, <1>11
<1>14. h # NoStream
  BY <1>12, <1>13
<1>15. QED
  BY <1>14 DEF h

\* The settings keep to the table.
EntryKept == pc # "closed" /\ fmts # <<>> => FromEntry(tuvc, fmts)

\* The loop is on the way to the format of the entry.
OnTheWay ==
  pc = "trying" /\ Willing /\ Chosen \in DOMAIN Ways => tried \in Ways[Chosen]

\* A refusal is the last thing that happened.
RefusedIdle == result = "refused" => pc = "idle"

\* What the steps keep, on top of NegotiateInv.
StartsInv == EntryKept /\ OnTheWay /\ RefusedIdle /\ ReachedFormatStarts

\* The formats of ReachedFormatStarts are those with a way.
LEMMA WaysAre ==
  /\ DOMAIN Ways
       = {"YUYV", "GRAY16"} \union IF jpeg THEN {"MJPEG"} ELSE {}
  /\ \A cf \in DOMAIN Ways : 0 \in Ways[cf]
<1>1. CASE jpeg
  <2>1. Ways = [MJPEG |-> {0}, YUYV |-> {0, 1}, GRAY16 |-> {0, 1, 3}]
    BY <1>1 DEF Ways
  <2>2. QED
    BY <1>1, <2>1
<1>2. CASE ~jpeg
  <2>1. Ways = [YUYV |-> {0}, GRAY16 |-> {0, 2}]
    BY <1>2 DEF Ways
  <2>2. QED
    BY <1>2, <2>1
<1>3. QED
  BY <1>1, <1>2

\* Nothing that a start depends on changes while it is tried.
LEMMA SameChoice ==
  ASSUME cam' = cam, jpeg' = jpeg, info' = info, tuvc' = tuvc
  PROVE  /\ Willing' = Willing /\ Ways' = Ways
         /\ fmts' = fmts /\ Chosen' = Chosen
<1>1. Willing' = Willing
  BY DEF Willing, Cooperates
<1>2. Ways' = Ways
  BY DEF Ways
<1>3. fmts' = fmts
  BY DEF fmts
<1>4. Chosen' = Chosen
  BY <1>3 DEF Chosen
<1>5. QED
  BY <1>1, <1>2, <1>3, <1>4

\* Settings(index, entry) are from the entry; so are those with a rate of the
\* list.
LEMMA SettingsAre ==
  ASSUME NEW f \in Seq(Entries), NEW index, index + 1 \in DOMAIN f, NEW t,
         \/ t = Settings(index, f[index + 1])
         \/ \E r : /\ t = [Settings(index, f[index + 1]) EXCEPT !.fps = r]
                   /\ \E v \in ToSet(f[index + 1].frame.intervals) : r = Rate(v)
  PROVE  FromEntry(t, f)
<1> DEFINE e == f[index + 1]
           s == Settings(index, e)
<1>1. /\ s.usefmt = index /\ s.width = e.frame.width
      /\ s.height = e.frame.height /\ s.fps = Rate(e.frame.default)
      /\ s.iscomp = (e.format.subtype = "FORMAT_MJPEG")
  BY DEF Settings
<1>2. /\ t.usefmt = index /\ t.width = e.frame.width
      /\ t.height = e.frame.height
      /\ t.iscomp = (e.format.subtype = "FORMAT_MJPEG")
      /\ \/ t.fps = Rate(e.frame.default)
         \/ \E v \in ToSet(e.frame.intervals) : t.fps = Rate(v)
  <2>1. CASE t = s
    BY <1>1, <2>1
  <2>2. CASE t # s
    <3>1. PICK r : /\ t = [s EXCEPT !.fps = r]
                   /\ \E v \in ToSet(e.frame.intervals) : r = Rate(v)
      BY <2>2
    <3>2. /\ t.usefmt = s.usefmt /\ t.width = s.width
          /\ t.height = s.height /\ t.iscomp = s.iscomp /\ t.fps = r
      BY <3>1 DEF Settings
    <3> HIDE DEF s, e
    <3>3. QED
      BY <1>1, <3>1, <3>2
  <2>3. QED
    BY <2>1, <2>2
<1>3. f[t.usefmt + 1] = e
  BY <1>2
<1> HIDE DEF s, e
<1>4. QED
  BY <1>2, <1>3 DEF FromEntry

\* The entry that was chosen, for a camera that does its part.
LEMMA ChosenIs ==
  ASSUME NegotiateInv, EntryKept, pc # "closed", Willing,
         Chosen \in DOMAIN Ways
  PROVE  /\ info = Scanned(cam.interfaces) /\ Pays(cam)
         /\ FromEntry(tuvc, FormatTable(Scanned(cam.interfaces)))
         /\ Matches(Chosen, FormatTable(Scanned(cam.interfaces))
                              [tuvc.usefmt + 1].format.guid)
         /\ tuvc.iscomp <=> Chosen = "MJPEG"
<1> DEFINE f == FormatTable(Scanned(cam.interfaces))
           i == tuvc.usefmt + 1
           e == f[i]
<1>1. /\ cam \in Cameras /\ info = Scanned(cam.interfaces)
      /\ WellFormed(cam.interfaces)
  BY CameraIs DEF NegotiateInv
<1>2. Pays(cam)
  BY <1>1, CameraIs DEF Pays, Willing
<1>3. fmts = f
  BY <1>1 DEF fmts
<1>4. Chosen \in {"YUYV", "GRAY16", "MJPEG"}
  BY WaysAre
<1>5. f # <<>> /\ Chosen = uvc_frame_format_for_guid(e.format.guid)
  BY <1>3, <1>4 DEF Chosen
<1>6. FromEntry(tuvc, f)
  BY <1>3, <1>5 DEF EntryKept
<1>7. i \in DOMAIN f /\ tuvc.iscomp = (e.format.subtype = "FORMAT_MJPEG")
  BY <1>6 DEF FromEntry
<1>8. /\ Matches(Chosen, e.format.guid)
      /\ Chosen = "MJPEG" <=> e.format.guid = "MJPG"
  BY <1>4, <1>5, FormatOfGuid
<1>9. e.format.guid = "MJPG" <=> e.format.subtype = "FORMAT_MJPEG"
  <2> HIDE DEF i
  <2>1. PICK k \in DOMAIN cam.interfaces :
          \E x \in Listed(cam.interfaces[k].blocks) :
            Stands(cam.interfaces, e, k, x)
    BY <1>1, <1>7, TableListed
  <2> DEFINE blocks == cam.interfaces[k].blocks
  <2>2. PICK x \in Listed(blocks) : Stands(cam.interfaces, e, k, x)
    BY <2>1
  <2>3. FromBlock(e.format, blocks[x[1]])
    BY <2>2 DEF Stands
  <2>4. blocks[x[1]] \in FormatBlocks
    BY <1>1, ListedBlocks
  <2>5. blocks[x[1]].guid = "MJPG" => blocks[x[1]].subtype = "FORMAT_MJPEG"
    BY DEF Willing, Consistent
  <2> HIDE DEF blocks, e, f
  <2>6. QED
    BY <2>3, <2>4, <2>5 DEF FromBlock, FormatBlocks
<1>10. QED
  BY <1>1, <1>2, <1>6, <1>7, <1>8, <1>9

\* At the start nothing was refused.
LEMMA StartsInit == Init => StartsInv
BY DEF Init, StartsInv, EntryKept, OnTheWay, RefusedIdle, ReachedFormatStarts

\* uvc_open takes the first entry of the table.
LEMMA StartsOpen ==
  ASSUME NegotiateInv, StartsInv, OpenDevice
  PROVE  StartsInv'
<1>1. /\ cam' = cam /\ info' = Scanned(cam.interfaces) /\ pc = "closed"
      /\ pc' = "idle" /\ result' = result
      /\ tuvc' = IF FormatTable(info') = <<>> THEN Defaults
                 ELSE Settings(0, FormatTable(info')[1])
  BY DEF OpenDevice, Scanned
<1> DEFINE f == FormatTable(Scanned(cam.interfaces))
<1>2. f \in Seq(Entries)
  <2>1. WellFormed(cam.interfaces)
    BY CameraIs DEF NegotiateInv
  <2>2. QED
    BY <2>1, FormatTableIs
<1>3. fmts' = f
  BY <1>1 DEF fmts
<1> HIDE DEF f
<1>4. EntryKept'
  <2>1. ASSUME f # <<>>
        PROVE  FromEntry(tuvc', f)
    <3> DEFINE z == 0
    <3>1. z + 1 = 1 /\ z + 1 \in DOMAIN f
      BY <1>2, <2>1
    <3>2. tuvc' = Settings(z, f[z + 1])
      BY <1>1, <1>3, <2>1, <3>1 DEF fmts
    <3> HIDE DEF z
    <3>3. QED
      BY <1>2, <3>1, <3>2, SettingsAre
  <2>2. QED
    BY <1>3, <2>1 DEF EntryKept
<1>5. result' # "refused"
  BY <1>1 DEF StartsInv, RefusedIdle
<1>6. RefusedIdle' /\ ReachedFormatStarts'
  BY <1>5 DEF RefusedIdle, ReachedFormatStarts
<1>7. OnTheWay'
  BY <1>1 DEF OnTheWay
<1>8. QED
  BY <1>4, <1>6, <1>7 DEF StartsInv

\* "uvc format" takes an entry and a rate of it.
LEMMA StartsFormat ==
  ASSUME NegotiateInv, StartsInv, NEW index, NEW fps, CMD_format(index, fps)
  PROVE  StartsInv'
<1> DEFINE entry == fmts[index + 1]
           rates == [k \in DOMAIN entry.frame.intervals |->
                       Rate(entry.frame.intervals[k])]
<1>1. /\ index + 1 \in DOMAIN fmts /\ pc' = "idle" /\ result' = "none"
      /\ info' = info /\ pc = "idle"
      /\ tuvc' = IF fps > 0 /\ rates # <<>>
                 THEN [Settings(index, entry) EXCEPT
                         !.fps = FrameRate(rates, fps)]
                 ELSE Settings(index, entry)
  BY DEF CMD_format
<1>2. fmts \in Seq(Entries) /\ fmts' = fmts
  <2>1. WellFormed(cam.interfaces) /\ info = Scanned(cam.interfaces)
    BY <1>1, CameraIs DEF NegotiateInv
  <2>2. QED
    BY <1>1, <2>1, FormatTableIs DEF fmts
<1>3. rates # <<>> =>
        \E v \in ToSet(entry.frame.intervals) : FrameRate(rates, fps) = Rate(v)
  <2>1. entry \in Entries
    BY <1>1, <1>2
  <2>2. entry.frame \in FrameDescs
    BY <2>1 DEF Entries
  <2> HIDE DEF entry
  <2>3. QED
    BY <2>2, FrameRateIs
<1> HIDE DEF rates
<1>4. \/ tuvc' = Settings(index, entry)
      \/ \E r : /\ tuvc' = [Settings(index, entry) EXCEPT !.fps = r]
                /\ \E v \in ToSet(entry.frame.intervals) : r = Rate(v)
  BY <1>1, <1>3
<1>5. FromEntry(tuvc', fmts)
  BY <1>1, <1>2, <1>4, SettingsAre
<1>6. EntryKept' /\ OnTheWay'
  BY <1>1, <1>2, <1>5 DEF EntryKept, OnTheWay
<1>7. RefusedIdle' /\ ReachedFormatStarts'
  BY <1>1 DEF RefusedIdle, ReachedFormatStarts
<1>8. QED
  BY <1>6, <1>7 DEF StartsInv

\* The loop begins at the first format.
LEMMA StartsBegin ==
  ASSUME StartsInv, StartCapture
  PROVE  StartsInv'
<1>1. /\ cam' = cam /\ jpeg' = jpeg /\ info' = info /\ tuvc' = tuvc
      /\ pc = "idle" /\ tried' = 0 /\ result' = "none"
  BY DEF StartCapture
<1>2. Ways' = Ways /\ fmts' = fmts /\ Chosen' = Chosen
  BY <1>1, SameChoice
<1>3. OnTheWay'
  BY <1>1, <1>2, WaysAre DEF OnTheWay
<1>4. EntryKept'
  BY <1>1, <1>2 DEF StartsInv, EntryKept
<1>5. RefusedIdle' /\ ReachedFormatStarts'
  BY <1>1 DEF RefusedIdle, ReachedFormatStarts
<1>6. QED
  BY <1>3, <1>4, <1>5 DEF StartsInv

\* A format is passed over only on the way to the one that was chosen.
LEMMA StartsSkip ==
  ASSUME NegotiateInv, StartsInv, SkipFormat
  PROVE  StartsInv'
<1>1. /\ cam' = cam /\ jpeg' = jpeg /\ info' = info /\ tuvc' = tuvc
      /\ pc = "trying" /\ pc' = pc /\ result' = result
      /\ Skips /\ tried' = tried + 1
  BY DEF SkipFormat
<1>2. /\ Willing' = Willing /\ Ways' = Ways
      /\ fmts' = fmts /\ Chosen' = Chosen
  BY <1>1, SameChoice
<1>3. ASSUME Willing, Chosen \in DOMAIN Ways
      PROVE  tried + 1 \in Ways[Chosen]
  <2>1. tried \in Ways[Chosen]
    BY <1>1, <1>3 DEF StartsInv, OnTheWay
  <2>2. tuvc.iscomp <=> Chosen = "MJPEG"
    BY <1>1, <1>3, ChosenIs DEF StartsInv
  <2>3. jpeg \in BOOLEAN
    BY DEF NegotiateInv
  <2>4. QED
    BY <1>1, <1>3, <2>1, <2>2, <2>3, WayLeads
<1>4. OnTheWay'
  BY <1>1, <1>2, <1>3 DEF OnTheWay
<1>5. EntryKept'
  BY <1>1, <1>2 DEF StartsInv, EntryKept
<1>6. result' # "refused"
  BY <1>1 DEF StartsInv, RefusedIdle
<1>7. RefusedIdle' /\ ReachedFormatStarts'
  BY <1>6 DEF RefusedIdle, ReachedFormatStarts
<1>8. QED
  BY <1>4, <1>5, <1>7 DEF StartsInv

\* TryFormat does not fail with the format of the entry: the search finds at
\* least the entry itself, and the camera accepts it, with the hint or without.
LEMMA StartsTry ==
  ASSUME NegotiateInv, StartsInv, TryFormat
  PROVE  StartsInv'
<1>1. /\ cam' = cam /\ jpeg' = jpeg /\ info' = info /\ tuvc' = tuvc
      /\ pc = "trying" /\ ~Skips /\ result' = result
  BY DEF TryFormat
<1>2. /\ Willing' = Willing /\ Ways' = Ways
      /\ fmts' = fmts /\ Chosen' = Chosen
  BY <1>1, SameChoice
<1>3. PICK max \in IF "GET_MAX" \in cam.fails THEN {0, Unlimited}
                   ELSE {cam.payload} :
        LET asked == Found(cam, info, Format.fmt, tuvc, max)
            sent  == IF asked = NoCtrl THEN {} ELSE Probes(cam, asked)
        IN  \/ /\ \E p \in sent : ctrl' = FixUp(info, Accepts(cam, p))
               /\ pc' = "negotiated"
               /\ UNCHANGED tried
            \/ /\ sent = {}
               /\ tried' = AfterFailure(tried)
               /\ UNCHANGED <<ctrl, pc>>
  BY DEF TryFormat
<1> DEFINE asked == Found(cam, info, Format.fmt, tuvc, max)
           sent  == IF asked = NoCtrl THEN {} ELSE Probes(cam, asked)
<1>4. \/ pc' = "negotiated"
      \/ sent = {} /\ tried' = AfterFailure(tried) /\ pc' = pc
  BY <1>3
<1>5. ASSUME Willing, Chosen \in DOMAIN Ways, sent = {}
      PROVE  AfterFailure(tried) \in Ways[Chosen]
  <2>1. tried \in Ways[Chosen]
    BY <1>1, <1>5 DEF StartsInv, OnTheWay
  <2>2. /\ info = Scanned(cam.interfaces) /\ Pays(cam)
        /\ FromEntry(tuvc, FormatTable(Scanned(cam.interfaces)))
        /\ Matches(Chosen, FormatTable(Scanned(cam.interfaces))
                             [tuvc.usefmt + 1].format.guid)
        /\ tuvc.iscomp <=> Chosen = "MJPEG"
    BY <1>1, <1>5, ChosenIs DEF StartsInv
  <2>3. jpeg \in BOOLEAN /\ tuvc.fps \in Fps
    BY DEF NegotiateInv
  <2>4. Format.fmt # Chosen
    <3> SUFFICES ASSUME Format.fmt = Chosen PROVE FALSE
      OBVIOUS
    <3>1. max = cam.payload
      BY <1>3, <1>5 DEF Willing
    <3>2. \A k \in DOMAIN cam.interfaces : Consistent(cam.interfaces[k])
      BY <1>5 DEF Willing
    <3>3. Found(cam, Scanned(cam.interfaces), Chosen, tuvc, cam.payload)
            # NoCtrl
      BY <2>2, <2>3, <3>2, EntryFound
    <3>4. asked # NoCtrl
      BY <2>2, <3>1, <3>3
    <3> HIDE DEF asked
    <3>5. Probes(cam, asked) # {}
      <4> DEFINE again == [asked EXCEPT !.hint = FALSE]
      <4>1. "GET_CUR" \notin cam.fails
        BY <1>5 DEF Willing, Cooperates
      <4>2. again.hint = FALSE
        <5>1. asked \in CtrlBlocks
          <6>1. WellFormed(cam.interfaces)
            BY <2>2 DEF Pays
          <6>2. QED
            BY <2>2, <2>3, <3>4, <6>1, FoundIs DEF asked
        <5>2. QED
          BY <5>1 DEF CtrlBlocks
      <4>3. ~Refuses(cam, again)
        BY <4>1, <4>2 DEF Refuses
      <4> HIDE DEF again
      <4>4. QED
        BY <4>3 DEF Probes, again
    <3>6. QED
      BY <1>5, <3>4, <3>5
  <2>5. QED
    BY <1>1, <1>5, <2>1, <2>2, <2>3, <2>4, WayLeads
<1> HIDE DEF sent
<1>6. OnTheWay'
  BY <1>1, <1>2, <1>4, <1>5 DEF OnTheWay
<1>7. EntryKept'
  BY <1>1, <1>2 DEF StartsInv, EntryKept
<1>8. result' # "refused"
  BY <1>1 DEF StartsInv, RefusedIdle
<1>9. RefusedIdle' /\ ReachedFormatStarts'
  BY <1>8 DEF RefusedIdle, ReachedFormatStarts
<1>10. QED
  BY <1>6, <1>7, <1>9 DEF StartsInv

\* The loop does not come to its end on the way.
LEMMA StartsEnd ==
  ASSUME NegotiateInv, StartsInv, NoFormat
  PROVE  StartsInv'
<1>1. /\ cam' = cam /\ jpeg' = jpeg /\ info' = info /\ tuvc' = tuvc
      /\ pc = "trying" /\ tried >= Len(tryfmts) /\ pc' = "idle"
  BY DEF NoFormat
<1>2. /\ Willing' = Willing /\ Ways' = Ways
      /\ fmts' = fmts /\ Chosen' = Chosen
  BY <1>1, SameChoice
<1>3. ~(Willing /\ Chosen \in DOMAIN Ways)
  <2> SUFFICES ASSUME Willing, Chosen \in DOMAIN Ways PROVE FALSE
    OBVIOUS
  <2>1. tried \in Ways[Chosen]
    BY <1>1 DEF StartsInv, OnTheWay
  <2>2. tuvc.iscomp <=> Chosen = "MJPEG"
    BY <1>1, ChosenIs DEF StartsInv
  <2>3. jpeg \in BOOLEAN
    BY DEF NegotiateInv
  <2>4. /\ Len(tryfmts) \in Nat /\ tried \in Nat /\ tried < Len(tryfmts)
    BY <2>1, <2>2, <2>3, WayLeads, TryFormats
  <2>5. QED
    BY <1>1, <2>4
<1>4. ReachedFormatStarts'
  BY <1>1, <1>2, <1>3, WaysAre DEF ReachedFormatStarts
<1>5. EntryKept' /\ OnTheWay' /\ RefusedIdle'
  BY <1>1, <1>2 DEF StartsInv, EntryKept, OnTheWay, RefusedIdle
<1>6. QED
  BY <1>4, <1>5 DEF StartsInv

\* What was negotiated can be streamed.
LEMMA StartsStreaming ==
  ASSUME NegotiateInv, StartsInv, StartStreaming
  PROVE  StartsInv'
<1>1. /\ cam' = cam /\ jpeg' = jpeg /\ info' = info /\ tuvc' = tuvc
      /\ pc = "negotiated" /\ strmh' = Opened(cam, info, ctrl)
      /\ result' = "refused" => pc' = "idle" /\ strmh' = NoStream
      /\ pc' \in {"idle", "crashed", "running"}
  BY DEF StartStreaming
<1>2. /\ Willing' = Willing /\ fmts' = fmts
  BY <1>1, SameChoice
<1>3. EntryKept' /\ OnTheWay' /\ RefusedIdle'
  BY <1>1, <1>2 DEF StartsInv, EntryKept, OnTheWay, RefusedIdle
<1>4. ASSUME Willing
      PROVE  strmh' # NoStream
  <2>1. /\ cam \in Cameras /\ info = Scanned(cam.interfaces)
        /\ Obtained(cam, tuvc, jpeg, ctrl)
    BY <1>1 DEF NegotiateInv
  <2>2. /\ cam.obeys /\ cam.fails \subseteq {"GET_MAX", "hinted"}
        /\ cam.payload # 0 /\ SizesKnown(cam)
        /\ \A k \in DOMAIN cam.interfaces : Consistent(cam.interfaces[k])
    BY <1>4 DEF Willing, Cooperates
  <2>3. QED
    BY <1>1, <2>1, <2>2, StreamStarts
<1>5. ReachedFormatStarts'
  BY <1>1, <1>2, <1>4 DEF ReachedFormatStarts
<1>6. QED
  BY <1>3, <1>5 DEF StartsInv

\* A stream that is stopped, and steps that change nothing.
LEMMA StartsOther ==
  ASSUME StartsInv, StopCapture \/ UNCHANGED vars
  PROVE  StartsInv'
<1>1. /\ cam' = cam /\ jpeg' = jpeg /\ info' = info /\ tuvc' = tuvc
      /\ tried' = tried
  BY DEF StopCapture, vars
<1>2. /\ Willing' = Willing /\ Ways' = Ways
      /\ fmts' = fmts /\ Chosen' = Chosen
  BY <1>1, SameChoice
<1>3. CASE StopCapture
  <2>1. pc = "running" /\ pc' = "idle" /\ result' = "none"
    BY <1>3 DEF StopCapture
  <2>2. EntryKept' /\ OnTheWay'
    BY <1>1, <1>2, <2>1 DEF StartsInv, EntryKept, OnTheWay
  <2>3. RefusedIdle' /\ ReachedFormatStarts'
    BY <2>1 DEF RefusedIdle, ReachedFormatStarts
  <2>4. QED
    BY <2>2, <2>3 DEF StartsInv
<1>4. CASE UNCHANGED vars
  <2>1. pc' = pc /\ result' = result
    BY <1>4 DEF vars
  <2>2. EntryKept' /\ OnTheWay' /\ RefusedIdle'
    BY <1>1, <1>2, <2>1 DEF StartsInv, EntryKept, OnTheWay, RefusedIdle
  <2>3. ReachedFormatStarts'
    BY <1>1, <1>2, <2>1 DEF StartsInv, ReachedFormatStarts
  <2>4. QED
    BY <2>2, <2>3 DEF StartsInv
<1>5. QED
  BY <1>3, <1>4

\* Every step keeps StartsInv.
LEMMA StartsNext ==
  NegotiateInv /\ StartsInv /\ [Next]_vars => StartsInv'
<1> SUFFICES ASSUME NegotiateInv, StartsInv, [Next]_vars
             PROVE  StartsInv'
  OBVIOUS
<1>1. CASE OpenDevice
  BY <1>1, StartsOpen
<1>2. ASSUME NEW index, NEW fps, CMD_format(index, fps)
      PROVE  StartsInv'
  BY <1>2, StartsFormat
<1>3. CASE StartCapture
  BY <1>3, StartsBegin
<1>4. CASE SkipFormat
  BY <1>4, StartsSkip
<1>5. CASE TryFormat
  BY <1>5, StartsTry
<1>6. CASE NoFormat
  BY <1>6, StartsEnd
<1>7. CASE StartStreaming
  BY <1>7, StartsStreaming
<1>8. CASE StopCapture \/ UNCHANGED vars
  BY <1>8, StartsOther
<1>9. QED
  BY <1>1, <1>2, <1>3, <1>4, <1>5, <1>6, <1>7, <1>8 DEF Next

\* "uvc start" is not refused for an entry in MJPEG, YUYV or 16 bit grey, if
\* the camera answers and its descriptors describe streams (tcluvc.c:2190).
THEOREM ChosenFormatStarts == Spec => []ReachedFormatStarts
<1>1. Init => StartsInv
  BY StartsInit
<1>2. NegotiateInv /\ StartsInv /\ [Next]_vars => StartsInv'
  BY StartsNext
<1>3. StartsInv => ReachedFormatStarts
  BY DEF StartsInv
<1>4. QED
  BY <1>1, <1>2, <1>3, NegotiateInvariant, PTL DEF Spec

=============================================================================
