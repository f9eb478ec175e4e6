---------------------------- MODULE Media_proofs ----------------------------
(***************************************************************************)
(* Proofs about what becomes of a frame: AviWriter, for recordings of any  *)
(* number of frames of any sizes, in segments of any length, and           *)
(* UvcImages, for frames of any size, any scenes, masks, rotations and     *)
(* shifts of up to eight bits.                                             *)
(*                                                                         *)
(* In the first half, the first segment is taken for one that an AVIX      *)
(* header at position Base begins: FirstMovi has the same bounds then as   *)
(* the others.                                                             *)
(*                                                                         *)
(* The second half goes from the bytes to the picture.  ConvertedData is   *)
(* about the colours: whatever the format, byte k of pixel i is close to   *)
(* what should be seen there.  OrientedFinds is about the block: rotated   *)
(* and mirrored, its pointer arithmetic finds at each place the pixel that *)
(* turning and reversing the picture has there.  PutBlockIs joins the two, *)
(* and the inductive invariant, ImagesInv, says that the arrays and the    *)
(* last frame are of the camera, so that a command meets the shapes these  *)
(* lemmas speak of.                                                        *)
(***************************************************************************)
EXTENDS AviWriter, UvcImages, FiniteSetTheorems, TLAPS

-----------------------------------------------------------------------------
(***************************************************************************)
(* AviWriter.  Types and the invariant.                                    *)
(***************************************************************************)

AvixHead == [riff : Nat, data : Nat]
Avixes   == UNION {[D -> AvixHead] : D \in SUBSET Nat}
Table    == [present : BOOLEAN, entries : Seq(Entry)]
FirstHead == [riff : Nat, data : Nat, nframes : Nat, total : Nat,
              indexed : BOOLEAN]

Writer == [nframes : Nat, nframes0 : Nat, totsize : Nat, segsize : Nat,
           segsize0 : Nat, segstart : Nat, idx_off : Nat, num_idx : Nat,
           idx : Table]

File == [len : Nat, chunks : Seq(Chunk), avix : Avixes, head : FirstHead,
         idx1 : Seq(Entry), idxAt : Nat, torn : BOOLEAN, gap : BOOLEAN]

\* The counts in memory fit each other and the file.
CountsInv ==
  /\ avi.nframes = Len(file.chunks)
  /\ avi.segsize <= avi.totsize
  /\ Len(avi.idx.entries) <= avi.num_idx
  /\ avi.idx.present => ~LaterSegment(avi)
  /\ rchan = "avi" /\ ~AllWhole(file) => error

TypeInv ==
  /\ rchan \in {"none", "avi", "mjpeg"} /\ error \in BOOLEAN
  /\ avi \in Writer /\ file \in File /\ done \in File
  /\ CountsInv

-----------------------------------------------------------------------------
(***************************************************************************)
(* Types of the operators.                                                 *)
(***************************************************************************)

LEMMA Alignment ==
  ASSUME NEW size \in Nat
  PROVE  /\ Aligned(size) \in Nat /\ size <= Aligned(size)
         /\ Aligned(size) <= size + 3
         /\ ChunkBytes(size) \in Nat /\ ChunkBytes(size) = 8 + Aligned(size)
  BY DEF Aligned, ChunkBytes, CHUNK_HDR

LEMMA AvixType ==
  ASSUME NEW x \in Avixes
  PROVE  /\ DOMAIN x \subseteq Nat /\ x \in [DOMAIN x -> AvixHead]
         /\ \A p \in DOMAIN x : x[p].riff \in Nat /\ x[p].data \in Nat
<1>1. PICK D \in SUBSET Nat : x \in [D -> AvixHead]
  BY DEF Avixes
<1>2. DOMAIN x = D
  BY <1>1
<1>3. QED
  BY <1>1, <1>2 DEF AvixHead

\* Table x is table y with the sizes of one header put into it.
Puts(x, y, pos, riff, data) ==
  /\ x \in Avixes /\ DOMAIN x = DOMAIN y \cup {pos}
  /\ \A p \in DOMAIN x : x[p] = IF p = pos THEN [riff |-> riff, data |-> data]
                                         ELSE y[p]

LEMMA AvixAtType ==
  ASSUME NEW f, f.avix \in Avixes, NEW pos \in Nat, NEW riff \in Nat, NEW data \in Nat
  PROVE  Puts(AvixAt(f, pos, riff, data), f.avix, pos, riff, data)
<1> DEFINE D == DOMAIN f.avix \cup {pos}
           x == AvixAt(f, pos, riff, data)
<1>1. D \in SUBSET Nat
  BY AvixType
<1>2. /\ DOMAIN x = D
      /\ \A p \in D : x[p] = IF p = pos THEN [riff |-> riff, data |-> data]
                                        ELSE f.avix[p]
  BY DEF AvixAt
<1>3. x \in [D -> AvixHead]
  <2>1. \A p \in D : (IF p = pos THEN [riff |-> riff, data |-> data]
                                 ELSE f.avix[p]) \in AvixHead
    BY AvixType DEF AvixHead
  <2>2. QED
    BY <2>1 DEF AvixAt
<1>4. x \in Avixes
  BY <1>1, <1>3 DEF Avixes
<1>5. QED
  BY <1>2, <1>4 DEF Puts

LEMMA ZeroTypes ==
  /\ ZeroAvi \in Writer /\ NoFile \in File
  /\ NoFile.chunks = << >> /\ DOMAIN NoFile.avix = {}
  /\ ZeroAvi.nframes = 0 /\ ZeroAvi.segsize = 0 /\ ZeroAvi.totsize = 0
  /\ ZeroAvi.idx.entries = << >> /\ ZeroAvi.num_idx = 0 /\ ~ZeroAvi.idx.present
  /\ ~NoFile.gap /\ ~NoFile.torn
<1>1. << >> \in Seq(Entry) /\ << >> \in Seq(Chunk) /\ DOMAIN << >> = {}
  OBVIOUS
<1>2. << >> \in Avixes
  <2>1. << >> \in [{} -> AvixHead]
    BY <1>1
  <2>2. QED
    BY <2>1 DEF Avixes
<1>3. ZeroHead \in FirstHead
  BY DEF ZeroHead, FirstHead
<1>4. NullIdx \in Table
  BY <1>1 DEF NullIdx, Table
<1>5. ZeroAvi \in Writer
  BY <1>4 DEF ZeroAvi, Writer
<1>6. NoFile \in File
  BY <1>1, <1>2, <1>3 DEF NoFile, File
<1>7. QED
  BY <1>1, <1>5, <1>6 DEF ZeroAvi, NoFile, NullIdx

\* What WriteAVIHeader puts into the first header concerns nothing else.
LEMMA HeaderWrittenType ==
  ASSUME NEW a \in Writer, NEW f \in File
  PROVE  LET g == HeaderWritten(a, f) IN
         /\ g \in File /\ g.head.data = a.segsize0 + 4
         /\ g.head.nframes = a.nframes0 /\ g.head.total = a.nframes
         /\ ~g.head.indexed
         /\ g.chunks = f.chunks /\ g.len = f.len /\ g.avix = f.avix
         /\ g.torn = f.torn /\ g.gap = f.gap
<1>1. HdrSize \in Nat
  BY AviAssumption
<1>2. /\ HeadOf(a, 0, FALSE) \in FirstHead
      /\ HeadOf(a, 0, FALSE).data = a.segsize0 + 4
      /\ HeadOf(a, 0, FALSE).nframes = a.nframes0
      /\ HeadOf(a, 0, FALSE).total = a.nframes
      /\ ~HeadOf(a, 0, FALSE).indexed
  BY <1>1 DEF HeadOf, FirstHead, Writer
<1> DEFINE h == HeadOf(a, 0, FALSE)
<1>3. HeaderWritten(a, f) = [f EXCEPT !.head = h]
  BY DEF HeaderWritten
<1> HIDE DEF h
<1>4. QED
  BY <1>2, <1>3 DEF File, h

LEMMA SizesIntoType ==
  ASSUME NEW a \in Writer, NEW f \in File, NEW bad
  PROVE  LET g == SizesInto(a, f, bad) IN
         /\ g \in File
         /\ g.chunks = f.chunks /\ g.len = f.len /\ g.gap = f.gap
         /\ (g.torn <=> f.torn \/ bad = "sizes")
         /\ bad # "sizes" =>
              g.avix = AvixAt(f, a.segstart, a.segsize + 16, a.segsize + 4)
<1> DEFINE x == AvixAt(f, a.segstart, a.segsize + 16, a.segsize + 4)
<1>1. x \in Avixes
  <2>1. /\ f.avix \in Avixes /\ a.segstart \in Nat
        /\ a.segsize + 16 \in Nat /\ a.segsize + 4 \in Nat
    BY SMTT(60) DEF File, Writer
  <2>2. QED
    BY <2>1, AvixAtType, ZenonT(120) DEF Puts
<1> HIDE DEF x
<1>2. CASE bad = "sizes"
  <2>1. SizesInto(a, f, bad) = [f EXCEPT !.torn = TRUE]
    BY <1>2 DEF SizesInto
  <2>2. QED
    BY <1>2, <2>1 DEF File
<1>3. CASE bad # "sizes"
  <2>1. SizesInto(a, f, bad) = [f EXCEPT !.avix = x]
    BY <1>3 DEF SizesInto, x
  <2>2. QED
    BY <1>1, <1>3, <2>1 DEF File, x
<1>4. QED
  BY <1>2, <1>3

LEMMA NextHeaderType ==
  ASSUME NEW f \in File, NEW bad
  PROVE  LET g == NextHeader(f, bad) IN
         /\ g \in File
         /\ g.chunks = f.chunks /\ g.gap = f.gap
         /\ (g.torn <=> f.torn \/ bad = "next")
         /\ bad # "next" => /\ g.avix = AvixAt(f, f.len, 0, 0)
                            /\ g.len = f.len + 24
<1> DEFINE x == AvixAt(f, f.len, 0, 0)
           n == f.len + AVIX_HDR
<1>1. x \in Avixes
  <2>1. f.avix \in Avixes /\ f.len \in Nat /\ 0 \in Nat
    BY DEF File
  <2>2. QED
    BY <2>1, AvixAtType DEF Puts
<1>2. n \in Nat /\ n = f.len + 24
  BY DEF File, AVIX_HDR
<1> HIDE DEF x, n
<1>3. CASE bad = "next"
  BY <1>3 DEF NextHeader, File
<1>4. CASE bad # "next"
  <2>1. NextHeader(f, bad) = [f EXCEPT !.avix = x, !.len = n]
    BY <1>4 DEF NextHeader, x, n
  <2>2. QED
    BY <1>1, <1>2, <1>4, <2>1 DEF File, x
<1>5. QED
  BY <1>3, <1>4

\* What CloseAVISegment leaves, whether it is called at the end of the recording
\* or to begin a segment, and whatever comes out short.
Closes(a, f, err, c) ==
  /\ c.avi \in Writer /\ c.file \in File /\ c.error \in BOOLEAN
  /\ c.avi.nframes = a.nframes /\ c.avi.totsize = a.totsize
  /\ c.avi.num_idx = a.num_idx /\ c.avi.idx = a.idx
  /\ c.avi.nframes0 = IF LaterSegment(a) THEN a.nframes0 ELSE a.nframes
  /\ c.avi.segsize0 = IF LaterSegment(a) THEN a.segsize0 ELSE a.segsize
  /\ ~err \/ LaterSegment(a) => c.avi.segsize = 0 /\ c.avi.segstart = f.len
  /\ c.avi.segsize \in {0, a.segsize}
  /\ c.file.chunks = f.chunks /\ c.file.gap = f.gap
  /\ f.torn => c.file.torn

LEMMA CloseType ==
  ASSUME NEW a \in Writer, NEW f \in File, NEW err \in BOOLEAN,
         NEW end \in BOOLEAN, NEW bad
  PROVE  Closes(a, f, err, CloseAVISegment(a, f, err, end, bad))
<1> DEFINE c      == CloseAVISegment(a, f, err, end, bad)
           first  == ~LaterSegment(a)
           counts == [a EXCEPT !.nframes0 = a.nframes, !.segsize0 = a.segsize]
           b      == IF first THEN counts ELSE a
           closed == IF first THEN HeaderWritten(b, f) ELSE SizesInto(a, f, bad)
           opens  == ~end /\ (first \/ bad # "sizes")
           moved  == [b EXCEPT !.segsize = 0, !.segstart = f.len]
<1>1. /\ b \in Writer /\ b.nframes = a.nframes /\ b.totsize = a.totsize
      /\ b.num_idx = a.num_idx /\ b.idx = a.idx /\ b.segsize = a.segsize
      /\ b.nframes0 = IF LaterSegment(a) THEN a.nframes0 ELSE a.nframes
      /\ b.segsize0 = IF LaterSegment(a) THEN a.segsize0 ELSE a.segsize
  BY DEF Writer
<1> HIDE DEF b
<1>2. /\ closed \in File /\ closed.chunks = f.chunks /\ closed.gap = f.gap
      /\ f.torn => closed.torn
  <2>1. CASE first
    <3>1. closed = HeaderWritten(b, f)
      BY <2>1
    <3> HIDE DEF closed
    <3>2. QED
      BY <1>1, <3>1, HeaderWrittenType
  <2>2. CASE ~first
    <3>1. closed = SizesInto(a, f, bad)
      BY <2>2
    <3> HIDE DEF closed
    <3>2. QED
      BY <3>1, SizesIntoType
  <2>3. QED
    BY <2>1, <2>2
<1> HIDE DEF closed
<1>3. /\ moved \in Writer /\ moved.nframes = a.nframes /\ moved.totsize = a.totsize
      /\ moved.num_idx = a.num_idx /\ moved.idx = a.idx
      /\ moved.segsize = 0 /\ moved.segstart = f.len
      /\ moved.nframes0 = b.nframes0 /\ moved.segsize0 = b.segsize0
  <2>1. f.len \in Nat
    BY DEF File
  <2>2. QED
    BY <1>1, <2>1 DEF Writer
<1>4. /\ NextHeader(closed, bad) \in File
      /\ NextHeader(closed, bad).chunks = f.chunks
      /\ NextHeader(closed, bad).gap = f.gap
      /\ f.torn => NextHeader(closed, bad).torn
  BY <1>2, NextHeaderType
<1>5. CASE first /\ err
  <2>1. c = [avi |-> b, file |-> closed, error |-> err]
    BY <1>5 DEF CloseAVISegment, b, closed
  <2> HIDE DEF c
  <2>2. c.avi = b /\ c.file = closed /\ c.error = TRUE
    BY <1>5, <2>1
  <2>3. QED
    BY <1>1, <1>2, <1>5, <2>2 DEF c, Closes
<1>6. CASE ~(first /\ err)
  <2>1. c = [avi |-> moved, file |-> IF opens THEN NextHeader(closed, bad) ELSE closed,
             error |-> err \/ (~first /\ bad = "sizes")
                           \/ (opens /\ bad = "next")]
    BY <1>6 DEF CloseAVISegment, b, closed
  <2> HIDE DEF c, moved
  <2>2. /\ c.avi = moved /\ c.error \in BOOLEAN
        /\ c.file = IF opens THEN NextHeader(closed, bad) ELSE closed
    BY <2>1
  <2>3. QED
    BY <1>1, <1>2, <1>3, <1>4, <2>2 DEF c, Closes
<1>7. QED
  BY <1>5, <1>6

\* The file that is left when the first header has been written for good.
LEMMA FinalHeaderType ==
  ASSUME NEW a \in Writer, NEW f \in File, NEW whole \in BOOLEAN
  PROVE  LET g == FinalHeader(a, f, whole) IN
         /\ g \in File
         /\ g.head.data = a.segsize0 + 4
         /\ g.head.nframes = a.nframes0 /\ g.head.total = a.nframes
         /\ g.chunks = f.chunks /\ g.avix = f.avix /\ g.gap = f.gap
         /\ f.torn => g.torn
         /\ g.head.indexed => a.idx.present
         /\ g.head.indexed /\ ~g.torn =>
              g.idx1 = a.idx.entries /\ g.idxAt = f.len
<1>1. CASE ~a.idx.present
  BY <1>1, HeaderWrittenType DEF FinalHeader
<1>2. CASE a.idx.present
  <2> DEFINE size  == CHUNK_HDR + AVI_IDX * Len(a.idx.entries)
             h     == HeadOf(a, size, TRUE)
             index == IF whole THEN a.idx.entries ELSE << >>
             len   == IF whole THEN f.len + size ELSE f.len
             torn  == f.torn \/ ~whole
  <2>1. /\ size \in Nat /\ f.len \in Nat /\ a.idx.entries \in Seq(Entry)
        /\ HdrSize \in Nat /\ << >> \in Seq(Entry)
    BY AviAssumption DEF Writer, Table, File, CHUNK_HDR, AVI_IDX
  <2> HIDE DEF size
  <2>2. /\ h \in FirstHead /\ h.data = a.segsize0 + 4
        /\ h.nframes = a.nframes0 /\ h.total = a.nframes
    BY <2>1, SMTT(120) DEF HeadOf, FirstHead, Writer
  <2>3. FinalHeader(a, f, whole) =
          [f EXCEPT !.head = h, !.idxAt = f.len, !.idx1 = index,
                    !.len = len, !.torn = torn]
    BY <1>2 DEF FinalHeader, size
  <2>4. index \in Seq(Entry) /\ len \in Nat /\ torn \in BOOLEAN
        /\ (whole => index = a.idx.entries) /\ (f.torn => torn) /\ (~torn => whole)
    BY <2>1
  <2> HIDE DEF h, index, len, torn
  <2> DEFINE g == FinalHeader(a, f, whole)
  <2>5. /\ g \in File /\ g.head = h /\ g.idxAt = f.len /\ g.idx1 = index
        /\ g.torn = torn
        /\ g.chunks = f.chunks /\ g.avix = f.avix /\ g.gap = f.gap
    BY <2>1, <2>2, <2>3, <2>4, ZenonT(60) DEF File
  <2> HIDE DEF g
  <2>6. QED
    BY <1>2, <2>2, <2>4, <2>5 DEF g
<1>3. QED
  BY <1>1, <1>2

\* The counts with a frame of a size added, and the file with its chunk, of which
\* n bytes were written.
Counted(a, size) ==
  [a EXCEPT !.nframes = @ + 1, !.totsize = @ + ChunkBytes(size),
            !.segsize = @ + ChunkBytes(size)]

ChunkOf(f, size, n) ==
  [at |-> f.len, size |-> Aligned(size), whole |-> ~(n < ChunkBytes(size))]

Extended(f, size, n) ==
  [f EXCEPT !.chunks = Append(@, ChunkOf(f, size, n)), !.len = @ + n]

LEMMA CountedType ==
  ASSUME NEW a \in Writer, NEW size \in Nat
  PROVE  LET b == Counted(a, size) IN
         /\ b \in Writer
         /\ b.nframes = a.nframes + 1
         /\ b.totsize = a.totsize + ChunkBytes(size)
         /\ b.segsize = a.segsize + ChunkBytes(size)
         /\ b.nframes0 = a.nframes0 /\ b.segsize0 = a.segsize0
         /\ b.segstart = a.segstart /\ b.idx_off = a.idx_off
         /\ b.num_idx = a.num_idx /\ b.idx = a.idx
         /\ LaterSegment(b) <=> LaterSegment(a)
<1> DEFINE n == a.nframes + 1
           t == a.totsize + ChunkBytes(size)
           s == a.segsize + ChunkBytes(size)
           b == Counted(a, size)
<1>1. n \in Nat /\ t \in Nat /\ s \in Nat /\ (t > s <=> a.totsize > a.segsize)
  BY Alignment, SMTT(60) DEF Writer
<1>2. b = [a EXCEPT !.nframes = n, !.totsize = t, !.segsize = s]
  BY DEF Counted
<1> HIDE DEF b, n, t, s
<1>3. /\ b \in Writer /\ b.nframes = n /\ b.totsize = t /\ b.segsize = s
      /\ b.nframes0 = a.nframes0 /\ b.segsize0 = a.segsize0
      /\ b.segstart = a.segstart /\ b.idx_off = a.idx_off
      /\ b.num_idx = a.num_idx /\ b.idx = a.idx
  BY <1>1, <1>2 DEF Writer
<1>4. QED
  BY <1>1, <1>3 DEF b, n, t, s, LaterSegment

LEMMA ReachType ==
  ASSUME NEW size \in Nat, NEW n \in Reach(size)
  PROVE  /\ n \in Nat /\ n <= ChunkBytes(size)
         /\ ~(n < ChunkBytes(size)) => n = ChunkBytes(size)
<1>1. /\ ChunkBytes(size) \in Nat /\ 8 + size <= ChunkBytes(size)
      /\ 8 + size \in Nat
  BY Alignment
<1>2. n = 0 \/ n = 8 \/ n = 8 + size \/ n = ChunkBytes(size)
  BY DEF Reach, CHUNK_HDR
<1>3. QED
  BY <1>1, <1>2

LEMMA ExtendedType ==
  ASSUME NEW f \in File, NEW size \in Nat, NEW n \in Nat
  PROVE  LET g == Extended(f, size, n)
             k == Len(f.chunks) + 1
         IN
         /\ g \in File /\ g.len = f.len + n /\ g.avix = f.avix
         /\ g.torn = f.torn /\ g.gap = f.gap
         /\ Len(g.chunks) = k /\ DOMAIN g.chunks = 1..k
         /\ DOMAIN f.chunks = 1..Len(f.chunks) /\ Len(f.chunks) \in Nat
         /\ g.chunks[k] = ChunkOf(f, size, n)
         /\ \A i \in DOMAIN f.chunks : g.chunks[i] = f.chunks[i]
<1> DEFINE d == Append(f.chunks, ChunkOf(f, size, n))
           m == f.len + n
           g == Extended(f, size, n)
           k == Len(f.chunks) + 1
<1>1. f.chunks \in Seq(Chunk) /\ m \in Nat
  BY DEF File
<1>2. ChunkOf(f, size, n) \in Chunk
  <2>1. f.len \in Nat /\ Aligned(size) \in Nat
    BY Alignment DEF File
  <2>2. QED
    BY <2>1 DEF Chunk, ChunkOf
<1>3. /\ d \in Seq(Chunk) /\ Len(d) = k /\ DOMAIN d = 1..k
      /\ DOMAIN f.chunks = 1..Len(f.chunks) /\ Len(f.chunks) \in Nat
      /\ d[k] = ChunkOf(f, size, n)
      /\ \A i \in DOMAIN f.chunks : d[i] = f.chunks[i]
  BY <1>1, <1>2
<1>4. g = [f EXCEPT !.chunks = d, !.len = m]
  BY DEF Extended
<1> HIDE DEF d, m, g
<1>5. /\ g \in File /\ g.len = m /\ g.avix = f.avix
      /\ g.torn = f.torn /\ g.gap = f.gap /\ g.chunks = d
  BY <1>1, <1>3, <1>4 DEF File
<1>6. QED
  BY <1>3, <1>5 DEF g, m

LEMMA IndexedType ==
  ASSUME NEW a \in Writer, NEW size \in Nat, NEW grown \in BOOLEAN,
         Len(a.idx.entries) <= a.num_idx
  PROVE  LET b == Indexed(a, size, grown) IN
         /\ b \in Writer
         /\ b.nframes = a.nframes /\ b.nframes0 = a.nframes0
         /\ b.totsize = a.totsize /\ b.segsize = a.segsize
         /\ b.segsize0 = a.segsize0 /\ b.segstart = a.segstart
         /\ Len(b.idx.entries) <= b.num_idx
         /\ b.idx.present =>
              /\ b.idx_off = a.idx_off + ChunkBytes(size)
              /\ b.idx.entries =
                   Append(a.idx.entries, [offset |-> a.idx_off, size |-> Aligned(size)])
<1> DEFINE full    == Len(a.idx.entries) >= a.num_idx
           entry   == [offset |-> a.idx_off, size |-> Aligned(size)]
           entries == Append(a.idx.entries, entry)
           num     == IF full THEN a.num_idx + IdxGrow ELSE a.num_idx
           off     == a.idx_off + ChunkBytes(size)
           table   == [present |-> TRUE, entries |-> entries]
           b       == Indexed(a, size, grown)
<1>1. /\ a.idx_off \in Nat /\ a.num_idx \in Nat /\ a.idx.entries \in Seq(Entry)
      /\ Aligned(size) \in Nat /\ ChunkBytes(size) \in Nat /\ IdxGrow \in Nat \ {0}
  BY Alignment, AviAssumption DEF Writer, Table
<1>2. entry \in Entry
  BY <1>1 DEF Entry
<1> HIDE DEF entry
<1>3. entries \in Seq(Entry) /\ Len(entries) = Len(a.idx.entries) + 1
  BY <1>1, <1>2
<1>4. num \in Nat /\ off \in Nat /\ Len(a.idx.entries) + 1 <= num
  <2>1. Len(a.idx.entries) \in Nat
    BY <1>1
  <2>2. QED
    BY <1>1, <2>1, SMTT(120)
<1> HIDE DEF entries
<1>5. table \in Table
  BY <1>3 DEF Table
<1>6. CASE full /\ ~grown
  <2>1. b = [a EXCEPT !.num_idx = 0, !.idx = NullIdx]
    BY <1>6 DEF Indexed
  <2>2. /\ NullIdx \in Table /\ ~NullIdx.present /\ Len(NullIdx.entries) = 0
    <3>1. << >> \in Seq(Entry) /\ Len(<< >>) = 0
      OBVIOUS
    <3>2. QED
      BY <3>1 DEF NullIdx, Table
  <2> HIDE DEF b
  <2>3. /\ b \in Writer
        /\ b.nframes = a.nframes /\ b.nframes0 = a.nframes0
        /\ b.totsize = a.totsize /\ b.segsize = a.segsize
        /\ b.segsize0 = a.segsize0 /\ b.segstart = a.segstart
        /\ b.num_idx = 0 /\ b.idx = NullIdx
    BY <2>1, <2>2 DEF Writer
  <2>4. QED
    BY <2>2, <2>3 DEF b
<1>7. CASE ~(full /\ ~grown)
  <2>1. b = [a EXCEPT !.num_idx = num, !.idx = table, !.idx_off = off]
    BY <1>7 DEF Indexed, entries, entry
  <2> HIDE DEF b, num, off, table
  <2>2. /\ b \in Writer
        /\ b.nframes = a.nframes /\ b.nframes0 = a.nframes0
        /\ b.totsize = a.totsize /\ b.segsize = a.segsize
        /\ b.segsize0 = a.segsize0 /\ b.segstart = a.segstart
        /\ b.num_idx = num /\ b.idx = table /\ b.idx_off = off
    BY <1>4, <1>5, <2>1 DEF Writer
  <2>3. b.idx.entries = entries /\ Len(b.idx.entries) <= b.num_idx
    BY <1>3, <1>4, <2>2 DEF table
  <2>4. QED
    BY <2>2, <2>3 DEF b, off, entries, entry
<1>8. QED
  BY <1>6, <1>7

LEMMA FinishedType ==
  ASSUME TypeInv, NEW err \in BOOLEAN, NEW bad, NEW whole \in BOOLEAN
  PROVE  /\ Finished(err, bad, whole).file \in File
         /\ Finished(err, bad, whole).error \in BOOLEAN
<1> DEFINE closing == CloseAVISegment(avi, file, err, TRUE, bad)
<1>1. avi \in Writer /\ file \in File
  BY DEF TypeInv
<1>2. closing.avi \in Writer /\ closing.file \in File /\ closing.error \in BOOLEAN
  BY <1>1, CloseType, ZenonT(60) DEF Closes
<1> HIDE DEF closing
<1>3. FinalHeader(closing.avi, closing.file, whole) \in File
  BY <1>2, FinalHeaderType
<1>4. QED
  BY <1>2, <1>3, ZeroTypes DEF Finished, closing

LEMMA StartKeeps ==
  ASSUME TypeInv, NEW kind \in {"avi", "mjpeg"}, StartRecording(kind)
  PROVE  TypeInv'
<1> DEFINE a == [ZeroAvi EXCEPT !.segsize0 = 4, !.idx_off = 4]
           f == [NoFile EXCEPT !.len = HdrSize + AVI_DATA]
<1>1. done' \in File
  <2>1. CASE rchan = "none"
    BY <2>1, ZeroTypes DEF StartRecording
  <2>2. CASE rchan # "none"
    <3>1. PICK bad \in {"none", "sizes"}, whole \in BOOLEAN :
            done' = Finished(error, bad, whole).file
      BY <2>2 DEF StartRecording
    <3>2. error \in BOOLEAN
      BY DEF TypeInv
    <3>3. QED
      BY <3>1, <3>2, FinishedType
  <2>3. QED
    BY <2>1, <2>2
<1>2. /\ rchan' = kind /\ error' = FALSE
      /\ IF kind = "avi" THEN avi' = a /\ file' = HeaderWritten(a, f)
                         ELSE avi' = ZeroAvi /\ file' = NoFile
  BY DEF StartRecording
<1>3. /\ a \in Writer /\ a.nframes = 0 /\ a.segsize = 0 /\ a.totsize = 0
      /\ a.idx = ZeroAvi.idx /\ a.num_idx = 0
  BY ZeroTypes DEF Writer
<1>4. f \in File /\ f.chunks = << >>
  <2>1. HdrSize + AVI_DATA \in Nat
    BY AviAssumption DEF AVI_DATA
  <2>2. QED
    BY <2>1, ZeroTypes DEF File
<1> HIDE DEF a, f
<1>5. HeaderWritten(a, f) \in File /\ HeaderWritten(a, f).chunks = << >>
  BY <1>3, <1>4, HeaderWrittenType
<1>6. /\ avi' \in Writer /\ file' \in File /\ file'.chunks = << >>
      /\ avi'.nframes = 0 /\ avi'.segsize = 0 /\ avi'.totsize = 0
      /\ avi'.idx.entries = << >> /\ avi'.num_idx = 0 /\ ~avi'.idx.present
  BY <1>2, <1>3, <1>5, ZeroTypes
<1>7. CountsInv'
  <2>1. Len(<< >>) = 0 /\ DOMAIN << >> = {}
    OBVIOUS
  <2>2. QED
    BY <1>6, <2>1 DEF CountsInv, AllWhole
<1>8. QED
  BY <1>1, <1>2, <1>6, <1>7 DEF TypeInv

LEMMA FinishKeeps ==
  ASSUME TypeInv, NEW stop \in BOOLEAN, FinishRecording(stop)
  PROVE  TypeInv'
<1>1. PICK bad \in {"none", "sizes"}, whole \in BOOLEAN :
        /\ error' = Finished(error /\ ~stop, bad, whole).error
        /\ done' = Finished(error /\ ~stop, bad, whole).file
  BY DEF FinishRecording
<1>2. done' \in File /\ error' \in BOOLEAN
  <2>1. (error /\ ~stop) \in BOOLEAN
    OBVIOUS
  <2>2. QED
    BY <1>1, <2>1, FinishedType
<1>3. rchan' = "none" /\ avi' = ZeroAvi /\ file' = NoFile
  BY DEF FinishRecording
<1>4. CountsInv'
  <2>1. Len(<< >>) = 0
    OBVIOUS
  <2>2. QED
    BY <1>3, <2>1, ZeroTypes DEF CountsInv
<1>5. QED
  BY <1>2, <1>3, <1>4, ZeroTypes DEF TypeInv

\* The gap that an index leaves which cannot grow.
Gapped(f, g) == [f EXCEPT !.gap = @ \/ g]

LEMMA GappedType ==
  ASSUME NEW f \in File, NEW g \in BOOLEAN
  PROVE  LET h == Gapped(f, g) IN
         /\ h \in File /\ h.chunks = f.chunks /\ h.avix = f.avix
         /\ h.len = f.len /\ h.torn = f.torn
         /\ ~h.gap => ~f.gap /\ ~g
<1> DEFINE gap == f.gap \/ g
           h   == Gapped(f, g)
<1>1. gap \in BOOLEAN /\ (~gap => ~f.gap /\ ~g)
  BY DEF File
<1>2. h = [f EXCEPT !.gap = gap]
  BY DEF Gapped
<1> HIDE DEF gap, h
<1>3. /\ h \in File /\ h.chunks = f.chunks /\ h.avix = f.avix
      /\ h.len = f.len /\ h.torn = f.torn /\ h.gap = gap
  BY <1>1, <1>2 DEF File
<1>4. QED
  BY <1>1, <1>3 DEF h

\* The three ways WriteFrame goes on when the chunk has been counted and written:
\* too little of it was, the segment is closed, or the chunk is indexed, which
\* it is in the first segment only.
LEMMA WriteFrameCases ==
  ASSUME TypeInv, NEW size \in Sizes, NEW n \in Reach(size), NEW grown \in BOOLEAN,
         NEW bad, WriteFrame(size, n, grown, bad)
  PROVE  LET a    == Counted(avi, size)
             f    == Extended(file, size, n)
             next == CloseAVISegment(a, f, FALSE, FALSE, bad)
             same == IF LaterSegment(a) THEN a ELSE Indexed(a, size, grown)
             gap  == ~LaterSegment(a) /\ ~same.idx.present
         IN
         /\ size \in Nat \ {0} /\ n \in Nat /\ n <= ChunkBytes(size)
         /\ rchan = "avi" /\ ~error /\ AllWhole(file)
         /\ rchan' = rchan /\ done' = NoFile /\ error' \in BOOLEAN
         /\ n < ChunkBytes(size) => error'
         /\ \/ avi' = a /\ file' = f /\ error' /\ n < ChunkBytes(size)
            \/ /\ CHUNK_HDR + size <= n /\ SegmentFull(a)
               /\ avi' = [next.avi EXCEPT !.num_idx = 0, !.idx = NullIdx]
               /\ file' = next.file
            \/ avi' = same /\ file' = Gapped(f, gap)
<1> DEFINE short == n < ChunkBytes(size)
           a    == Counted(avi, size)
           f    == Extended(file, size, n)
           next == CloseAVISegment(a, f, FALSE, FALSE, bad)
           same == IF LaterSegment(a) THEN a ELSE Indexed(a, size, grown)
           gap  == ~LaterSegment(a) /\ ~same.idx.present
<1>1. size \in Nat \ {0}
  BY AviAssumption DEF WriteFrame
<1>2. n \in Nat /\ n <= ChunkBytes(size)
  BY <1>1, ReachType
<1>3. rchan = "avi" /\ ~error /\ AllWhole(file)
  BY DEF WriteFrame, TypeInv, CountsInv
<1>4. /\ rchan' = rchan /\ done' = NoFile
      /\ IF n < CHUNK_HDR + size
         THEN avi' = a /\ file' = f /\ error' = TRUE
         ELSE IF SegmentFull(a)
         THEN /\ avi'   = [next.avi EXCEPT !.num_idx = 0, !.idx = NullIdx]
              /\ file'  = next.file
              /\ error' = (next.error \/ short)
         ELSE /\ avi'   = same
              /\ file'  = Gapped(f, gap)
              /\ error' = short
  BY DEF WriteFrame, Counted, Extended, ChunkOf, Gapped
<1>5. next.error \in BOOLEAN /\ short \in BOOLEAN
  <2>1. a \in Writer /\ f \in File
    BY <1>1, <1>2, CountedType, ExtendedType DEF TypeInv
  <2> HIDE DEF a, f
  <2>2. next.error \in BOOLEAN
    BY <2>1, CloseType DEF Closes
  <2> HIDE DEF next
  <2>3. QED
    BY <2>2
<1> HIDE DEF a, f, next, same, gap
<1>6. /\ CHUNK_HDR + size <= n \/ n < CHUNK_HDR + size
      /\ n < CHUNK_HDR + size => n < ChunkBytes(size)
  <2>1. size <= Aligned(size) /\ ChunkBytes(size) = 8 + Aligned(size)
        /\ Aligned(size) \in Nat
    BY <1>1, Alignment
  <2>2. QED
    BY <1>1, <1>2, <2>1 DEF CHUNK_HDR
<1>7. /\ error' \in BOOLEAN
      /\ n < ChunkBytes(size) => error'
      /\ \/ avi' = a /\ file' = f /\ error' /\ n < ChunkBytes(size)
         \/ /\ CHUNK_HDR + size <= n /\ SegmentFull(a)
            /\ avi' = [next.avi EXCEPT !.num_idx = 0, !.idx = NullIdx]
            /\ file' = next.file
         \/ avi' = same /\ file' = Gapped(f, gap)
  BY <1>4, <1>5, <1>6
<1>8. QED
  BY <1>1, <1>2, <1>3, <1>4, <1>7 DEF a, f, next, same, gap

LEMMA AllWholeExtended ==
  ASSUME NEW f \in File, NEW size \in Nat, NEW n \in Nat, n <= ChunkBytes(size)
  PROVE  /\ AllWhole(Extended(f, size, n)) => n = ChunkBytes(size)
         /\ AllWhole(f) /\ n = ChunkBytes(size) => AllWhole(Extended(f, size, n))
<1> DEFINE g == Extended(f, size, n)
           k == Len(f.chunks) + 1
<1>1. /\ DOMAIN g.chunks = 1..k /\ k \in 1..k
      /\ g.chunks[k].whole <=> ~(n < ChunkBytes(size))
      /\ \A i \in 1..k : i = k \/ i \in DOMAIN f.chunks
      /\ \A i \in DOMAIN f.chunks : g.chunks[i] = f.chunks[i]
  <2>1. /\ DOMAIN g.chunks = 1..k /\ DOMAIN f.chunks = 1..Len(f.chunks)
        /\ Len(f.chunks) \in Nat /\ g.chunks[k] = ChunkOf(f, size, n)
        /\ \A i \in DOMAIN f.chunks : g.chunks[i] = f.chunks[i]
    BY ExtendedType
  <2>2. ChunkOf(f, size, n).whole <=> ~(n < ChunkBytes(size))
    BY DEF ChunkOf
  <2> HIDE DEF g
  <2>3. QED
    BY <2>1, <2>2
<1>2. ChunkBytes(size) \in Nat
  BY Alignment
<1> HIDE DEF g, k
<1>3. AllWhole(g) => n = ChunkBytes(size)
  BY <1>1, <1>2 DEF AllWhole
<1>4. AllWhole(f) /\ n = ChunkBytes(size) => AllWhole(g)
  BY <1>1, <1>2 DEF AllWhole
<1>5. QED
  BY <1>3, <1>4 DEF g

LEMMA WriteFrameKeeps ==
  ASSUME TypeInv, NEW size \in Sizes, NEW n \in Reach(size), NEW grown \in BOOLEAN,
         NEW bad, WriteFrame(size, n, grown, bad)
  PROVE  TypeInv'
<1> DEFINE a    == Counted(avi, size)
           f    == Extended(file, size, n)
           next == CloseAVISegment(a, f, FALSE, FALSE, bad)
           same == IF LaterSegment(a) THEN a ELSE Indexed(a, size, grown)
           gap  == ~LaterSegment(a) /\ ~same.idx.present
<1>1. /\ size \in Nat \ {0} /\ n \in Nat /\ n <= ChunkBytes(size)
      /\ rchan = "avi" /\ ~error /\ AllWhole(file)
      /\ rchan' = rchan /\ done' = NoFile /\ error' \in BOOLEAN
      /\ n < ChunkBytes(size) => error'
      /\ \/ avi' = a /\ file' = f /\ error'
         \/ /\ SegmentFull(a)
            /\ avi' = [next.avi EXCEPT !.num_idx = 0, !.idx = NullIdx]
            /\ file' = next.file
         \/ avi' = same /\ file' = Gapped(f, gap)
  BY WriteFrameCases, ZenonT(60)
<1>2. avi \in Writer /\ file \in File /\ CountsInv
  BY DEF TypeInv
<1>3. /\ a \in Writer /\ a.nframes = avi.nframes + 1
      /\ a.segsize <= a.totsize
      /\ Len(a.idx.entries) <= a.num_idx
      /\ a.idx.present => ~LaterSegment(a)
  <2>1. avi.segsize \in Nat /\ avi.totsize \in Nat /\ ChunkBytes(size) \in Nat
    BY <1>1, <1>2, Alignment DEF Writer
  <2>2. /\ a \in Writer /\ a.nframes = avi.nframes + 1
        /\ a.totsize = avi.totsize + ChunkBytes(size)
        /\ a.segsize = avi.segsize + ChunkBytes(size)
        /\ a.num_idx = avi.num_idx /\ a.idx = avi.idx
        /\ LaterSegment(a) <=> LaterSegment(avi)
    BY <1>1, <1>2, CountedType
  <2> HIDE DEF a, f, next, same, gap
  <2>3. QED
    BY <1>2, <2>1, <2>2 DEF CountsInv
<1>4. f \in File /\ Len(f.chunks) = a.nframes
  BY <1>1, <1>2, <1>3, ExtendedType, SMTT(60) DEF CountsInv
<1>5. ~AllWhole(f) => error'
  <2>1. ChunkBytes(size) \in Nat
    BY <1>1, Alignment
  <2>2. QED
    BY <1>1, <1>2, <2>1, AllWholeExtended
<1> HIDE DEF a, f, next, same, gap
<1>6. CASE avi' = a /\ file' = f
  BY <1>1, <1>2, <1>3, <1>4, <1>5, <1>6, ZeroTypes DEF TypeInv, CountsInv
<1>7. CASE /\ SegmentFull(a)
           /\ avi' = [next.avi EXCEPT !.num_idx = 0, !.idx = NullIdx]
           /\ file' = next.file
  <2>1. /\ next.avi \in Writer /\ next.file \in File
        /\ next.avi.nframes = a.nframes /\ next.avi.totsize = a.totsize
        /\ next.avi.segsize = 0 /\ next.file.chunks = f.chunks
    <3>1. Closes(a, f, FALSE, next)
      BY <1>3, <1>4, CloseType DEF next
    <3>2. QED
      BY <3>1 DEF Closes
  <2>2. NullIdx \in Table /\ ~NullIdx.present /\ Len(NullIdx.entries) = 0
    <3>1. << >> \in Seq(Entry) /\ Len(<< >>) = 0
      OBVIOUS
    <3>2. QED
      BY <3>1 DEF NullIdx, Table
  <2> HIDE DEF next
  <2>3. /\ avi' \in Writer /\ avi'.nframes = a.nframes /\ avi'.totsize \in Nat
        /\ avi'.segsize = 0 /\ avi'.num_idx = 0 /\ avi'.idx = NullIdx
    BY <1>7, <2>1, <2>2 DEF Writer
  <2>4. AllWhole(file') <=> AllWhole(f)
    BY <1>7, <2>1 DEF AllWhole
  <2>5. QED
    BY <1>1, <1>4, <1>5, <1>7, <2>1, <2>2, <2>3, <2>4, ZeroTypes
    DEF TypeInv, CountsInv
<1>8. CASE avi' = same /\ file' = Gapped(f, gap)
  <2>1. /\ file' \in File /\ file'.chunks = f.chunks
    BY <1>4, <1>8, GappedType DEF gap
  <2>2. AllWhole(file') <=> AllWhole(f)
    BY <2>1 DEF AllWhole
  <2>3. /\ same \in Writer /\ same.nframes = a.nframes
        /\ same.totsize = a.totsize /\ same.segsize = a.segsize
        /\ Len(same.idx.entries) <= same.num_idx
        /\ same.idx.present => ~LaterSegment(same)
    BY <1>1, <1>3, IndexedType, ZenonT(60) DEF same, LaterSegment
  <2>4. QED
    BY <1>1, <1>3, <1>4, <1>5, <1>8, <2>1, <2>2, <2>3, ZeroTypes
    DEF TypeInv, CountsInv
<1>9. QED
  BY <1>1, <1>6, <1>7, <1>8

LEMMA TypeInvariant == Spec => []TypeInv
<1>1. Init => TypeInv
  <2> SUFFICES ASSUME Init PROVE TypeInv
    OBVIOUS
  <2>1. rchan = "none" /\ error = FALSE /\ avi = ZeroAvi /\ file = NoFile /\ done = NoFile
    BY DEF Init
  <2>2. Len(<< >>) = 0
    OBVIOUS
  <2>3. CountsInv
    BY <2>1, <2>2, ZeroTypes DEF CountsInv
  <2>4. QED
    BY <2>1, <2>3, ZeroTypes DEF TypeInv
<1>2. TypeInv /\ [Next]_vars => TypeInv'
  <2> SUFFICES ASSUME TypeInv, [Next]_vars PROVE TypeInv'
    OBVIOUS
  <2>1. ASSUME NEW kind \in {"avi", "mjpeg"}, StartRecording(kind) PROVE TypeInv'
    BY <2>1, StartKeeps
  <2>2. ASSUME NEW size \in Sizes, NEW grown \in BOOLEAN,
               NEW bad \in {"none", "sizes", "next"}, NEW n \in Reach(size),
               WriteFrame(size, n, grown, bad)
        PROVE  TypeInv'
    BY <2>2, WriteFrameKeeps
  <2>3. CASE FrameFails \/ FrameRefused
    BY <2>3, ZeroTypes DEF FrameFails, FrameRefused, TypeInv, CountsInv, AllWhole,
                           LaterSegment
  <2>4. ASSUME NEW stop \in BOOLEAN, FinishRecording(stop) PROVE TypeInv'
    BY <2>4, FinishKeeps
  <2>5. CASE UNCHANGED vars
    BY <2>5 DEF vars, TypeInv, CountsInv, AllWhole, LaterSegment
  <2>6. QED
    BY <2>1, <2>2, <2>3, <2>4, <2>5 DEF Next
<1>3. QED
  BY <1>1, <1>2, PTL DEF Spec

\* Whatever is written short, the counts of the writer stay in range and fit the
\* chunks in the file, and the index never outgrows its table and never survives
\* the first segment.
THEOREM TypeCorrect == Spec => []TypeOK
<1>1. \A f \in File : FileOK(f)
  BY AvixType DEF File, FileOK, FirstHead, AvixHead
<1>2. TypeInv => TypeOK
  BY <1>1 DEF TypeInv, TypeOK, CountsInv
<1>3. QED
  BY <1>2, TypeInvariant, PTL

-----------------------------------------------------------------------------
(***************************************************************************)
(* The segments, those that are closed and the one in progress.            *)
(***************************************************************************)

Base == HdrSize - 12

Heads(f) == {Base} \cup DOMAIN f.avix

\* Where the header of the segment in progress is.
Cur(a) == IF LaterSegment(a) THEN a.segstart ELSE Base

\* The segment at head p ends where its header says so, or will say so.
EndOf(a, f, p) ==
  p + 20 + (IF p = Cur(a) THEN a.segsize + 4
            ELSE IF p = Base THEN a.segsize0 + 4 ELSE f.avix[p].data)

SegmentOf(a, f, p) == [start |-> p + AVIX_HDR, end |-> EndOf(a, f, p)]

In(a, f, p) == ChunksIn(f, SegmentOf(a, f, p))

\* The segment in progress has the last head.
HeadsInOrder(a, f) ==
  /\ LaterSegment(a) => a.segstart \in DOMAIN f.avix
  /\ ~LaterSegment(a) => DOMAIN f.avix = {}
  /\ \A p \in DOMAIN f.avix : Base < p /\ p <= Cur(a)

Disjoint(a, f) ==
  /\ \A p \in Heads(f) : p + 24 <= EndOf(a, f, p)
  /\ \A p, q \in Heads(f) : p < q => EndOf(a, f, p) <= q + 24

\* Every chunk is in a segment, and the first segment has the first of them.
Owned(a, f) ==
  /\ \A i \in DOMAIN f.chunks : \E p \in Heads(f) : i \in In(a, f, p)
  /\ In(a, f, Base) = 1..(IF LaterSegment(a) THEN a.nframes0 ELSE a.nframes)

\* A chunk of a segment follows its head or another chunk of it, and so does its
\* end.
Filled(a, f, p) ==
  LET after(e) == e = p + 24 \/ \E i \in In(a, f, p) : ChunkEnd(f.chunks[i]) = e IN
  /\ after(EndOf(a, f, p))
  /\ \A i \in In(a, f, p) : after(f.chunks[i].at)

Layout(a, f) ==
  /\ HeadsInOrder(a, f) /\ Disjoint(a, f) /\ Owned(a, f)
  /\ AllWhole(f) =>
       /\ f.len = EndOf(a, f, Cur(a))
       /\ \A p \in Heads(f) : Filled(a, f, p)
       /\ \A p \in DOMAIN f.avix :
            /\ \E q \in Heads(f) : EndOf(a, f, q) = p
            /\ p # Cur(a) => f.avix[p].riff = f.avix[p].data + 12

LEMMA HeadType ==
  ASSUME NEW a \in Writer, NEW f \in File
  PROVE  /\ Base \in Int /\ Heads(f) \subseteq Int /\ Cur(a) \in Int
         /\ \A p \in Heads(f) : EndOf(a, f, p) \in Int
<1>1. Base \in Int
  BY AviAssumption DEF Base
<1>2. f.avix \in Avixes /\ a.segstart \in Nat /\ a.segsize \in Nat /\ a.segsize0 \in Nat
  BY DEF Writer, File
<1>3. DOMAIN f.avix \subseteq Nat /\ \A p \in DOMAIN f.avix : f.avix[p].data \in Nat
  BY <1>2, AvixType
<1>4. Heads(f) \subseteq Int /\ Cur(a) \in Int
  BY <1>1, <1>2, <1>3 DEF Heads, Cur
<1>5. ASSUME NEW p \in Heads(f)
      PROVE  EndOf(a, f, p) \in Int
  <2>1. p \in Int /\ (p # Base => f.avix[p].data \in Nat)
    BY <1>3, <1>4 DEF Heads
  <2>2. QED
    BY <1>2, <2>1 DEF EndOf
<1>6. QED
  BY <1>1, <1>4, <1>5

LEMMA ChunkType ==
  ASSUME NEW f \in File, NEW i \in DOMAIN f.chunks
  PROVE  /\ f.chunks[i].at \in Nat /\ f.chunks[i].size \in Nat
         /\ f.chunks[i].whole \in BOOLEAN
         /\ ChunkEnd(f.chunks[i]) \in Nat
         /\ ChunkEnd(f.chunks[i]) >= f.chunks[i].at + 8
<1>1. f.chunks \in Seq(Chunk)
  BY DEF File
<1>2. f.chunks[i] \in Chunk
  BY <1>1
<1>3. QED
  BY <1>2 DEF Chunk, ChunkEnd, CHUNK_HDR

LEMMA InSegment ==
  ASSUME NEW a, NEW f, NEW p
  PROVE  \A i : i \in In(a, f, p) <=>
           /\ i \in DOMAIN f.chunks
           /\ p + 24 <= f.chunks[i].at /\ ChunkEnd(f.chunks[i]) <= EndOf(a, f, p)
  BY DEF In, ChunksIn, Holds, SegmentOf, AVIX_HDR

LEMMA CurIsLast ==
  ASSUME NEW a \in Writer, NEW f \in File, HeadsInOrder(a, f)
  PROVE  Cur(a) \in Heads(f) /\ \A p \in Heads(f) : p <= Cur(a)
<1>1. Base \in Int /\ Cur(a) \in Int /\ a.segstart \in Nat
  BY HeadType DEF Writer
<1>2. CASE LaterSegment(a)
  BY <1>1, <1>2 DEF HeadsInOrder, Heads, Cur
<1>3. CASE ~LaterSegment(a)
  BY <1>1, <1>3 DEF HeadsInOrder, Heads, Cur
<1>4. QED
  BY <1>2, <1>3

\* A chunk that is added lengthens the segment in progress, and is in no other.
LEMMA ExtendEnds ==
  ASSUME NEW a \in Writer, NEW f \in File, NEW size \in Nat, NEW n \in Nat
  PROVE  LET b == Counted(a, size)
             g == Extended(f, size, n)
         IN
         /\ Cur(b) = Cur(a) /\ Heads(g) = Heads(f)
         /\ \A p \in Heads(f) :
              EndOf(b, g, p) = IF p = Cur(a) THEN EndOf(a, f, p) + ChunkBytes(size)
                                             ELSE EndOf(a, f, p)
<1> DEFINE b == Counted(a, size)
           g == Extended(f, size, n)
<1>1. /\ b.segsize = a.segsize + ChunkBytes(size) /\ b.segsize0 = a.segsize0
      /\ b.segstart = a.segstart /\ (LaterSegment(b) <=> LaterSegment(a))
      /\ g.avix = f.avix
  BY CountedType, ExtendedType
<1>2. a.segsize \in Nat /\ ChunkBytes(size) \in Nat /\ Heads(f) \subseteq Int
  BY Alignment, HeadType DEF Writer
<1> HIDE DEF b, g
<1>3. Cur(b) = Cur(a) /\ Heads(g) = Heads(f)
  BY <1>1 DEF Cur, Heads
<1>4. ASSUME NEW p \in Heads(f)
      PROVE  EndOf(b, g, p) = IF p = Cur(a) THEN EndOf(a, f, p) + ChunkBytes(size)
                                            ELSE EndOf(a, f, p)
  BY <1>1, <1>2, <1>3 DEF EndOf
<1>5. QED
  BY <1>3, <1>4 DEF b, g

LEMMA ExtendIn ==
  ASSUME NEW a \in Writer, NEW f \in File, NEW size \in Nat, NEW n \in Nat,
         Layout(a, f), AllWhole(f)
  PROVE  LET b == Counted(a, size)
             g == Extended(f, size, n)
             k == Len(f.chunks) + 1
         IN
         /\ In(b, g, Cur(a)) = In(a, f, Cur(a)) \cup {k}
         /\ \A p \in Heads(f) \ {Cur(a)} : In(b, g, p) = In(a, f, p)
<1> DEFINE b == Counted(a, size)
           g == Extended(f, size, n)
           k == Len(f.chunks) + 1
           C == Cur(a)
<1>1. /\ Cur(b) = C /\ Heads(g) = Heads(f)
      /\ \A p \in Heads(f) :
           EndOf(b, g, p) = IF p = C THEN EndOf(a, f, p) + ChunkBytes(size)
                                     ELSE EndOf(a, f, p)
  BY ExtendEnds
<1>2. /\ DOMAIN g.chunks = 1..k /\ DOMAIN f.chunks = 1..Len(f.chunks)
      /\ Len(f.chunks) \in Nat /\ g.chunks[k] = ChunkOf(f, size, n)
      /\ \A i \in DOMAIN f.chunks : g.chunks[i] = f.chunks[i]
  BY ExtendedType
<1>3. /\ ChunkBytes(size) \in Nat /\ 8 <= ChunkBytes(size)
      /\ ChunkOf(f, size, n).at = f.len
      /\ ChunkEnd(ChunkOf(f, size, n)) = f.len + ChunkBytes(size)
  <2>1. f.len \in Nat
    BY DEF File
  <2>2. QED
    BY <2>1, Alignment DEF ChunkOf, ChunkEnd, CHUNK_HDR
<1>4. /\ C \in Heads(f) /\ \A p \in Heads(f) : p <= C
      /\ Heads(f) \subseteq Int /\ \A p \in Heads(f) : EndOf(a, f, p) \in Int
  BY HeadType, CurIsLast DEF Layout
<1>5. /\ f.len = EndOf(a, f, C)
      /\ \A p \in Heads(f) : p + 24 <= EndOf(a, f, p)
      /\ \A p, q \in Heads(f) : p < q => EndOf(a, f, p) <= q + 24
      /\ \A i \in DOMAIN f.chunks : \E p \in Heads(f) : i \in In(a, f, p)
  BY DEF Layout, Disjoint, Owned
<1> HIDE DEF b, g, C
<1>6. \A i \in 1..k : i = k \/ i \in DOMAIN f.chunks
  BY <1>2
<1>7. k \notin DOMAIN f.chunks /\ k \in 1..k
  BY <1>2
<1> HIDE DEF k
<1>8. ASSUME NEW p \in Heads(f)
      PROVE  \A i \in DOMAIN f.chunks : i \in In(b, g, p) <=> i \in In(a, f, p)
  <2> SUFFICES ASSUME NEW i \in DOMAIN f.chunks
               PROVE  i \in In(b, g, p) <=> i \in In(a, f, p)
    OBVIOUS
  <2>1. i \in DOMAIN g.chunks /\ g.chunks[i] = f.chunks[i]
    BY <1>2, ExtendedType DEF k
  <2>2. /\ f.chunks[i].at \in Nat /\ ChunkEnd(f.chunks[i]) \in Nat
        /\ ChunkEnd(f.chunks[i]) >= f.chunks[i].at + 8
    BY ChunkType
  <2>3. CASE p # C
    BY <1>1, <2>1, <2>3, InSegment
  <2>4. CASE p = C
    <3>1. i \in In(a, f, C) => i \in In(b, g, C)
      <4>1. i \in In(a, f, C) => /\ C + 24 <= f.chunks[i].at
                                 /\ ChunkEnd(f.chunks[i]) <= EndOf(a, f, C)
        BY InSegment
      <4>2. EndOf(a, f, C) <= EndOf(b, g, C)
        BY <1>1, <1>3, <1>4
      <4>3. EndOf(b, g, C) \in Int
        BY <1>1, <1>3, <1>4
      <4>4. i \in In(a, f, C) => ChunkEnd(f.chunks[i]) <= EndOf(b, g, C)
        BY <1>4, <2>2, <4>1, <4>2, <4>3
      <4>5. QED
        BY <2>1, <4>1, <4>4, InSegment
    <3>2. i \in In(b, g, C) => C + 24 <= f.chunks[i].at
      BY <2>1, InSegment
    <3>3. PICK q \in Heads(f) : i \in In(a, f, q)
      BY <1>5
    <3>4. q # C => ~(C + 24 <= f.chunks[i].at)
      <4> SUFFICES ASSUME q # C PROVE ~(C + 24 <= f.chunks[i].at)
        OBVIOUS
      <4>1. q < C
        BY <1>4
      <4>2. EndOf(a, f, q) <= C + 24
        BY <1>4, <1>5, <4>1
      <4>3. ChunkEnd(f.chunks[i]) <= EndOf(a, f, q)
        BY <3>3, InSegment
      <4>4. EndOf(a, f, q) \in Int /\ C \in Int
        BY <1>4
      <4>5. QED
        BY <2>2, <4>2, <4>3, <4>4
    <3>5. QED
      BY <2>4, <3>1, <3>2, <3>3, <3>4
  <2>5. QED
    BY <2>3, <2>4
<1>9. ASSUME NEW p \in Heads(f)
      PROVE  k \in In(b, g, p) <=> p = C
  <2>1. k \in In(b, g, p) <=>
          /\ p + 24 <= f.len /\ f.len + ChunkBytes(size) <= EndOf(b, g, p)
    BY <1>2, <1>3, <1>7, InSegment
  <2>2. CASE p = C
    <3>1. EndOf(b, g, C) = f.len + ChunkBytes(size) /\ C + 24 <= f.len
      BY <1>1, <1>4, <1>5
    <3>2. f.len + ChunkBytes(size) \in Int
      BY <1>3, <1>4, <1>5
    <3>3. QED
      BY <2>1, <2>2, <3>1, <3>2
  <2>3. CASE p # C
    <3>1. p < C
      BY <1>4, <2>3
    <3>2. EndOf(b, g, p) = EndOf(a, f, p) /\ EndOf(a, f, p) <= C + 24 /\ C + 24 <= f.len
      BY <1>1, <1>4, <1>5, <2>3, <3>1
    <3>3. EndOf(a, f, p) \in Int /\ C \in Int /\ f.len \in Int
      BY <1>4, <1>5
    <3>4. QED
      BY <1>3, <2>1, <2>3, <3>2, <3>3
  <2>4. QED
    BY <2>2, <2>3
<1>10. /\ \A p : In(b, g, p) \subseteq 1..k
       /\ \A p : In(a, f, p) \subseteq DOMAIN f.chunks
  BY <1>2, InSegment
<1>11. In(b, g, C) = In(a, f, C) \cup {k}
  BY <1>4, <1>6, <1>8, <1>9, <1>10
<1>12. \A p \in Heads(f) \ {C} : In(b, g, p) = In(a, f, p)
  BY <1>6, <1>7, <1>8, <1>9, <1>10
<1>13. QED
  BY <1>11, <1>12 DEF b, g, C, k

LEMMA ExtendLayout ==
  ASSUME NEW a \in Writer, NEW f \in File, NEW size \in Nat, NEW n \in Nat,
         n <= ChunkBytes(size),
         Layout(a, f), AllWhole(f), a.nframes = Len(f.chunks)
  PROVE  /\ Layout(Counted(a, size), Extended(f, size, n))
         /\ CHUNK_HDR + size <= n =>
              LET b == Counted(a, size)
                  g == Extended(f, size, n)
              IN  Cur(b) < g.len /\ EndOf(b, g, Cur(b)) <= g.len + 24
<1> DEFINE b == Counted(a, size)
           g == Extended(f, size, n)
           k == Len(f.chunks) + 1
           C == Cur(a)
<1>1. /\ Cur(b) = C /\ Heads(g) = Heads(f)
      /\ \A p \in Heads(f) :
           EndOf(b, g, p) = IF p = C THEN EndOf(a, f, p) + ChunkBytes(size)
                                     ELSE EndOf(a, f, p)
  BY ExtendEnds
<1>2. /\ In(b, g, C) = In(a, f, C) \cup {k}
      /\ \A p \in Heads(f) \ {C} : In(b, g, p) = In(a, f, p)
  BY ExtendIn
<1>3. /\ b.nframes = k /\ b.nframes0 = a.nframes0 /\ b.segstart = a.segstart
      /\ LaterSegment(b) <=> LaterSegment(a)
  <2>1. b.nframes = a.nframes + 1
    BY CountedType
  <2>2. QED
    BY <2>1, CountedType
<1>4. /\ g.len = f.len + n /\ g.avix = f.avix
      /\ DOMAIN g.chunks = 1..k /\ DOMAIN f.chunks = 1..Len(f.chunks)
      /\ Len(f.chunks) \in Nat /\ g.chunks[k] = ChunkOf(f, size, n)
      /\ \A i \in DOMAIN f.chunks : g.chunks[i] = f.chunks[i]
      /\ f.len \in Nat
  <2>1. f.len \in Nat
    BY DEF File
  <2>2. QED
    BY <2>1, ExtendedType
<1>5. /\ ChunkBytes(size) \in Nat /\ 8 <= ChunkBytes(size)
      /\ ChunkBytes(size) <= 8 + size + 3
      /\ ChunkOf(f, size, n).at = f.len
      /\ ChunkEnd(ChunkOf(f, size, n)) = f.len + ChunkBytes(size)
  <2>1. /\ Aligned(size) \in Nat /\ Aligned(size) <= size + 3
        /\ ChunkBytes(size) = 8 + Aligned(size)
    BY Alignment
  <2>2. /\ ChunkOf(f, size, n).at = f.len
        /\ ChunkEnd(ChunkOf(f, size, n)) = f.len + 8 + Aligned(size)
    BY DEF ChunkOf, ChunkEnd, CHUNK_HDR
  <2>3. f.len \in Nat
    BY <1>4
  <2>4. QED
    BY <2>1, <2>2, <2>3, SMTT(60)
<1>6. /\ C \in Heads(f) /\ \A p \in Heads(f) : p <= C
      /\ Heads(f) \subseteq Int /\ \A p \in Heads(f) : EndOf(a, f, p) \in Int
  BY HeadType, CurIsLast DEF Layout
<1>7. /\ f.len = EndOf(a, f, C)
      /\ \A p \in Heads(f) : p + 24 <= EndOf(a, f, p)
      /\ \A p, q \in Heads(f) : p < q => EndOf(a, f, p) <= q + 24
      /\ \A i \in DOMAIN f.chunks : \E p \in Heads(f) : i \in In(a, f, p)
      /\ In(a, f, Base) = 1..(IF LaterSegment(a) THEN a.nframes0 ELSE a.nframes)
      /\ \A p \in Heads(f) : Filled(a, f, p)
      /\ \A p \in DOMAIN f.avix :
            /\ \E q \in Heads(f) : EndOf(a, f, q) = p
            /\ p # C => f.avix[p].riff = f.avix[p].data + 12
  BY DEF Layout, Disjoint, Owned
<1>8. HeadsInOrder(a, f)
  BY DEF Layout
<1> HIDE DEF b, g, C
<1>9. HeadsInOrder(b, g)
  BY <1>1, <1>3, <1>4, <1>8 DEF HeadsInOrder, C
<1>10. Disjoint(b, g)
  <2>1. ASSUME NEW p \in Heads(f)
        PROVE  p + 24 <= EndOf(b, g, p)
    BY <1>1, <1>5, <1>6, <1>7, SMTT(60)
  <2>2. ASSUME NEW p \in Heads(f), NEW q \in Heads(f), p < q
        PROVE  EndOf(b, g, p) <= q + 24
    <3>1. p # C
      BY <1>6, <2>2
    <3>2. QED
      BY <1>1, <1>7, <2>2, <3>1
  <2>3. QED
    BY <1>1, <2>1, <2>2 DEF Disjoint
<1>11. Owned(b, g)
  <2>1. ASSUME NEW i \in DOMAIN g.chunks
        PROVE  \E p \in Heads(g) : i \in In(b, g, p)
    <3>1. CASE i = k
      BY <1>1, <1>2, <1>6, <3>1
    <3>2. CASE i # k
      <4>1. i \in DOMAIN f.chunks
        BY <1>4, <2>1, <3>2, SMTT(60)
      <4>2. PICK p \in Heads(f) : i \in In(a, f, p)
        BY <1>7, <4>1
      <4>3. i \in In(b, g, p)
        BY <1>2, <4>2
      <4>4. QED
        BY <1>1, <4>3
    <3>3. QED
      BY <3>1, <3>2
  <2>2. In(b, g, Base) = 1..(IF LaterSegment(b) THEN b.nframes0 ELSE b.nframes)
    <3>1. CASE LaterSegment(a)
      <4>1. Base # C /\ Base \in Heads(f)
        BY <1>8, <3>1, HeadType DEF HeadsInOrder, Cur, C, Heads
      <4>2. QED
        BY <1>2, <1>3, <1>7, <3>1, <4>1
    <3>2. CASE ~LaterSegment(a)
      <4>1. C = Base
        BY <3>2 DEF Cur, C
      <4>2. In(b, g, Base) = 1..Len(f.chunks) \cup {k}
        BY <1>2, <1>7, <3>2, <4>1
      <4>3. 1..Len(f.chunks) \cup {k} = 1..k
        BY <1>4
      <4>4. QED
        BY <1>3, <3>2, <4>2, <4>3
    <3>3. QED
      BY <3>1, <3>2
  <2>3. QED
    BY <2>1, <2>2 DEF Owned
<1>12. ASSUME AllWhole(g)
       PROVE  /\ g.len = EndOf(b, g, C)
              /\ \A p \in Heads(g) : Filled(b, g, p)
              /\ \A p \in DOMAIN g.avix :
                   /\ \E q \in Heads(g) : EndOf(b, g, q) = p
                   /\ p # C => g.avix[p].riff = g.avix[p].data + 12
  <2>1. n = ChunkBytes(size)
    BY <1>12, AllWholeExtended DEF g
  <2>2. g.len = EndOf(b, g, C)
    BY <1>1, <1>4, <1>6, <1>7, <2>1
  <2>3. ASSUME NEW p \in Heads(f)
        PROVE  Filled(b, g, p)
    <3>1. In(a, f, p) \subseteq DOMAIN f.chunks
      BY InSegment
    <3>2. Filled(a, f, p)
      BY <1>7
    <3>3. CASE p # C
      <4>1. In(b, g, p) = In(a, f, p) /\ EndOf(b, g, p) = EndOf(a, f, p)
        BY <1>1, <1>2, <3>3
      <4>2. \A i \in In(a, f, p) : g.chunks[i] = f.chunks[i]
        BY <1>4, <3>1
      <4>3. QED
        BY <3>2, <4>1, <4>2 DEF Filled
    <3>4. CASE p = C
      <4>1. /\ In(b, g, p) = In(a, f, p) \cup {k}
            /\ EndOf(b, g, p) = EndOf(a, f, p) + ChunkBytes(size)
        BY <1>1, <1>2, <3>4
      <4>2. \A i \in In(a, f, p) : g.chunks[i] = f.chunks[i]
        BY <1>4, <3>1
      <4>3. ChunkEnd(g.chunks[k]) = EndOf(b, g, p) /\ g.chunks[k].at = EndOf(a, f, p)
        BY <1>4, <1>5, <1>7, <3>4, <4>1
      <4> HIDE DEF k
      <4> QED
        BY <3>2, <4>1, <4>2, <4>3 DEF Filled
    <3>5. QED
      BY <3>3, <3>4
  <2>4. ASSUME NEW p \in DOMAIN f.avix
        PROVE  /\ \E q \in Heads(g) : EndOf(b, g, q) = p
               /\ p # C => f.avix[p].riff = f.avix[p].data + 12
    <3>1. PICK q \in Heads(f) : EndOf(a, f, q) = p
      BY <1>7
    <3>2. q # C
      <4>1. p \in Heads(f)
        BY DEF Heads
      <4>2. p \in Int /\ C \in Int /\ p <= C /\ C + 24 <= EndOf(a, f, C)
        BY <1>6, <1>7, <4>1
      <4>3. EndOf(a, f, C) # p
        BY <1>6, <4>2
      <4>4. QED
        BY <3>1, <4>3
    <3>3. EndOf(b, g, q) = p
      BY <1>1, <3>1, <3>2
    <3>4. QED
      BY <1>1, <1>7, <3>3
  <2>5. QED
    BY <1>1, <1>4, <2>2, <2>3, <2>4
<1>13. Layout(b, g)
  BY <1>1, <1>9, <1>10, <1>11, <1>12 DEF Layout
<1>14. ASSUME CHUNK_HDR + size <= n
       PROVE  C < g.len /\ EndOf(b, g, C) <= g.len + 24
  <2>1. EndOf(b, g, C) = f.len + ChunkBytes(size) /\ C + 24 <= f.len
    BY <1>1, <1>6, <1>7
  <2>2. 8 + size <= n /\ C \in Int /\ f.len \in Nat /\ g.len = f.len + n
    BY <1>4, <1>6, <1>14 DEF CHUNK_HDR
  <2>3. ChunkBytes(size) <= n + 24
    BY <1>5, <2>2
  <2>4. C < g.len
    BY <2>1, <2>2
  <2>5. EndOf(b, g, C) <= g.len + 24
    BY <1>5, <2>1, <2>2, <2>3, SMTT(60)
  <2>6. QED
    BY <2>4, <2>5
<1>15. QED
  BY <1>1, <1>13, <1>14 DEF b, g

\* What the headers are once the segment of a is closed and the next one has
\* begun: the new header is at the end of the file.
NextHeads(a, f, g) ==
  /\ g.chunks = f.chunks /\ g.len = f.len + 24
  /\ DOMAIN g.avix = DOMAIN f.avix \cup {f.len}
                       \cup (IF LaterSegment(a) THEN {a.segstart} ELSE {})
  /\ \A p \in DOMAIN g.avix \ {f.len} :
       g.avix[p] = IF LaterSegment(a) /\ p = a.segstart
                   THEN [riff |-> a.segsize + 16, data |-> a.segsize + 4]
                   ELSE f.avix[p]

LEMMA NextSegmentHeads ==
  ASSUME NEW a \in Writer, NEW f \in File, NEW bad,
         ~CloseAVISegment(a, f, FALSE, FALSE, bad).file.torn
  PROVE  /\ NextHeads(a, f, CloseAVISegment(a, f, FALSE, FALSE, bad).file)
         /\ ~f.torn
<1> DEFINE first  == ~LaterSegment(a)
           counts == [a EXCEPT !.nframes0 = a.nframes, !.segsize0 = a.segsize]
           b      == IF first THEN counts ELSE a
           closed == IF first THEN HeaderWritten(b, f) ELSE SizesInto(a, f, bad)
           opens  == first \/ bad # "sizes"
           g      == CloseAVISegment(a, f, FALSE, FALSE, bad).file
<1>1. g = IF opens THEN NextHeader(closed, bad) ELSE closed
  BY DEF CloseAVISegment
<1>2. b \in Writer
  BY DEF Writer
<1>3. f.avix \in Avixes /\ f.len \in Nat /\ DOMAIN f.avix \subseteq Nat
      /\ a.segstart \in Nat /\ a.segsize \in Nat /\ f.torn \in BOOLEAN
  BY AvixType DEF File, Writer
<1>4. ~g.torn
  OBVIOUS
<1> HIDE DEF b, g
<1>5. /\ closed \in File /\ closed.chunks = f.chunks /\ closed.len = f.len
      /\ (f.torn => closed.torn) /\ (~opens => closed.torn)
      /\ ~closed.torn =>
           closed.avix = IF first THEN f.avix
                         ELSE AvixAt(f, a.segstart, a.segsize + 16, a.segsize + 4)
  <2>1. CASE first
    <3>1. closed = HeaderWritten(b, f)
      BY <2>1
    <3> HIDE DEF closed
    <3>2. /\ closed \in File /\ closed.chunks = f.chunks /\ closed.len = f.len
          /\ closed.torn = f.torn /\ closed.avix = f.avix
      BY <1>2, <3>1, HeaderWrittenType
    <3>3. QED
      BY <2>1, <3>2
  <2>2. CASE ~first
    <3>1. closed = SizesInto(a, f, bad)
      BY <2>2
    <3> HIDE DEF closed
    <3>2. /\ closed \in File /\ closed.chunks = f.chunks /\ closed.len = f.len
          /\ (closed.torn <=> f.torn \/ bad = "sizes")
          /\ bad # "sizes" => closed.avix =
               AvixAt(f, a.segstart, a.segsize + 16, a.segsize + 4)
      BY <3>1, SizesIntoType
    <3>3. QED
      BY <1>3, <2>2, <3>2
  <2>3. QED
    BY <2>1, <2>2
<1> HIDE DEF closed
<1>6. opens /\ g = NextHeader(closed, bad)
  BY <1>1, <1>4, <1>5
<1>7. /\ g.chunks = closed.chunks /\ bad # "next" /\ ~closed.torn
      /\ g.avix = AvixAt(closed, closed.len, 0, 0) /\ g.len = closed.len + 24
  BY <1>4, <1>5, <1>6, NextHeaderType
<1>8. /\ DOMAIN g.avix = DOMAIN closed.avix \cup {f.len}
      /\ \A p \in DOMAIN g.avix \ {f.len} : g.avix[p] = closed.avix[p]
  <2> DEFINE x == AvixAt(closed, f.len, 0, 0)
  <2>1. closed.avix \in Avixes /\ 0 \in Nat
    BY <1>5 DEF File
  <2>2. /\ DOMAIN x = DOMAIN closed.avix \cup {f.len}
        /\ \A p \in DOMAIN x :
             x[p] = IF p = f.len THEN [riff |-> 0, data |-> 0] ELSE closed.avix[p]
    <3>1. Puts(x, closed.avix, f.len, 0, 0)
      BY <1>3, <2>1, AvixAtType
    <3> HIDE DEF x
    <3>2. QED
      BY <3>1 DEF Puts
  <2>3. g.avix = x
    BY <1>5, <1>7
  <2> HIDE DEF x
  <2>4. QED
    BY <2>2, <2>3
<1>9. CASE first
  BY <1>5, <1>7, <1>8, <1>9 DEF NextHeads, g
<1>10. CASE ~first
  <2> DEFINE x == AvixAt(f, a.segstart, a.segsize + 16, a.segsize + 4)
  <2>1. a.segsize + 16 \in Nat /\ a.segsize + 4 \in Nat
    BY <1>3
  <2>2. /\ DOMAIN x = DOMAIN f.avix \cup {a.segstart}
        /\ \A p \in DOMAIN x :
             x[p] = IF p = a.segstart
                    THEN [riff |-> a.segsize + 16, data |-> a.segsize + 4]
                    ELSE f.avix[p]
    <3>1. Puts(x, f.avix, a.segstart, a.segsize + 16, a.segsize + 4)
      BY <1>3, <2>1, AvixAtType
    <3> HIDE DEF x
    <3>2. QED
      BY <3>1 DEF Puts
  <2>3. closed.avix = x
    BY <1>5, <1>7, <1>10
  <2> HIDE DEF x
  <2>4. QED
    BY <1>5, <1>7, <1>8, <1>10, <2>2, <2>3, ZenonT(60) DEF NextHeads, g
<1>11. QED
  BY <1>9, <1>10

\* The counts once the segment of a is closed and the next one has begun.
NextCounts(a, f, b) ==
  /\ b.totsize = a.totsize /\ b.nframes = a.nframes
  /\ b.segsize = 0 /\ b.segstart = f.len
  /\ b.nframes0 = IF LaterSegment(a) THEN a.nframes0 ELSE a.nframes
  /\ b.segsize0 = IF LaterSegment(a) THEN a.segsize0 ELSE a.segsize

\* The segments stay what they were, and an empty one follows them.
LEMMA NextLayout ==
  ASSUME NEW a \in Writer, NEW f \in File, NEW b \in Writer, NEW g \in File,
         Layout(a, f), NextCounts(a, f, b), NextHeads(a, f, g),
         a.segsize > 0, a.segsize <= a.totsize,
         Cur(a) < f.len, EndOf(a, f, Cur(a)) <= f.len + 24
  PROVE  Layout(b, g)
<1> DEFINE C == Cur(a)
           L == f.len
<1>1. /\ a.segsize \in Nat /\ a.totsize \in Nat /\ a.segstart \in Nat
      /\ a.segsize0 \in Nat /\ L \in Nat /\ Base \in Int
      /\ DOMAIN f.avix \subseteq Nat
  BY HeadType, AvixType DEF Writer, File
<1>2. /\ LaterSegment(b) /\ Cur(b) = L
  BY <1>1 DEF NextCounts, LaterSegment, Cur
<1>3. /\ C \in Heads(f) /\ \A p \in Heads(f) : p <= C
      /\ Heads(f) \subseteq Int /\ \A p \in Heads(f) : EndOf(a, f, p) \in Int
      /\ HeadsInOrder(a, f)
  BY HeadType, CurIsLast DEF Layout
<1>4. C \in Int /\ C < L /\ EndOf(a, f, C) <= L + 24
  BY <1>3
<1>5. \A p \in Heads(f) : p < L /\ p # L
  BY <1>1, <1>3, <1>4
<1>6. /\ DOMAIN g.avix = DOMAIN f.avix \cup {L}
      /\ Heads(g) = Heads(f) \cup {L}
  BY <1>3 DEF NextHeads, HeadsInOrder, Heads
<1>7. /\ LaterSegment(a) => C = a.segstart /\ C # Base
      /\ ~LaterSegment(a) => C = Base
      /\ Base \notin DOMAIN f.avix
  <2>1. \A p \in DOMAIN f.avix : Base < p /\ p \in Int
    BY <1>1, <1>3 DEF HeadsInOrder
  <2>2. Base \notin DOMAIN f.avix
    BY <1>1, <2>1
  <2>3. QED
    BY <1>3, <2>2 DEF HeadsInOrder, Cur
<1>8. ASSUME NEW p \in Heads(f)
      PROVE  EndOf(b, g, p) = EndOf(a, f, p)
  <2>1. p # Cur(b)
    BY <1>2, <1>5
  <2>2. CASE p = Base
    BY <1>7, <2>1, <2>2 DEF EndOf, NextCounts
  <2>3. CASE p # Base
    <3>1. p \in DOMAIN f.avix /\ p \in DOMAIN g.avix \ {L} /\ LaterSegment(a)
      BY <1>3, <1>5, <1>6, <2>3 DEF Heads, HeadsInOrder
    <3>2. g.avix[p] = IF p = C THEN [riff |-> a.segsize + 16, data |-> a.segsize + 4]
                               ELSE f.avix[p]
      BY <1>7, <3>1 DEF NextHeads
    <3>3. g.avix[p].data = IF p = C THEN a.segsize + 4 ELSE f.avix[p].data
      BY <3>2
    <3>4. QED
      BY <2>1, <2>3, <3>3 DEF EndOf
  <2>4. QED
    BY <2>2, <2>3
<1>9. EndOf(b, g, L) = L + 24
  BY <1>1, <1>2 DEF EndOf, NextCounts
<1>10. g.chunks = f.chunks /\ g.len = L + 24
  BY DEF NextHeads
<1>11. \A p \in Heads(f) : In(b, g, p) = In(a, f, p)
  BY <1>8, <1>10 DEF In, ChunksIn, SegmentOf
<1>12. In(b, g, L) = {}
  <2> SUFFICES ASSUME NEW i \in In(b, g, L) PROVE FALSE
    OBVIOUS
  <2>1. /\ i \in DOMAIN f.chunks /\ L + 24 <= f.chunks[i].at
        /\ ChunkEnd(f.chunks[i]) <= L + 24
    BY <1>9, <1>10, InSegment
  <2>2. /\ f.chunks[i].at \in Nat /\ ChunkEnd(f.chunks[i]) \in Nat
        /\ ChunkEnd(f.chunks[i]) >= f.chunks[i].at + 8
    BY <2>1, ChunkType
  <2>3. QED
    BY <1>1, <2>1, <2>2
<1>13. /\ \A p \in Heads(f) : p + 24 <= EndOf(a, f, p)
       /\ \A p, q \in Heads(f) : p < q => EndOf(a, f, p) <= q + 24
       /\ \A i \in DOMAIN f.chunks : \E p \in Heads(f) : i \in In(a, f, p)
       /\ In(a, f, Base) = 1..(IF LaterSegment(a) THEN a.nframes0 ELSE a.nframes)
  BY DEF Layout, Disjoint, Owned
<1> HIDE DEF C, L
<1>14. HeadsInOrder(b, g)
  <2>1. b.segstart = L
    BY DEF NextCounts, L
  <2>2. \A p \in DOMAIN g.avix : Base < p /\ p <= L
    <3> SUFFICES ASSUME NEW p \in DOMAIN g.avix PROVE Base < p /\ p <= L
      OBVIOUS
    <3>1. CASE p = L
      <4>1. Base \in Heads(f)
        BY DEF Heads
      <4>2. QED
        BY <1>1, <1>5, <3>1, <4>1
    <3>2. CASE p # L
      <4>1. p \in DOMAIN f.avix /\ p \in Heads(f)
        BY <1>6, <3>2 DEF Heads
      <4>2. Base < p
        BY <1>3, <4>1 DEF HeadsInOrder
      <4>3. p \in Int /\ p < L
        BY <1>3, <1>5, <4>1
      <4>4. QED
        BY <1>1, <4>2, <4>3
    <3>3. QED
      BY <3>1, <3>2
  <2>3. QED
    BY <1>2, <1>6, <2>1, <2>2 DEF HeadsInOrder
<1>15. Disjoint(b, g)
  <2>1. ASSUME NEW p \in Heads(g)
        PROVE  p + 24 <= EndOf(b, g, p)
    <3>1. CASE p = L
      BY <1>1, <1>9, <3>1
    <3>2. CASE p # L
      BY <1>6, <1>8, <1>13, <3>2
    <3>3. QED
      BY <3>1, <3>2
  <2>2. ASSUME NEW p \in Heads(g), NEW q \in Heads(g), p < q
        PROVE  EndOf(b, g, p) <= q + 24
    <3>1. p \in Heads(f)
      <4>1. CASE p = L
        <5>1. \A r \in Heads(g) : r \in Int /\ r <= L
          BY <1>1, <1>3, <1>5, <1>6
        <5>2. FALSE
          BY <1>1, <2>2, <4>1, <5>1
        <5>3. QED
          BY <5>2
      <4>2. QED
        BY <1>6, <4>1
    <3>2. EndOf(b, g, p) = EndOf(a, f, p)
      BY <1>8, <3>1
    <3>3. CASE q # L
      BY <1>6, <1>13, <2>2, <3>1, <3>2, <3>3
    <3>4. CASE q = L /\ p = C
      BY <1>4, <3>2, <3>4
    <3>5. CASE q = L /\ p # C
      <4>1. p < C /\ p \in Int
        BY <1>3, <3>1, <3>5
      <4>2. EndOf(a, f, p) <= C + 24 /\ EndOf(a, f, p) \in Int
        BY <1>3, <1>13, <3>1, <4>1
      <4>3. QED
        BY <1>1, <1>4, <3>2, <3>5, <4>2
    <3>6. QED
      BY <3>3, <3>4, <3>5
  <2>3. QED
    BY <2>1, <2>2 DEF Disjoint
<1>16. Owned(b, g)
  <2>1. \A i \in DOMAIN g.chunks : \E p \in Heads(g) : i \in In(b, g, p)
    BY <1>6, <1>10, <1>11, <1>13
  <2>2. Base \in Heads(f)
    BY DEF Heads
  <2>3. In(b, g, Base) = 1..b.nframes0
    BY <1>11, <1>13, <2>2 DEF NextCounts
  <2>4. QED
    BY <1>2, <2>1, <2>3 DEF Owned
<1>17. ASSUME AllWhole(g)
       PROVE  /\ g.len = EndOf(b, g, L)
              /\ \A p \in Heads(g) : Filled(b, g, p)
              /\ \A p \in DOMAIN g.avix :
                   /\ \E q \in Heads(g) : EndOf(b, g, q) = p
                   /\ p # L => g.avix[p].riff = g.avix[p].data + 12
  <2>1. AllWhole(f)
    BY <1>10, <1>17 DEF AllWhole
  <2>2. /\ L = EndOf(a, f, C)
        /\ \A p \in Heads(f) : Filled(a, f, p)
        /\ \A p \in DOMAIN f.avix :
             /\ \E q \in Heads(f) : EndOf(a, f, q) = p
             /\ p # C => f.avix[p].riff = f.avix[p].data + 12
    BY <2>1 DEF Layout, C, L
  <2>3. ASSUME NEW p \in Heads(g)
        PROVE  Filled(b, g, p)
    <3>1. CASE p = L
      BY <1>9, <1>12, <3>1 DEF Filled
    <3>2. CASE p # L
      <4>1. /\ EndOf(b, g, p) = EndOf(a, f, p) /\ In(b, g, p) = In(a, f, p)
            /\ Filled(a, f, p)
        BY <1>6, <1>8, <1>11, <2>2, <3>2
      <4>2. QED
        BY <1>10, <4>1 DEF Filled
    <3>3. QED
      BY <3>1, <3>2
  <2>4. ASSUME NEW p \in DOMAIN g.avix
        PROVE  \E q \in Heads(g) : EndOf(b, g, q) = p
    <3>1. CASE p = L
      BY <1>3, <1>6, <1>8, <2>2, <3>1
    <3>2. CASE p # L
      BY <1>6, <1>8, <2>2, <3>2
    <3>3. QED
      BY <3>1, <3>2
  <2>5. ASSUME NEW p \in DOMAIN g.avix, p # L
        PROVE  g.avix[p].riff = g.avix[p].data + 12
    <3>1. p \in DOMAIN f.avix /\ p \in DOMAIN g.avix \ {L} /\ LaterSegment(a)
      BY <1>3, <1>6, <2>5 DEF HeadsInOrder
    <3>2. g.avix[p] = IF p = C THEN [riff |-> a.segsize + 16, data |-> a.segsize + 4]
                               ELSE f.avix[p]
      BY <1>7, <3>1 DEF NextHeads, L
    <3>3. QED
      BY <1>1, <2>2, <3>1, <3>2
  <2>6. QED
    BY <1>9, <1>10, <2>3, <2>4, <2>5
<1>18. QED
  BY <1>2, <1>14, <1>15, <1>16, <1>17 DEF Layout

\* The layout depends on the chunks, the headers and the counts, not on the index.
LEMMA SameLayout ==
  ASSUME NEW a \in Writer, NEW f \in File, NEW b \in Writer, NEW g \in File,
         Layout(a, f),
         b.nframes = a.nframes, b.nframes0 = a.nframes0, b.totsize = a.totsize,
         b.segsize = a.segsize, b.segsize0 = a.segsize0, b.segstart = a.segstart,
         g.chunks = f.chunks, g.avix = f.avix, g.len = f.len
  PROVE  Layout(b, g)
<1>1. (LaterSegment(b) <=> LaterSegment(a)) /\ Cur(b) = Cur(a) /\ Heads(g) = Heads(f)
  BY DEF LaterSegment, Cur, Heads
<1>2. \A p : EndOf(b, g, p) = EndOf(a, f, p)
  BY <1>1 DEF EndOf
<1>3. \A p : In(b, g, p) = In(a, f, p)
  BY <1>2 DEF In, ChunksIn, SegmentOf
<1>4. HeadsInOrder(b, g)
  BY <1>1 DEF Layout, HeadsInOrder
<1>5. Disjoint(b, g)
  BY <1>1, <1>2 DEF Layout, Disjoint
<1>6. Owned(b, g)
  BY <1>1, <1>3 DEF Layout, Owned
<1>7. (AllWhole(g) <=> AllWhole(f)) /\ \A p : Filled(a, f, p) => Filled(b, g, p)
  BY <1>2, <1>3 DEF AllWhole, Filled
<1>8. QED
  BY <1>1, <1>2, <1>4, <1>5, <1>6, <1>7 DEF Layout

LayoutInv == rchan = "avi" /\ ~file.torn => Layout(avi, file)

LEMMA StartLayout ==
  ASSUME NEW kind \in {"avi", "mjpeg"}, StartRecording(kind)
  PROVE  LayoutInv'
<1> SUFFICES ASSUME rchan' = "avi" PROVE Layout(avi', file')
  BY DEF LayoutInv
<1> DEFINE a == [ZeroAvi EXCEPT !.segsize0 = 4, !.idx_off = 4]
           f == [NoFile EXCEPT !.len = HdrSize + AVI_DATA]
<1>1. avi' = a /\ file' = HeaderWritten(a, f)
  BY DEF StartRecording
<1>2. /\ a \in Writer /\ a.segsize = 0 /\ a.totsize = 0 /\ a.nframes = 0
      /\ ~LaterSegment(a)
  <2>1. a \in Writer /\ a.segsize = 0 /\ a.totsize = 0 /\ a.nframes = 0
    BY ZeroTypes DEF Writer
  <2> HIDE DEF a
  <2>2. QED
    BY <2>1 DEF LaterSegment
<1>3. f \in File /\ f.chunks = << >> /\ DOMAIN f.avix = {} /\ f.len = HdrSize + 12
  <2>1. HdrSize + AVI_DATA \in Nat /\ AVI_DATA = 12
    BY AviAssumption DEF AVI_DATA
  <2>2. QED
    BY <2>1, ZeroTypes DEF File
<1> HIDE DEF a, f
<1> DEFINE g == HeaderWritten(a, f)
<1>4. /\ g \in File /\ g.chunks = << >> /\ DOMAIN g.avix = {}
      /\ g.len = HdrSize + 12
  BY <1>2, <1>3, HeaderWrittenType
<1> HIDE DEF g
<1>5. /\ Base \in Int /\ Base + 24 = HdrSize + 12
      /\ Heads(g) = {Base} /\ Cur(a) = Base /\ DOMAIN << >> = {}
      /\ EndOf(a, g, Base) = Base + 24
  <2>1. Base \in Int /\ Base + 24 = HdrSize + 12
    BY AviAssumption DEF Base
  <2>2. Heads(g) = {Base} /\ Cur(a) = Base /\ DOMAIN << >> = {}
    BY <1>2, <1>4 DEF Heads, Cur
  <2>3. EndOf(a, g, Base) = Base + 20 + (0 + 4)
    BY <1>2, <2>2 DEF EndOf
  <2>4. QED
    BY <2>1, <2>2, <2>3
<1>6. \A p : In(a, g, p) = {}
  BY <1>4, <1>5, InSegment
<1>7. HeadsInOrder(a, g)
  BY <1>2, <1>4 DEF HeadsInOrder
<1>8. Disjoint(a, g)
  BY <1>5 DEF Disjoint
<1>9. Owned(a, g)
  <2>1. 1..0 = {}
    OBVIOUS
  <2>2. QED
    BY <1>2, <1>4, <1>5, <1>6, <2>1 DEF Owned
<1>10. Filled(a, g, Base)
  BY <1>5, <1>6 DEF Filled
<1>11. QED
  BY <1>1, <1>4, <1>5, <1>7, <1>8, <1>9, <1>10 DEF Layout, g

LEMMA WriteFrameLayout ==
  ASSUME TypeInv, LayoutInv,
         NEW size \in Sizes, NEW n \in Reach(size), NEW grown \in BOOLEAN,
         NEW bad, WriteFrame(size, n, grown, bad)
  PROVE  LayoutInv'
<1> SUFFICES ASSUME ~file'.torn PROVE Layout(avi', file')
  BY DEF LayoutInv
<1> DEFINE a    == Counted(avi, size)
           f    == Extended(file, size, n)
           next == CloseAVISegment(a, f, FALSE, FALSE, bad)
           same == IF LaterSegment(a) THEN a ELSE Indexed(a, size, grown)
           gap  == ~LaterSegment(a) /\ ~same.idx.present
<1>1. /\ size \in Nat \ {0} /\ n \in Nat /\ n <= ChunkBytes(size)
      /\ rchan = "avi" /\ AllWhole(file)
      /\ \/ avi' = a /\ file' = f /\ error'
         \/ /\ CHUNK_HDR + size <= n /\ SegmentFull(a)
            /\ avi' = [next.avi EXCEPT !.num_idx = 0, !.idx = NullIdx]
            /\ file' = next.file
         \/ avi' = same /\ file' = Gapped(f, gap)
  BY WriteFrameCases, Zenon
<1>2. avi \in Writer /\ file \in File /\ avi.nframes = Len(file.chunks)
  BY DEF TypeInv, CountsInv
<1>3. a \in Writer /\ f \in File /\ f.torn = file.torn
  BY <1>1, <1>2, CountedType, ExtendedType, SMTT(60)
<1>4. avi' \in Writer /\ file' \in File
  BY WriteFrameKeeps DEF TypeInv
<1>5. a.segsize <= a.totsize /\ a.segsize \in Nat /\ a.totsize \in Nat
  <2>1. avi.segsize <= avi.totsize /\ avi.segsize \in Nat /\ avi.totsize \in Nat
        /\ ChunkBytes(size) \in Nat
    BY <1>1, <1>2, Alignment DEF TypeInv, CountsInv, Writer
  <2>2. a.segsize = avi.segsize + ChunkBytes(size) /\ a.totsize = avi.totsize + ChunkBytes(size)
    BY <1>1, <1>2, CountedType
  <2> HIDE DEF a
  <2>3. QED
    BY <2>1, <2>2
<1>6. ~file.torn =>
        /\ Layout(a, f)
        /\ CHUNK_HDR + size <= n => Cur(a) < f.len /\ EndOf(a, f, Cur(a)) <= f.len + 24
  BY <1>1, <1>2, ExtendLayout DEF LayoutInv
<1> HIDE DEF a, f, next, same, gap
<1>7. CASE avi' = a /\ file' = f
  BY <1>3, <1>6, <1>7
<1>8. CASE /\ CHUNK_HDR + size <= n /\ SegmentFull(a)
           /\ avi' = [next.avi EXCEPT !.num_idx = 0, !.idx = NullIdx]
           /\ file' = next.file
  <2>1. NextHeads(a, f, file') /\ ~f.torn
    BY <1>3, <1>8, NextSegmentHeads DEF next
  <2>2. NextCounts(a, f, avi')
    <3>1. Closes(a, f, FALSE, next)
      BY <1>3, CloseType DEF next
    <3>2. /\ next.avi \in Writer
          /\ next.avi.totsize = a.totsize /\ next.avi.nframes = a.nframes
          /\ next.avi.segsize = 0 /\ next.avi.segstart = f.len
          /\ next.avi.nframes0 = IF LaterSegment(a) THEN a.nframes0 ELSE a.nframes
          /\ next.avi.segsize0 = IF LaterSegment(a) THEN a.segsize0 ELSE a.segsize
      BY <3>1 DEF Closes
    <3>3. /\ avi'.totsize = next.avi.totsize /\ avi'.nframes = next.avi.nframes
          /\ avi'.segsize = next.avi.segsize /\ avi'.segstart = next.avi.segstart
          /\ avi'.nframes0 = next.avi.nframes0 /\ avi'.segsize0 = next.avi.segsize0
      BY <1>8, <3>2 DEF Writer
    <3>4. QED
      BY <3>2, <3>3 DEF NextCounts
  <2>3. a.segsize > 0
    BY <1>5, <1>8, AviAssumption DEF SegmentFull
  <2>4. QED
    BY <1>3, <1>4, <1>5, <1>6, <1>8, <2>1, <2>2, <2>3, NextLayout
<1>9. CASE avi' = same /\ file' = Gapped(f, gap)
  <2>1. /\ file'.chunks = f.chunks /\ file'.avix = f.avix /\ file'.len = f.len
        /\ file'.torn = f.torn
    BY <1>3, <1>9, GappedType DEF gap
  <2>2. /\ same.nframes = a.nframes /\ same.nframes0 = a.nframes0
        /\ same.totsize = a.totsize /\ same.segsize = a.segsize
        /\ same.segsize0 = a.segsize0 /\ same.segstart = a.segstart
    <3>1. Len(a.idx.entries) <= a.num_idx
      BY <1>1, <1>2, CountedType DEF TypeInv, CountsInv, a
    <3>2. QED
      BY <1>1, <1>3, <3>1, IndexedType, ZenonT(60) DEF same
  <2>3. QED
    BY <1>3, <1>4, <1>6, <1>9, <2>1, <2>2, SameLayout
<1>10. QED
  BY <1>1, <1>7, <1>8, <1>9

LEMMA LayoutInvariant == Spec => []LayoutInv
<1>1. Init => LayoutInv
  BY DEF Init, LayoutInv
<1>2. TypeInv /\ LayoutInv /\ [Next]_vars => LayoutInv'
  <2> SUFFICES ASSUME TypeInv, LayoutInv, [Next]_vars PROVE LayoutInv'
    OBVIOUS
  <2>1. ASSUME NEW kind \in {"avi", "mjpeg"}, StartRecording(kind) PROVE LayoutInv'
    BY <2>1, StartLayout
  <2>2. ASSUME NEW size \in Sizes, NEW grown \in BOOLEAN,
               NEW bad \in {"none", "sizes", "next"}, NEW n \in Reach(size),
               WriteFrame(size, n, grown, bad)
        PROVE  LayoutInv'
    BY <2>2, WriteFrameLayout
  <2>3. CASE UNCHANGED <<rchan, avi, file>>
    <3>1. rchan' = rchan /\ avi' = avi /\ file' = file
      BY <2>3
    <3>2. QED
      BY <3>1, SameLayout DEF LayoutInv, TypeInv
  <2>4. CASE FrameFails \/ FrameRefused \/ UNCHANGED vars
    BY <2>3, <2>4 DEF FrameFails, FrameRefused, vars
  <2>5. ASSUME NEW stop \in BOOLEAN, FinishRecording(stop) PROVE LayoutInv'
    BY <2>5 DEF FinishRecording, LayoutInv
  <2>6. QED
    BY <2>1, <2>2, <2>4, <2>5 DEF Next
<1>3. QED
  BY <1>1, <1>2, TypeInvariant, PTL DEF Spec

-----------------------------------------------------------------------------
(***************************************************************************)
(* The finished file.                                                      *)
(***************************************************************************)

\* What FinishRecording makes of the headers, if it can write them: those of the
\* segments are what they were to be.
FileEnds(d) ==
  /\ ~file.torn
  /\ d.chunks = file.chunks /\ d.gap = file.gap
  /\ d.head.data = (IF LaterSegment(avi) THEN avi.segsize0 ELSE avi.segsize) + 4
  /\ d.head.nframes = IF LaterSegment(avi) THEN avi.nframes0 ELSE avi.nframes
  /\ d.head.total = avi.nframes
  /\ DOMAIN d.avix = DOMAIN file.avix
                       \cup (IF LaterSegment(avi) THEN {avi.segstart} ELSE {})
  /\ \A p \in DOMAIN d.avix :
       d.avix[p] = IF LaterSegment(avi) /\ p = avi.segstart
                   THEN [riff |-> avi.segsize + 16, data |-> avi.segsize + 4]
                   ELSE file.avix[p]
  /\ d.head.indexed =>
       avi.idx.present /\ d.idx1 = avi.idx.entries /\ d.idxAt = file.len

LEMMA FinishedFile ==
  ASSUME TypeInv, rchan = "avi", NEW err \in BOOLEAN, NEW bad,
         NEW whole \in BOOLEAN, ~Finished(err, bad, whole).file.torn
  PROVE  FileEnds(Finished(err, bad, whole).file)
<1> DEFINE first  == ~LaterSegment(avi)
           counts == [avi EXCEPT !.nframes0 = avi.nframes, !.segsize0 = avi.segsize]
           b      == IF first THEN counts ELSE avi
           closed == IF first THEN HeaderWritten(b, file) ELSE SizesInto(avi, file, bad)
           c      == CloseAVISegment(avi, file, err, TRUE, bad)
           d      == Finished(err, bad, whole).file
<1>1. avi \in Writer /\ file \in File
  BY DEF TypeInv
<1>2. /\ file.avix \in Avixes /\ file.torn \in BOOLEAN
      /\ avi.segstart \in Nat /\ avi.segsize \in Nat
      /\ avi.segsize + 16 \in Nat /\ avi.segsize + 4 \in Nat
  BY <1>1, SMTT(120) DEF File, Writer
<1>3. b \in Writer
  BY <1>1 DEF Writer
<1>4. /\ c.avi \in Writer /\ c.file \in File
      /\ c.avi.nframes = avi.nframes /\ c.avi.idx = avi.idx
      /\ c.avi.nframes0 = IF LaterSegment(avi) THEN avi.nframes0 ELSE avi.nframes
      /\ c.avi.segsize0 = IF LaterSegment(avi) THEN avi.segsize0 ELSE avi.segsize
  <2>1. Closes(avi, file, err, c)
    BY <1>1, CloseType
  <2> HIDE DEF c
  <2>2. QED
    BY <2>1 DEF Closes
<1>5. c.file = closed
  BY DEF CloseAVISegment
<1>6. d = FinalHeader(c.avi, c.file, whole)
  BY DEF Finished
<1>7. ~d.torn
  OBVIOUS
<1> HIDE DEF b, c, d
<1>8. /\ d.head.data = c.avi.segsize0 + 4
      /\ d.head.nframes = c.avi.nframes0 /\ d.head.total = c.avi.nframes
      /\ d.chunks = c.file.chunks /\ d.avix = c.file.avix /\ d.gap = c.file.gap
      /\ ~c.file.torn
      /\ d.head.indexed => /\ c.avi.idx.present
                           /\ d.idx1 = c.avi.idx.entries /\ d.idxAt = c.file.len
  BY <1>4, <1>6, <1>7, FinalHeaderType, SMTT(60)
<1>9. CASE first
  <2>1. closed = HeaderWritten(b, file)
    BY <1>9
  <2> HIDE DEF closed
  <2>2. /\ closed.chunks = file.chunks /\ closed.len = file.len
        /\ closed.torn = file.torn /\ closed.avix = file.avix /\ closed.gap = file.gap
    BY <1>1, <1>3, <2>1, HeaderWrittenType
  <2>3. QED
    BY <1>4, <1>5, <1>8, <1>9, <2>2 DEF FileEnds, d
<1>10. CASE ~first
  <2> DEFINE x == AvixAt(file, avi.segstart, avi.segsize + 16, avi.segsize + 4)
  <2>1. closed = SizesInto(avi, file, bad)
    BY <1>10
  <2> HIDE DEF closed
  <2>2. /\ closed.chunks = file.chunks /\ closed.len = file.len
        /\ closed.gap = file.gap
        /\ (closed.torn <=> file.torn \/ bad = "sizes")
        /\ bad # "sizes" => closed.avix = x
    BY <1>1, <2>1, SizesIntoType
  <2>3. ~file.torn /\ d.avix = x
    BY <1>5, <1>8, <2>2
  <2>4. Puts(x, file.avix, avi.segstart, avi.segsize + 16, avi.segsize + 4)
    BY <1>2, AvixAtType
  <2> HIDE DEF x
  <2>5. /\ DOMAIN x = DOMAIN file.avix \cup {avi.segstart}
        /\ \A p \in DOMAIN x :
             x[p] = IF p = avi.segstart
                    THEN [riff |-> avi.segsize + 16, data |-> avi.segsize + 4]
                    ELSE file.avix[p]
    BY <2>4 DEF Puts
  <2>6. QED
    BY <1>4, <1>5, <1>8, <1>10, <2>2, <2>3, <2>5 DEF FileEnds, d
<1>11. QED
  BY <1>9, <1>10

\* The reader finds the segments that were written.
LEMMA SegmentsRead ==
  ASSUME TypeInv, Layout(avi, file), NEW d, FileEnds(d)
  PROVE  /\ DOMAIN d.avix = DOMAIN file.avix
         /\ FirstMovi(d) = SegmentOf(avi, file, Base)
         /\ Segments(d) = {SegmentOf(avi, file, p) : p \in Heads(file)}
         /\ \A p : ChunksIn(d, SegmentOf(avi, file, p)) = In(avi, file, p)
<1>1. avi \in Writer /\ file \in File /\ Base \in Int /\ HdrSize \in Nat
  BY HeadType, AviAssumption DEF TypeInv
<1>2. HeadsInOrder(avi, file) /\ avi.segsize \in Nat /\ avi.segsize0 \in Nat
  BY <1>1 DEF Layout, Writer
<1>3. DOMAIN d.avix = DOMAIN file.avix
  BY <1>2 DEF FileEnds, HeadsInOrder
<1>4. Base \notin DOMAIN file.avix
  <2>1. \A p \in DOMAIN file.avix : p \in Int /\ Base < p
    BY <1>1, <1>2, HeadType DEF HeadsInOrder, Heads
  <2>2. QED
    BY <1>1, <2>1
<1>5. FirstMovi(d) = SegmentOf(avi, file, Base)
  <2>1. EndOf(avi, file, Base) =
          Base + 20 + (IF LaterSegment(avi) THEN avi.segsize0 + 4 ELSE avi.segsize + 4)
    BY <1>2, <1>4 DEF EndOf, Cur, HeadsInOrder
  <2>2. EndOf(avi, file, Base) = HdrSize + 8 + d.head.data
    BY <1>1, <1>2, <2>1 DEF FileEnds, Base
  <2>3. Base + AVIX_HDR = HdrSize + AVI_DATA
    BY <1>1 DEF Base, AVIX_HDR, AVI_DATA
  <2>4. QED
    BY <2>2, <2>3 DEF FirstMovi, SegmentOf
<1>6. ASSUME NEW p \in DOMAIN d.avix
      PROVE  [start |-> p + AVIX_HDR, end |-> p + 20 + d.avix[p].data]
               = SegmentOf(avi, file, p)
  <2>1. LaterSegment(avi) /\ Cur(avi) = avi.segstart /\ p # Base
    BY <1>2, <1>3, <1>4 DEF HeadsInOrder, Cur
  <2>2. d.avix[p] = IF p = Cur(avi)
                    THEN [riff |-> avi.segsize + 16, data |-> avi.segsize + 4]
                    ELSE file.avix[p]
    BY <2>1 DEF FileEnds
  <2>3. d.avix[p].data = IF p = Cur(avi) THEN avi.segsize + 4 ELSE file.avix[p].data
    BY <2>2
  <2>4. QED
    BY <2>1, <2>3 DEF SegmentOf, EndOf
<1>7. Segments(d) = {SegmentOf(avi, file, p) : p \in Heads(file)}
  BY <1>3, <1>5, <1>6, Zenon DEF Segments, Heads
<1>8. \A p : ChunksIn(d, SegmentOf(avi, file, p)) = In(avi, file, p)
  BY DEF FileEnds, In, ChunksIn
<1>9. QED
  BY <1>3, <1>5, <1>7, <1>8

\* SegmentsTile of a file d.
Tiles(d) ==
  /\ \A i \in DOMAIN d.chunks :
       d.chunks[i].whole =>
         Cardinality({seg \in Segments(d) : Holds(seg, d.chunks[i])}) = 1
  /\ AllWhole(d) =>
       /\ \A seg \in Segments(d) : Tiled(d, seg)
       /\ \A p \in DOMAIN d.avix :
            /\ \E seg \in Segments(d) : seg.end = p
            /\ d.avix[p].riff = d.avix[p].data + 12
       /\ d.head.nframes = Cardinality(ChunksIn(d, FirstMovi(d)))
       /\ d.head.total = Len(d.chunks)

LEMMA FinishTiles ==
  ASSUME TypeInv, Layout(avi, file), NEW d, FileEnds(d)
  PROVE  Tiles(d)
<1> DEFINE Seg(p) == SegmentOf(avi, file, p)
           End(p) == EndOf(avi, file, p)
           Chunks(p) == In(avi, file, p)
<1>1. /\ avi \in Writer /\ file \in File /\ avi.nframes = Len(file.chunks)
      /\ avi.nframes \in Nat /\ avi.nframes0 \in Nat /\ avi.segsize \in Nat
  BY DEF TypeInv, CountsInv, Writer
<1>2. /\ Heads(file) \subseteq Int /\ \A p \in Heads(file) : End(p) \in Int
      /\ Base \in Heads(file)
  BY <1>1, HeadType DEF Heads
<1>3. /\ DOMAIN d.avix = DOMAIN file.avix
      /\ FirstMovi(d) = Seg(Base)
      /\ Segments(d) = {Seg(p) : p \in Heads(file)}
      /\ \A p : ChunksIn(d, Seg(p)) = Chunks(p)
  BY SegmentsRead
<1>4. d.chunks = file.chunks
  BY DEF FileEnds
<1>5. HeadsInOrder(avi, file) /\ Disjoint(avi, file) /\ Owned(avi, file)
  BY DEF Layout
<1>6. ASSUME NEW i \in DOMAIN file.chunks
      PROVE  Cardinality({seg \in Segments(d) : Holds(seg, d.chunks[i])}) = 1
  <2>1. PICK p \in Heads(file) : i \in Chunks(p)
    BY <1>5 DEF Owned
  <2>2. \A q \in Heads(file) :
          Holds(Seg(q), file.chunks[i]) <=>
            q + 24 <= file.chunks[i].at /\ ChunkEnd(file.chunks[i]) <= End(q)
    BY DEF Holds, SegmentOf, AVIX_HDR
  <2>3. /\ file.chunks[i].at \in Nat /\ ChunkEnd(file.chunks[i]) \in Nat
        /\ ChunkEnd(file.chunks[i]) >= file.chunks[i].at + 8
    BY <1>1, ChunkType
  <2>4. p + 24 <= file.chunks[i].at /\ ChunkEnd(file.chunks[i]) <= End(p)
    BY <2>1, InSegment
  <2>5. ASSUME NEW q \in Heads(file), Holds(Seg(q), file.chunks[i])
        PROVE  q = p
    <3>1. q + 24 <= file.chunks[i].at /\ ChunkEnd(file.chunks[i]) <= End(q)
      BY <2>2, <2>5
    <3>2. CASE q < p
      <4>1. End(q) <= p + 24
        BY <1>5, <3>2 DEF Disjoint
      <4>2. p \in Int /\ End(q) \in Int
        BY <1>2
      <4> HIDE DEF End
      <4>3. QED
        BY <2>3, <2>4, <3>1, <4>1, <4>2
    <3>3. CASE p < q
      <4>1. End(p) <= q + 24
        BY <1>5, <3>3 DEF Disjoint
      <4>2. q \in Int /\ End(p) \in Int
        BY <1>2
      <4> HIDE DEF End
      <4>3. QED
        BY <2>3, <2>4, <3>1, <4>1, <4>2
    <3>4. QED
      BY <1>2, <3>2, <3>3
  <2>6. Holds(Seg(p), file.chunks[i])
    BY <2>2, <2>4
  <2> HIDE DEF Seg
  <2>7. {seg \in Segments(d) : Holds(seg, d.chunks[i])} = {Seg(p)}
    BY <1>3, <1>4, <2>5, <2>6
  <2>8. QED
    BY <2>7, FS_Singleton
<1>7. ASSUME AllWhole(d)
      PROVE  /\ \A seg \in Segments(d) : Tiled(d, seg)
             /\ \A p \in DOMAIN d.avix :
                  /\ \E seg \in Segments(d) : seg.end = p
                  /\ d.avix[p].riff = d.avix[p].data + 12
  <2>1. AllWhole(file)
    BY <1>4, <1>7 DEF AllWhole
  <2>2. /\ \A p \in Heads(file) : Filled(avi, file, p)
        /\ \A p \in DOMAIN file.avix :
             /\ \E q \in Heads(file) : End(q) = p
             /\ p # Cur(avi) => file.avix[p].riff = file.avix[p].data + 12
    BY <2>1 DEF Layout
  <2>3. ASSUME NEW p \in Heads(file)
        PROVE  Tiled(d, Seg(p))
    <3> DEFINE ends == {ChunkEnd(d.chunks[i]) : i \in Chunks(p)}
    <3>1. Seg(p).start = p + 24 /\ Seg(p).end = End(p)
      BY DEF SegmentOf, AVIX_HDR
    <3>2. \A e : e \in ends \cup {p + 24} <=>
            e = p + 24 \/ \E i \in In(avi, file, p) : ChunkEnd(file.chunks[i]) = e
      BY <1>4
    <3>3. Filled(avi, file, p)
      BY <2>2
    <3>4. /\ End(p) \in ends \cup {p + 24}
          /\ \A i \in Chunks(p) : file.chunks[i].at \in ends \cup {p + 24}
      BY <3>2, <3>3 DEF Filled
    <3> HIDE DEF ends, Seg, End
    <3>5. ChunksIn(d, Seg(p)) = Chunks(p)
      BY <1>3
    <3>6. QED
      BY <1>4, <3>1, <3>4, <3>5 DEF Tiled, ends
  <2>4. ASSUME NEW p \in DOMAIN d.avix
        PROVE  /\ \E seg \in Segments(d) : seg.end = p
               /\ d.avix[p].riff = d.avix[p].data + 12
    <3>1. PICK q \in Heads(file) : End(q) = p
      BY <1>3, <2>2
    <3>2. Seg(q) \in Segments(d) /\ Seg(q).end = p
      <4>1. Seg(q).end = End(q)
        BY DEF SegmentOf
      <4> HIDE DEF Seg, End
      <4>2. QED
        BY <1>3, <3>1, <4>1
    <3>3. LaterSegment(avi) /\ Cur(avi) = avi.segstart
      BY <1>3, <1>5 DEF HeadsInOrder, Cur
    <3>4. d.avix[p] = IF p = Cur(avi)
                      THEN [riff |-> avi.segsize + 16, data |-> avi.segsize + 4]
                      ELSE file.avix[p]
      BY <3>3 DEF FileEnds
    <3>5. d.avix[p].riff = d.avix[p].data + 12
      BY <1>1, <1>3, <2>2, <3>4
    <3>6. QED
      BY <3>2, <3>5
  <2>5. QED
    BY <1>3, <2>3, <2>4
<1>8. d.head.nframes = Cardinality(ChunksIn(d, FirstMovi(d)))
  <2>1. ChunksIn(d, FirstMovi(d)) = 1..d.head.nframes
    BY <1>3, <1>5 DEF Owned, FileEnds
  <2>2. d.head.nframes \in Nat
    BY <1>1 DEF FileEnds
  <2>3. QED
    BY <2>1, <2>2, FS_Interval
<1>9. d.head.total = Len(d.chunks)
  BY <1>1, <1>4 DEF FileEnds
<1>10. QED
  BY <1>4, <1>6, <1>7, <1>8, <1>9 DEF Tiles

\* What a step that finishes a recording leaves in done: nothing, if that was not
\* an AVI file.
LEMMA DoneSteps ==
  ASSUME TypeInv, [Next]_vars
  PROVE  \/ done' = NoFile \/ done' = done
         \/ \E err \in BOOLEAN, bad \in {"none", "sizes"}, whole \in BOOLEAN :
              rchan = "avi" /\ done' = Finished(err, bad, whole).file
<1>1. ASSUME NEW err \in BOOLEAN, NEW bad \in {"none", "sizes"}, NEW whole \in BOOLEAN,
             done' = Finished(err, bad, whole).file
      PROVE  \/ done' = NoFile
             \/ rchan = "avi"
  BY <1>1 DEF Finished
<1>2. ASSUME NEW kind \in {"avi", "mjpeg"}, StartRecording(kind), rchan # "none"
      PROVE  \E bad \in {"none", "sizes"}, whole \in BOOLEAN :
               done' = Finished(error, bad, whole).file
  BY <1>2 DEF StartRecording
<1>3. ASSUME NEW kind \in {"avi", "mjpeg"}, StartRecording(kind), rchan = "none"
      PROVE  done' = NoFile
  BY <1>3 DEF StartRecording
<1>4. ASSUME NEW stop \in BOOLEAN, FinishRecording(stop)
      PROVE  \E bad \in {"none", "sizes"}, whole \in BOOLEAN :
               done' = Finished(error /\ ~stop, bad, whole).file
  BY <1>4 DEF FinishRecording
<1>5. ASSUME NEW size \in Sizes, NEW grown \in BOOLEAN,
             NEW bad \in {"none", "sizes", "next"}, NEW n \in Reach(size),
             WriteFrame(size, n, grown, bad)
      PROVE  done' = NoFile
  BY <1>5 DEF WriteFrame
<1>6. CASE FrameFails \/ FrameRefused
  BY <1>6 DEF FrameFails, FrameRefused
<1>7. CASE UNCHANGED vars
  BY <1>7 DEF vars
<1>8. error \in BOOLEAN /\ \A stop \in BOOLEAN : (error /\ ~stop) \in BOOLEAN
  BY DEF TypeInv
<1>9. QED
  BY <1>1, <1>2, <1>3, <1>4, <1>5, <1>6, <1>7, <1>8 DEF Next

\* However the writes of a recording come out, a finished file whose headers could
\* be written has every complete frame in exactly one segment, and its segments
\* are what CloseAVISegment and WriteAVIHeader say.
THEOREM SegmentsAreTiled == Spec => []SegmentsTile
<1>1. Init => SegmentsTile
  BY DEF Init, SegmentsTile
<1>2. TypeInv /\ LayoutInv /\ SegmentsTile /\ [Next]_vars => SegmentsTile'
  <2> SUFFICES ASSUME TypeInv, LayoutInv, SegmentsTile, [Next]_vars
               PROVE  SegmentsTile'
    OBVIOUS
  <2>1. CASE done' = NoFile
    BY <2>1 DEF SegmentsTile
  <2>2. CASE done' = done
    BY <2>2 DEF SegmentsTile
  <2>3. ASSUME NEW err \in BOOLEAN, NEW bad \in {"none", "sizes"}, NEW whole \in BOOLEAN,
               rchan = "avi", done' = Finished(err, bad, whole).file
        PROVE  SegmentsTile'
    <3> SUFFICES ASSUME ~done'.torn PROVE SegmentsTile'
      BY DEF SegmentsTile
    <3>1. FileEnds(done')
      BY <2>3, FinishedFile
    <3>2. Layout(avi, file)
      BY <2>3, <3>1 DEF LayoutInv, FileEnds
    <3>3. Tiles(done')
      BY <3>1, <3>2, FinishTiles
    <3>4. QED
      BY <3>3 DEF SegmentsTile, Tiles
  <2>4. QED
    BY <2>1, <2>2, <2>3, DoneSteps
<1>3. QED
  BY <1>1, <1>2, TypeInvariant, LayoutInvariant, PTL DEF Spec

-----------------------------------------------------------------------------
(***************************************************************************)
(* The index of the first segment.                                         *)
(***************************************************************************)

\* Entry e of the index is that of chunk i.
Points(f, i, e) ==
  /\ i \in DOMAIN f.chunks
  /\ HdrSize + 8 + e.offset = f.chunks[i].at /\ e.size = f.chunks[i].size

\* As long as the table could grow, it has the chunks of the first segment, and
\* idx_off is where the next chunk will be.
IndexFits(a, f) ==
  ~f.gap =>
    /\ \A i \in DOMAIN a.idx.entries : Points(f, i, a.idx.entries[i])
    /\ AllWhole(f) /\ ~LaterSegment(a) =>
         /\ Len(a.idx.entries) = Len(f.chunks)
         /\ HdrSize + 8 + a.idx_off = f.len

IndexInv == rchan = "avi" => IndexFits(avi, file)

LEMMA StartIndex ==
  ASSUME NEW kind \in {"avi", "mjpeg"}, StartRecording(kind)
  PROVE  IndexInv'
<1> SUFFICES ASSUME rchan' = "avi" PROVE IndexFits(avi', file')
  BY DEF IndexInv
<1> DEFINE a == [ZeroAvi EXCEPT !.segsize0 = 4, !.idx_off = 4]
           f == [NoFile EXCEPT !.len = HdrSize + AVI_DATA]
<1>1. avi' = a /\ file' = HeaderWritten(a, f)
  BY DEF StartRecording
<1>2. a \in Writer /\ a.idx_off = 4 /\ a.idx.entries = << >>
  BY ZeroTypes DEF Writer
<1>3. f \in File /\ f.chunks = << >> /\ f.len = HdrSize + 12
  <2>1. HdrSize + AVI_DATA \in Nat /\ AVI_DATA = 12
    BY AviAssumption DEF AVI_DATA
  <2>2. QED
    BY <2>1, ZeroTypes DEF File
<1> HIDE DEF a, f
<1>4. file'.chunks = << >> /\ file'.len = HdrSize + 12
  BY <1>1, <1>2, <1>3, HeaderWrittenType
<1>5. HdrSize + 8 + 4 = HdrSize + 12
  BY AviAssumption
<1>6. DOMAIN << >> = {}
  OBVIOUS
<1>7. QED
  BY <1>1, <1>2, <1>4, <1>5, <1>6 DEF IndexFits

\* A chunk that is added keeps the entries of those before it, and another entry
\* at idx_off is right for it.
LEMMA ExtendIndex ==
  ASSUME NEW a \in Writer, NEW f \in File, NEW size \in Nat, NEW n \in Nat,
         AllWhole(f), IndexFits(a, f), ~f.gap
  PROVE  LET g == Extended(f, size, n)
             e == [offset |-> a.idx_off, size |-> Aligned(size)]
         IN
         /\ \A i \in DOMAIN a.idx.entries : Points(g, i, a.idx.entries[i])
         /\ ~LaterSegment(a) =>
              /\ Len(a.idx.entries) + 1 = Len(g.chunks)
              /\ Points(g, Len(g.chunks), e)
              /\ n = ChunkBytes(size) =>
                   HdrSize + 8 + (a.idx_off + ChunkBytes(size)) = g.len
<1> DEFINE g == Extended(f, size, n)
           e == [offset |-> a.idx_off, size |-> Aligned(size)]
           k == Len(f.chunks) + 1
<1>1. /\ g.len = f.len + n /\ Len(g.chunks) = k
      /\ DOMAIN g.chunks = 1..k /\ DOMAIN f.chunks = 1..Len(f.chunks)
      /\ Len(f.chunks) \in Nat /\ g.chunks[k] = ChunkOf(f, size, n)
      /\ \A i \in DOMAIN f.chunks : g.chunks[i] = f.chunks[i]
  BY ExtendedType, ZenonT(120)
<1>2. ChunkOf(f, size, n).at = f.len /\ ChunkOf(f, size, n).size = Aligned(size)
  BY DEF ChunkOf
<1>3. /\ a.idx_off \in Nat /\ f.len \in Nat /\ ChunkBytes(size) \in Nat
      /\ HdrSize \in Nat
  BY Alignment, AviAssumption DEF Writer, File
<1> HIDE DEF g
<1>4. k \in DOMAIN g.chunks /\ \A i \in DOMAIN f.chunks : i \in DOMAIN g.chunks
  BY <1>1
<1>5. \A i \in DOMAIN a.idx.entries : Points(g, i, a.idx.entries[i])
  BY <1>1, <1>4 DEF IndexFits, Points
<1>6. ASSUME ~LaterSegment(a)
      PROVE  /\ Len(a.idx.entries) + 1 = k
             /\ Points(g, k, e)
             /\ n = ChunkBytes(size) =>
                  HdrSize + 8 + (a.idx_off + ChunkBytes(size)) = g.len
  <2>1. Len(a.idx.entries) = Len(f.chunks) /\ HdrSize + 8 + a.idx_off = f.len
    BY <1>6 DEF IndexFits
  <2>2. Points(g, k, e)
    BY <1>1, <1>2, <1>4, <2>1 DEF Points
  <2>3. n = ChunkBytes(size) =>
          HdrSize + 8 + (a.idx_off + ChunkBytes(size)) = g.len
    BY <1>1, <1>3, <2>1
  <2>4. QED
    BY <2>1, <2>2, <2>3
<1>7. QED
  BY <1>1, <1>5, <1>6 DEF g

LEMMA WriteFrameIndex ==
  ASSUME TypeInv, IndexInv,
         NEW size \in Sizes, NEW n \in Reach(size), NEW grown \in BOOLEAN,
         NEW bad, WriteFrame(size, n, grown, bad)
  PROVE  IndexInv'
<1> SUFFICES ASSUME ~file'.gap PROVE IndexFits(avi', file')
  BY DEF IndexInv, IndexFits
<1> DEFINE a    == Counted(avi, size)
           f    == Extended(file, size, n)
           next == CloseAVISegment(a, f, FALSE, FALSE, bad)
           same == IF LaterSegment(a) THEN a ELSE Indexed(a, size, grown)
           gap  == ~LaterSegment(a) /\ ~same.idx.present
           e    == [offset |-> avi.idx_off, size |-> Aligned(size)]
<1>1. /\ size \in Nat \ {0} /\ n \in Nat /\ n <= ChunkBytes(size)
      /\ rchan = "avi" /\ AllWhole(file)
      /\ \/ avi' = a /\ file' = f /\ error' /\ n < ChunkBytes(size)
         \/ /\ CHUNK_HDR + size <= n /\ SegmentFull(a)
            /\ avi' = [next.avi EXCEPT !.num_idx = 0, !.idx = NullIdx]
            /\ file' = next.file
         \/ avi' = same /\ file' = Gapped(f, gap)
  BY WriteFrameCases, Zenon
<1>2. /\ avi \in Writer /\ file \in File /\ IndexFits(avi, file)
      /\ Len(avi.idx.entries) <= avi.num_idx
  BY <1>1 DEF TypeInv, CountsInv, IndexInv
<1>3. /\ a \in Writer /\ a.idx = avi.idx /\ a.idx_off = avi.idx_off
      /\ a.num_idx = avi.num_idx /\ (LaterSegment(a) <=> LaterSegment(avi))
      /\ a.totsize = avi.totsize + ChunkBytes(size)
  BY <1>1, <1>2, CountedType
<1>4. f \in File /\ f.gap = file.gap
  BY <1>1, <1>2, ExtendedType
<1>5. AllWhole(f) => n = ChunkBytes(size)
  BY <1>1, <1>2, AllWholeExtended
<1>6. ASSUME ~file.gap
      PROVE  /\ \A i \in DOMAIN avi.idx.entries : Points(f, i, avi.idx.entries[i])
             /\ ~LaterSegment(avi) =>
                  /\ Len(avi.idx.entries) + 1 = Len(f.chunks)
                  /\ Points(f, Len(f.chunks), e)
                  /\ n = ChunkBytes(size) =>
                       HdrSize + 8 + (avi.idx_off + ChunkBytes(size)) = f.len
  BY <1>1, <1>2, <1>6, ExtendIndex
<1> HIDE DEF a, f, next, same, gap
<1>7. CASE avi' = a /\ file' = f /\ n < ChunkBytes(size)
  <2>1. ChunkBytes(size) \in Nat
    BY <1>1, Alignment
  <2>2. ~AllWhole(f)
    BY <1>1, <1>5, <1>7, <2>1
  <2>3. QED
    BY <1>3, <1>4, <1>6, <1>7, <2>2 DEF IndexFits
<1>8. CASE /\ CHUNK_HDR + size <= n /\ SegmentFull(a)
           /\ avi' = [next.avi EXCEPT !.num_idx = 0, !.idx = NullIdx]
           /\ file' = next.file
  <2>1. Closes(a, f, FALSE, next)
    BY <1>3, <1>4, CloseType DEF next
  <2>2. /\ next.avi \in Writer /\ next.avi.segsize = 0
        /\ next.avi.totsize = a.totsize
    BY <2>1 DEF Closes
  <2>3. avi'.idx = NullIdx /\ avi'.segsize = 0 /\ avi'.totsize = a.totsize
    BY <1>8, <2>2 DEF Writer
  <2>4. avi.totsize \in Nat /\ ChunkBytes(size) \in Nat /\ ChunkBytes(size) >= 8
    BY <1>1, <1>2, Alignment, SMTT(60) DEF Writer
  <2>5. LaterSegment(avi')
    BY <1>3, <2>3, <2>4 DEF LaterSegment
  <2>6. NullIdx.entries = << >> /\ DOMAIN << >> = {}
    BY DEF NullIdx
  <2>7. QED
    BY <2>3, <2>5, <2>6 DEF IndexFits
<1>9. CASE avi' = same /\ file' = Gapped(f, gap)
  <2>1. gap \in BOOLEAN
    BY DEF gap
  <2>2. /\ file'.chunks = f.chunks /\ file'.len = f.len
        /\ ~f.gap /\ ~gap
    BY <1>4, <1>9, <2>1, GappedType
  <2>3. AllWhole(file') <=> AllWhole(f)
    BY <2>2 DEF AllWhole
  <2>4. \A i, x : Points(file', i, x) <=> Points(f, i, x)
    BY <2>2 DEF Points
  <2>5. CASE LaterSegment(a)
    <3>1. avi' = a
      BY <1>9, <2>5 DEF same
    <3>2. QED
      BY <1>3, <1>4, <1>6, <2>2, <2>4, <2>5, <3>1 DEF IndexFits
  <2>6. CASE ~LaterSegment(a)
    <3>1. same = Indexed(a, size, grown) /\ same.idx.present
      BY <2>2, <2>6 DEF same, gap
    <3>2. /\ same.idx_off = avi.idx_off + ChunkBytes(size)
          /\ same.idx.entries = Append(avi.idx.entries, e)
      <4>1. Len(a.idx.entries) <= a.num_idx /\ size \in Nat
        BY <1>1, <1>2, <1>3
      <4>2. Indexed(a, size, grown).idx.present =>
              /\ Indexed(a, size, grown).idx_off = a.idx_off + ChunkBytes(size)
              /\ Indexed(a, size, grown).idx.entries =
                   Append(a.idx.entries, [offset |-> a.idx_off, size |-> Aligned(size)])
        BY <1>3, <4>1, IndexedType, ZenonT(60)
      <4>3. QED
        BY <1>3, <3>1, <4>2
    <3>3. avi.idx.entries \in Seq(Entry) /\ e \in Entry
      BY <1>1, <1>2, Alignment DEF Writer, Table, Entry
    <3> HIDE DEF e
    <3>4. /\ Len(same.idx.entries) = Len(avi.idx.entries) + 1
          /\ Len(avi.idx.entries) \in Nat
          /\ \A i \in DOMAIN same.idx.entries :
               \/ i \in DOMAIN avi.idx.entries
                    /\ same.idx.entries[i] = avi.idx.entries[i]
               \/ i = Len(avi.idx.entries) + 1 /\ same.idx.entries[i] = e
      BY <3>2, <3>3
    <3>5. \A i \in DOMAIN same.idx.entries : Points(f, i, same.idx.entries[i])
      BY <1>3, <1>4, <1>6, <2>2, <2>6, <3>4
    <3>6. AllWhole(f) => /\ Len(same.idx.entries) = Len(f.chunks)
                         /\ HdrSize + 8 + same.idx_off = f.len
      BY <1>3, <1>4, <1>5, <1>6, <2>2, <2>6, <3>2, <3>4
    <3>7. QED
      BY <1>9, <2>2, <2>3, <2>4, <3>5, <3>6 DEF IndexFits
  <2>7. QED
    BY <2>5, <2>6
<1>10. QED
  BY <1>1, <1>7, <1>8, <1>9

LEMMA IndexInvariant == Spec => []IndexInv
<1>1. Init => IndexInv
  BY DEF Init, IndexInv
<1>2. TypeInv /\ IndexInv /\ [Next]_vars => IndexInv'
  <2> SUFFICES ASSUME TypeInv, IndexInv, [Next]_vars PROVE IndexInv'
    OBVIOUS
  <2>1. ASSUME NEW kind \in {"avi", "mjpeg"}, StartRecording(kind) PROVE IndexInv'
    BY <2>1, StartIndex
  <2>2. ASSUME NEW size \in Sizes, NEW grown \in BOOLEAN,
               NEW bad \in {"none", "sizes", "next"}, NEW n \in Reach(size),
               WriteFrame(size, n, grown, bad)
        PROVE  IndexInv'
    BY <2>2, WriteFrameIndex
  <2>3. CASE FrameFails \/ FrameRefused \/ UNCHANGED vars
    <3>1. rchan' = rchan /\ avi' = avi /\ file' = file
      BY <2>3 DEF FrameFails, FrameRefused, vars
    <3>2. QED
      BY <3>1 DEF IndexInv
  <2>4. ASSUME NEW stop \in BOOLEAN, FinishRecording(stop) PROVE IndexInv'
    BY <2>4 DEF FinishRecording, IndexInv
  <2>5. QED
    BY <2>1, <2>2, <2>3, <2>4 DEF Next
<1>3. QED
  BY <1>1, <1>2, TypeInvariant, PTL DEF Spec

\* If the file of a recording has an index, it was that of the only segment.
LEMMA FinishIndex ==
  ASSUME TypeInv, Layout(avi, file), IndexFits(avi, file), NEW d, FileEnds(d),
         d.head.indexed, ~d.gap
  PROVE  /\ DOMAIN d.avix = {}
         /\ \A i \in DOMAIN d.idx1 :
              /\ HdrSize + 8 + d.idx1[i].offset = d.chunks[i].at
              /\ d.idx1[i].size = d.chunks[i].size
         /\ AllWhole(d) => /\ Len(d.idx1) = Len(d.chunks)
                           /\ d.idxAt = FirstMovi(d).end
<1>1. /\ avi.idx.present /\ ~LaterSegment(avi)
      /\ d.idx1 = avi.idx.entries /\ d.idxAt = file.len
      /\ d.chunks = file.chunks /\ ~file.gap
  BY DEF FileEnds, TypeInv, CountsInv
<1>2. DOMAIN d.avix = {} /\ FirstMovi(d) = SegmentOf(avi, file, Base)
  BY <1>1, SegmentsRead DEF Layout, HeadsInOrder
<1>3. FirstMovi(d).end = EndOf(avi, file, Cur(avi))
  BY <1>1, <1>2 DEF SegmentOf, Cur
<1>4. AllWhole(d) <=> AllWhole(file)
  BY <1>1 DEF AllWhole
<1>5. QED
  BY <1>1, <1>2, <1>3, <1>4 DEF IndexFits, Points, Layout

\* Whatever was recorded, the index of a finished file, if it could be grown and
\* written, points at the frames.
THEOREM IndexPoints == Spec => []IndexPointsAtFrames
<1>1. Init => IndexPointsAtFrames
  BY DEF Init, IndexPointsAtFrames, NoFile, ZeroHead
<1>2. TypeInv /\ LayoutInv /\ IndexInv /\ IndexPointsAtFrames /\ [Next]_vars
        => IndexPointsAtFrames'
  <2> SUFFICES ASSUME TypeInv, LayoutInv, IndexInv, IndexPointsAtFrames, [Next]_vars
               PROVE  IndexPointsAtFrames'
    OBVIOUS
  <2>1. CASE done' = NoFile
    BY <2>1 DEF IndexPointsAtFrames, NoFile, ZeroHead
  <2>2. CASE done' = done
    BY <2>2 DEF IndexPointsAtFrames
  <2>3. ASSUME NEW err \in BOOLEAN, NEW bad \in {"none", "sizes"}, NEW whole \in BOOLEAN,
               rchan = "avi", done' = Finished(err, bad, whole).file
        PROVE  IndexPointsAtFrames'
    <3> SUFFICES ASSUME ~done'.torn, done'.head.indexed, ~done'.gap
                 PROVE  IndexPointsAtFrames'
      BY DEF IndexPointsAtFrames
    <3>1. FileEnds(done')
      BY <2>3, FinishedFile
    <3>2. Layout(avi, file) /\ IndexFits(avi, file)
      BY <2>3, <3>1 DEF LayoutInv, IndexInv, FileEnds
    <3> DEFINE d == done'
    <3>3. /\ DOMAIN d.avix = {}
          /\ \A i \in DOMAIN d.idx1 :
               /\ HdrSize + 8 + d.idx1[i].offset = d.chunks[i].at
               /\ d.idx1[i].size = d.chunks[i].size
          /\ AllWhole(d) => /\ Len(d.idx1) = Len(d.chunks)
                            /\ d.idxAt = FirstMovi(d).end
      BY <3>1, <3>2, FinishIndex
    <3>4. QED
      BY <3>3 DEF IndexPointsAtFrames
  <2>4. QED
    BY <2>1, <2>2, <2>3, DoneSteps
<1>3. QED
  BY <1>1, <1>2, TypeInvariant, LayoutInvariant, IndexInvariant, PTL DEF Spec
-----------------------------------------------------------------------------
(***************************************************************************)
(* UvcImages.  Arithmetic: powers of two, and bytes under a mask.          *)
(***************************************************************************)

\* The powers that shifts and bits go by.
LEMMA Powers ==
  /\ 2^0 = 1 /\ 2^1 = 2 /\ 2^2 = 4 /\ 2^3 = 8 /\ 2^4 = 16 /\ 2^5 = 32
  /\ 2^6 = 64 /\ 2^7 = 128 /\ 2^8 = 256
OBVIOUS

LEMMA ShiftWidth ==
  ASSUME NEW n \in 0 .. 8
  PROVE  /\ 2^n \in 1 .. 256
         /\ n >= 4 => 2^n >= 16
<1>1. n \in {0, 1, 2, 3, 4, 5, 6, 7, 8}
  OBVIOUS
<1>2. CASE n = 0  BY <1>2, Powers
<1>3. CASE n = 1  BY <1>3, Powers
<1>4. CASE n = 2  BY <1>4, Powers
<1>5. CASE n = 3  BY <1>5, Powers
<1>6. CASE n = 4  BY <1>6, Powers
<1>7. CASE n = 5  BY <1>7, Powers
<1>8. CASE n = 6  BY <1>8, Powers
<1>9. CASE n = 7  BY <1>9, Powers
<1>10. CASE n = 8  BY <1>10, Powers
<1> QED
  BY <1>1, <1>2, <1>3, <1>4, <1>5, <1>6, <1>7, <1>8, <1>9, <1>10

\* The bits of a byte under a mask: none is added, and all of 255 are its own.
LEMMA AndIs ==
  ASSUME NEW x \in 0 .. 255, NEW m \in 0 .. 255
  PROVE  And(x, m) \in 0 .. m /\ And(255, m) = m
<1> DEFINE b(v, p) == (v \div p) % 2
           both(v, p) == p * b(v, p) * b(m, p)
           c(p) == p * b(m, p)
           sum(v) == both(v, 1) + both(v, 2) + both(v, 4) + both(v, 8)
                     + both(v, 16) + both(v, 32) + both(v, 64) + both(v, 128)
<1>1. \A v \in 0 .. 255 : And(v, m) = sum(v)
  BY Powers DEF And, Bit
<1>2. m = c(1) + c(2) + c(4) + c(8) + c(16) + c(32) + c(64) + c(128)
  BY SMTT(60)
<1>3. \A v \in 0 .. 255 : \A p \in {1, 2, 4, 8, 16, 32, 64, 128} :
        both(v, p) \in 0 .. c(p)
  <2> SUFFICES ASSUME NEW v \in 0 .. 255,
                      NEW p \in {1, 2, 4, 8, 16, 32, 64, 128}
               PROVE  both(v, p) \in 0 .. c(p)
    BY Zenon
  <2>1. b(v, p) \in {0, 1} /\ b(m, p) \in {0, 1}
    OBVIOUS
  <2> HIDE DEF b
  <2> QED  BY <2>1
<1>4. \A p \in {1, 2, 4, 8, 16, 32, 64, 128} : both(255, p) = c(p)
  OBVIOUS
<1>5. \A p \in {1, 2, 4, 8, 16, 32, 64, 128} : c(p) \in Nat
  OBVIOUS
<1> HIDE DEF b, both, c
<1>6. sum(x) \in 0 .. m /\ sum(255) = m
  <2>1. /\ both(x, 1) \in 0 .. c(1) /\ both(x, 2) \in 0 .. c(2)
        /\ both(x, 4) \in 0 .. c(4) /\ both(x, 8) \in 0 .. c(8)
        /\ both(x, 16) \in 0 .. c(16) /\ both(x, 32) \in 0 .. c(32)
        /\ both(x, 64) \in 0 .. c(64) /\ both(x, 128) \in 0 .. c(128)
    BY <1>3, SMTT(60)
  <2>2. /\ both(255, 1) = c(1) /\ both(255, 2) = c(2)
        /\ both(255, 4) = c(4) /\ both(255, 8) = c(8)
        /\ both(255, 16) = c(16) /\ both(255, 32) = c(32)
        /\ both(255, 64) = c(64) /\ both(255, 128) = c(128)
    BY <1>4
  <2>3. /\ c(1) \in Nat /\ c(2) \in Nat /\ c(4) \in Nat /\ c(8) \in Nat
        /\ c(16) \in Nat /\ c(32) \in Nat /\ c(64) \in Nat /\ c(128) \in Nat
    BY <1>5
  <2> QED  BY <2>1, <2>2, <2>3, <1>2
<1> QED  BY <1>1, <1>6

LEMMA MaskedIs ==
  ASSUME NEW dst \in 0 .. 255, NEW src \in 0 .. 255, NEW m \in 0 .. 255
  PROVE  Masked(dst, src, m) \in 0 .. 255
<1>1. 255 - m \in 0 .. 255
  OBVIOUS
<1>2. And(dst, 255 - m) \in 0 .. 255 - m
  BY <1>1, AndIs, ZenonT(120)
<1>3. And(src, m) \in 0 .. m
  BY AndIs, ZenonT(60)
<1> QED  BY <1>2, <1>3, SMTT(60) DEF Masked

\* What is opaque stays so.
LEMMA MaskedOpaque ==
  ASSUME NEW m \in 0 .. 255
  PROVE  Masked(255, 255, m) = 255
<1>1. 255 \in 0 .. 255 /\ 255 - m \in 0 .. 255
  OBVIOUS
<1>2. And(255, 255 - m) = 255 - m
  BY <1>1, AndIs, ZenonT(60)
<1>3. And(255, m) = m
  BY <1>1, AndIs, ZenonT(60)
<1> QED  BY <1>2, <1>3 DEF Masked
-----------------------------------------------------------------------------
(***************************************************************************)
(* UvcImages.  Where a rotated and mirrored block has its pixels.          *)
(***************************************************************************)

Grid(w, h) == (0 .. w - 1) \X (0 .. h - 1)

Angles == {0, 90, 180, 270}

\* The shape of a turned picture, and the pixel of the picture that it has at a
\* place.
WidthOf(w, h, rot)  == IF rot \in {90, 270} THEN h ELSE w
HeightOf(w, h, rot) == IF rot \in {90, 270} THEN w ELSE h

TurnedFrom(w, h, rot, x, y) ==
  CASE rot = 0   -> <<x, y>>
    [] rot = 90  -> <<w - 1 - y, x>>
    [] rot = 180 -> <<w - 1 - x, h - 1 - y>>
    [] rot = 270 -> <<y, h - 1 - x>>

\* The same for a picture that is turned, and then has its rows and its columns
\* reversed.
From(w, h, rot, rows, columns, x, y) ==
  TurnedFrom(w, h, rot,
             IF columns THEN WidthOf(w, h, rot) - 1 - x ELSE x,
             IF rows THEN HeightOf(w, h, rot) - 1 - y ELSE y)

LEMMA FromIsPixel ==
  ASSUME NEW w \in Nat \ {0}, NEW h \in Nat \ {0}, NEW rot \in Angles,
         NEW rows \in BOOLEAN, NEW columns \in BOOLEAN,
         NEW x \in 0 .. WidthOf(w, h, rot) - 1,
         NEW y \in 0 .. HeightOf(w, h, rot) - 1
  PROVE  From(w, h, rot, rows, columns, x, y) \in Grid(w, h)
BY DEF From, TurnedFrom, WidthOf, HeightOf, Angles, Grid

Offsets(bpp) == IF bpp = 1 THEN <<0, 0, 0>> ELSE <<0, 1, 2>>

\* What a block reads: five numbers, and the bytes of a pixel.
Reads(b, bpp, ptr, size, pitch, width, height) ==
  /\ DOMAIN b = {"pixelPtr", "pixelSize", "pitch", "width", "height", "offset"}
  /\ b.pixelPtr = ptr /\ b.pixelSize = size /\ b.pitch = pitch
  /\ b.width = width /\ b.height = height
  /\ b.offset = Offsets(bpp)

\* A block given five numbers reads by those five; given three, it keeps its
\* width and its height.
LEMMA Rewritten ==
  ASSUME NEW b, NEW bpp, NEW p, NEW s, NEW d, NEW w, NEW h,
         Reads(b, bpp, p, s, d, w, h),
         NEW ptr, NEW size, NEW pitch, NEW width, NEW height
  PROVE  Reads([b EXCEPT !.pitch = pitch, !.pixelPtr = ptr,
                         !.pixelSize = size, !.width = width,
                         !.height = height],
               bpp, ptr, size, pitch, width, height)
BY DEF Reads

LEMMA RewrittenInPlace ==
  ASSUME NEW b, NEW bpp, NEW p, NEW s, NEW d, NEW w, NEW h,
         Reads(b, bpp, p, s, d, w, h),
         NEW ptr, NEW size, NEW pitch
  PROVE  Reads([b EXCEPT !.pitch = pitch, !.pixelPtr = ptr,
                         !.pixelSize = size],
               bpp, ptr, size, pitch, w, h)
BY DEF Reads

\* A whole picture, as it lies and turned three ways: where its first pixel is,
\* how far apart its pixels and its rows lie, and its width and height.
LEMMA BlockIs ==
  ASSUME NEW w \in Nat \ {0}, NEW h \in Nat \ {0}, NEW bpp \in {1, 3}
  PROVE  Reads(Block(w, h, bpp, w * bpp), bpp, 0, bpp, w * bpp, w, h)
BY DEF Reads, Block, Offsets

LEMMA Rotated0Is ==
  ASSUME NEW w \in Nat \ {0}, NEW h \in Nat \ {0}, NEW bpp \in {1, 3}
  PROVE  Reads(Rotated(Block(w, h, bpp, w * bpp), 0), bpp, 0, bpp, w * bpp,
               w, h)
<1> DEFINE b == Block(w, h, bpp, w * bpp)
<1>1. Reads(b, bpp, 0, bpp, w * bpp, w, h)
  BY BlockIs
<1> HIDE DEF b
<1>2. Rotated(b, 0) = b
  BY DEF Rotated
<1> QED  BY <1>1, <1>2, Zenon DEF b

LEMMA Rotated90Is ==
  ASSUME NEW w \in Nat \ {0}, NEW h \in Nat \ {0}, NEW bpp \in {1, 3}
  PROVE  Reads(Rotated(Block(w, h, bpp, w * bpp), 90), bpp, (w - 1) * bpp,
               bpp * w, -bpp, h, w)
<1> DEFINE b == Block(w, h, bpp, w * bpp)
           ptr == (w - 1) * bpp  size == bpp * w  pitch == -bpp
<1>1. Reads(b, bpp, 0, bpp, w * bpp, w, h)
  BY BlockIs
<1> HIDE DEF b
<1>2. /\ b.pixelSize = bpp /\ b.width = w /\ b.height = h
  BY <1>1 DEF Reads
<1>3. Rotated(b, 90) = [b EXCEPT !.pitch = pitch, !.pixelPtr = ptr,
                                 !.pixelSize = size, !.width = h, !.height = w]
  BY <1>2 DEF Rotated
<1> HIDE DEF ptr, size, pitch
<1>4. Reads([b EXCEPT !.pitch = pitch, !.pixelPtr = ptr, !.pixelSize = size,
                      !.width = h, !.height = w],
            bpp, ptr, size, pitch, h, w)
  BY <1>1, Rewritten, Zenon
<1>5. Reads(Rotated(b, 90), bpp, ptr, size, pitch, h, w)
  BY <1>3, <1>4, Zenon
<1> QED  BY <1>5, Zenon DEF b, ptr, size, pitch

LEMMA Rotated180Is ==
  ASSUME NEW w \in Nat \ {0}, NEW h \in Nat \ {0}, NEW bpp \in {1, 3}
  PROVE  Reads(Rotated(Block(w, h, bpp, w * bpp), 180), bpp, (w * h - 1) * bpp,
               -bpp, -(w * bpp), w, h)
<1> DEFINE b == Block(w, h, bpp, w * bpp)
           ptr == (w * h - 1) * bpp  size == -bpp  pitch == -(w * bpp)
<1>1. Reads(b, bpp, 0, bpp, w * bpp, w, h)
  BY BlockIs
<1> HIDE DEF b
<1>2. /\ b.pixelSize = bpp /\ b.pitch = w * bpp /\ b.width = w
      /\ b.height = h
  BY <1>1 DEF Reads
<1>3. Rotated(b, 180) = [b EXCEPT !.pitch = pitch, !.pixelPtr = ptr,
                                  !.pixelSize = size]
  BY <1>2 DEF Rotated
<1> HIDE DEF ptr, size, pitch
<1>4. Reads([b EXCEPT !.pitch = pitch, !.pixelPtr = ptr, !.pixelSize = size],
            bpp, ptr, size, pitch, w, h)
  BY <1>1, RewrittenInPlace, Zenon
<1>5. Reads(Rotated(b, 180), bpp, ptr, size, pitch, w, h)
  BY <1>3, <1>4, Zenon
<1> QED  BY <1>5, Zenon DEF b, ptr, size, pitch

LEMMA Rotated270Is ==
  ASSUME NEW w \in Nat \ {0}, NEW h \in Nat \ {0}, NEW bpp \in {1, 3}
  PROVE  Reads(Rotated(Block(w, h, bpp, w * bpp), 270), bpp,
               w * bpp * (h - 1), bpp * (-w), bpp, h, w)
<1> DEFINE b == Block(w, h, bpp, w * bpp)
           ptr == w * bpp * (h - 1)  size == bpp * (-w)  pitch == bpp
<1>1. Reads(b, bpp, 0, bpp, w * bpp, w, h)
  BY BlockIs
<1> HIDE DEF b
<1>2. /\ b.pixelSize = bpp /\ b.pitch = w * bpp /\ b.width = w
      /\ b.height = h
  BY <1>1 DEF Reads
<1>3. Rotated(b, 270) = [b EXCEPT !.pitch = pitch, !.pixelPtr = ptr,
                                  !.pixelSize = size, !.width = h,
                                  !.height = w]
  BY <1>2 DEF Rotated
<1> HIDE DEF ptr, size, pitch
<1>4. Reads([b EXCEPT !.pitch = pitch, !.pixelPtr = ptr, !.pixelSize = size,
                      !.width = h, !.height = w],
            bpp, ptr, size, pitch, h, w)
  BY <1>1, Rewritten, Zenon
<1>5. Reads(Rotated(b, 270), bpp, ptr, size, pitch, h, w)
  BY <1>3, <1>4, Zenon
<1> QED  BY <1>5, Zenon DEF b, ptr, size, pitch

\* Mirroring one way reads a block from its other end.
LEMMA MirroredIs ==
  ASSUME NEW w \in Nat \ {0}, NEW h \in Nat \ {0}, NEW bpp \in {1, 3},
         NEW rot \in Angles, NEW b,
         NEW ptr \in Int, NEW size \in Int, NEW pitch \in Int,
         NEW width \in Int, NEW height \in Int,
         Reads(Rotated(b, rot), bpp, ptr, size, pitch, width, height)
  PROVE  /\ Reads(Oriented(b, rot, 0), bpp, ptr, size, pitch, width, height)
         /\ Reads(Oriented(b, rot, 1), bpp, ptr + pitch * (height - 1), size,
                  -pitch, width, height)
         /\ Reads(Oriented(b, rot, 2), bpp, ptr + (width - 1) * size, -size,
                  pitch, width, height)
<1> DEFINE r == Rotated(b, rot)
<1>1. Oriented(b, rot, 0) = r
  BY DEF Oriented
<1>2. /\ r.pixelPtr = ptr /\ r.pixelSize = size /\ r.pitch = pitch
      /\ r.width = width /\ r.height = height
  BY DEF Reads
<1>3. Reads(Oriented(b, rot, 1), bpp, ptr + pitch * (height - 1), size, -pitch,
            width, height)
  <2> DEFINE p == ptr + pitch * (height - 1)
  <2>1. Oriented(b, rot, 1) = [r EXCEPT !.pixelPtr = p, !.pitch = -pitch]
    <3>1. Oriented(b, rot, 1) =
            [r EXCEPT !.pixelPtr = r.pixelPtr + r.pitch * (r.height - 1),
                      !.pitch = -r.pitch]
      BY DEF Oriented
    <3> QED  BY <3>1, <1>2
  <2> HIDE DEF p
  <2>2. Reads(Oriented(b, rot, 1), bpp, p, size, -pitch, width, height)
    BY <2>1 DEF Reads
  <2> QED  BY <2>2 DEF p
<1>4. Reads(Oriented(b, rot, 2), bpp, ptr + (width - 1) * size, -size, pitch,
            width, height)
  <2> DEFINE p == ptr + (width - 1) * size
  <2>1. Oriented(b, rot, 2) = [r EXCEPT !.pixelPtr = p, !.pixelSize = -size]
    <3>1. Oriented(b, rot, 2) =
            [r EXCEPT !.pixelPtr = r.pixelPtr + (r.width - 1) * r.pixelSize,
                      !.pixelSize = -r.pixelSize]
      BY DEF Oriented
    <3> QED  BY <3>1, <1>2
  <2> HIDE DEF p
  <2>2. Reads(Oriented(b, rot, 2), bpp, p, -size, pitch, width, height)
    BY <2>1 DEF Reads
  <2> QED  BY <2>2 DEF p
<1> QED  BY <1>1, <1>3, <1>4

\* The block b has the bytes of a picture, turned and reversed, where they lie.
Finds(b, w, h, bpp, rot, rows, columns) ==
  \E ptr, size, pitch \in Int :
    /\ Reads(b, bpp, ptr, size, pitch, WidthOf(w, h, rot), HeightOf(w, h, rot))
    /\ \A x, y \in Int :
         LET from == From(w, h, rot, rows, columns, x, y)
         IN ptr + x * size + y * pitch = bpp * (from[1] + w * from[2])

LEMMA TurnedFinds ==
  ASSUME NEW w \in Nat \ {0}, NEW h \in Nat \ {0}, NEW bpp \in {1, 3},
         NEW rot \in Angles
  PROVE  Finds(Rotated(Block(w, h, bpp, w * bpp), rot), w, h, bpp, rot,
               FALSE, FALSE)
<1> DEFINE b == Rotated(Block(w, h, bpp, w * bpp), rot)
<1>1. CASE rot = 0
  <2>1. Reads(b, bpp, 0, bpp, w * bpp, WidthOf(w, h, rot),
              HeightOf(w, h, rot))
    <3>1. WidthOf(w, h, rot) = w /\ HeightOf(w, h, rot) = h
      BY <1>1 DEF WidthOf, HeightOf
    <3>2. Reads(b, bpp, 0, bpp, w * bpp, w, h)
      <4>1. Reads(Rotated(Block(w, h, bpp, w * bpp), 0), bpp, 0, bpp,
                  w * bpp, w, h)
        BY Rotated0Is, Zenon
      <4> QED  BY <4>1, <1>1, Zenon
    <3> QED  BY <3>1, <3>2, Zenon
  <2>2. \A x, y \in Int :
          LET from == From(w, h, rot, FALSE, FALSE, x, y)
          IN 0 + x * bpp + y * (w * bpp) = bpp * (from[1] + w * from[2])
    BY <1>1 DEF From, TurnedFrom
  <2>3. 0 \in Int /\ bpp \in Int /\ w * bpp \in Int
    OBVIOUS
  <2> QED  BY <2>1, <2>2, <2>3, ZenonT(60) DEF Finds
<1>2. CASE rot = 90
  <2>1. Reads(b, bpp, (w - 1) * bpp, bpp * w, -bpp, WidthOf(w, h, rot),
              HeightOf(w, h, rot))
    <3>1. WidthOf(w, h, rot) = h /\ HeightOf(w, h, rot) = w
      BY <1>2 DEF WidthOf, HeightOf
    <3>2. Reads(b, bpp, (w - 1) * bpp, bpp * w, -bpp, h, w)
      <4>1. Reads(Rotated(Block(w, h, bpp, w * bpp), 90), bpp,
                  (w - 1) * bpp, bpp * w, -bpp, h, w)
        BY Rotated90Is, Zenon
      <4> QED  BY <4>1, <1>2, Zenon
    <3> QED  BY <3>1, <3>2, Zenon
  <2>2. \A x, y \in Int :
          LET from == From(w, h, rot, FALSE, FALSE, x, y)
          IN (w - 1) * bpp + x * (bpp * w) + y * (-bpp) =
               bpp * (from[1] + w * from[2])
    BY <1>2 DEF From, TurnedFrom
  <2>3. (w - 1) * bpp \in Int /\ bpp * w \in Int /\ -bpp \in Int
    OBVIOUS
  <2> QED  BY <2>1, <2>2, <2>3, ZenonT(60) DEF Finds
<1>3. CASE rot = 180
  <2>1. Reads(b, bpp, (w * h - 1) * bpp, -bpp, -(w * bpp), WidthOf(w, h, rot),
              HeightOf(w, h, rot))
    <3>1. WidthOf(w, h, rot) = w /\ HeightOf(w, h, rot) = h
      BY <1>3 DEF WidthOf, HeightOf
    <3>2. Reads(b, bpp, (w * h - 1) * bpp, -bpp, -(w * bpp), w, h)
      <4>1. Reads(Rotated(Block(w, h, bpp, w * bpp), 180), bpp,
                  (w * h - 1) * bpp, -bpp, -(w * bpp), w, h)
        BY Rotated180Is, Zenon
      <4> QED  BY <4>1, <1>3, Zenon
    <3> QED  BY <3>1, <3>2, Zenon
  <2>2. \A x, y \in Int :
          LET from == From(w, h, rot, FALSE, FALSE, x, y)
          IN (w * h - 1) * bpp + x * (-bpp) + y * (-(w * bpp)) =
               bpp * (from[1] + w * from[2])
    <3> SUFFICES ASSUME NEW x \in Int, NEW y \in Int
                 PROVE  (w * h - 1) * bpp + x * (-bpp) + y * (-(w * bpp)) =
                          bpp * ((w - 1 - x) + w * (h - 1 - y))
      BY <1>3 DEF From, TurnedFrom
    <3> QED  OBVIOUS
  <2>3. (w * h - 1) * bpp \in Int /\ -bpp \in Int /\ -(w * bpp) \in Int
    OBVIOUS
  <2> QED  BY <2>1, <2>2, <2>3, ZenonT(60) DEF Finds
<1>4. CASE rot = 270
  <2>1. Reads(b, bpp, w * bpp * (h - 1), bpp * (-w), bpp, WidthOf(w, h, rot),
              HeightOf(w, h, rot))
    <3>1. WidthOf(w, h, rot) = h /\ HeightOf(w, h, rot) = w
      BY <1>4 DEF WidthOf, HeightOf
    <3>2. Reads(b, bpp, w * bpp * (h - 1), bpp * (-w), bpp, h, w)
      <4>1. Reads(Rotated(Block(w, h, bpp, w * bpp), 270), bpp,
                  w * bpp * (h - 1), bpp * (-w), bpp, h, w)
        BY Rotated270Is, Zenon
      <4> QED  BY <4>1, <1>4, Zenon
    <3> QED  BY <3>1, <3>2, Zenon
  <2>2. \A x, y \in Int :
          LET from == From(w, h, rot, FALSE, FALSE, x, y)
          IN w * bpp * (h - 1) + x * (bpp * (-w)) + y * bpp =
               bpp * (from[1] + w * from[2])
    BY <1>4, SMTT(60) DEF From, TurnedFrom
  <2>3. w * bpp * (h - 1) \in Int /\ bpp * (-w) \in Int /\ bpp \in Int
    OBVIOUS
  <2> QED  BY <2>1, <2>2, <2>3, ZenonT(60) DEF Finds
<1> QED  BY <1>1, <1>2, <1>3, <1>4 DEF Angles

\* Mirroring one way reads a block from its other end, and mirroring both ways
\* is a rotation by 180 degrees more.
LEMMA OrientedFinds ==
  ASSUME NEW w \in Nat \ {0}, NEW h \in Nat \ {0}, NEW bpp \in {1, 3},
         NEW rot \in Angles, NEW rows \in BOOLEAN, NEW columns \in BOOLEAN
  PROVE  Finds(Oriented(Block(w, h, bpp, w * bpp), rot, Mirror(rows, columns)),
               w, h, bpp, rot, rows, columns)
<1> DEFINE b == Block(w, h, bpp, w * bpp)
           W == WidthOf(w, h, rot)  H == HeightOf(w, h, rot)
           Pixel(x, y) ==
             LET from == TurnedFrom(w, h, rot, x, y)
             IN bpp * (from[1] + w * from[2])
<1>1. W \in Int /\ H \in Int
  BY DEF WidthOf, HeightOf
<1>2. CASE ~ (rows /\ columns)
  <2>1. PICK ptr \in Int, size \in Int, pitch \in Int :
          /\ Reads(Rotated(b, rot), bpp, ptr, size, pitch, W, H)
          /\ \A x, y \in Int :
               LET from == From(w, h, rot, FALSE, FALSE, x, y)
               IN ptr + x * size + y * pitch = bpp * (from[1] + w * from[2])
    <3>1. Finds(Rotated(b, rot), w, h, bpp, rot, FALSE, FALSE)
      BY TurnedFinds
    <3> QED  BY <3>1, Zenon DEF Finds
  <2>2. \A x, y \in Int : ptr + x * size + y * pitch = Pixel(x, y)
    BY <2>1 DEF From
  <2> HIDE DEF b
  <2>3. /\ Reads(Oriented(b, rot, 0), bpp, ptr, size, pitch, W, H)
        /\ Reads(Oriented(b, rot, 1), bpp, ptr + pitch * (H - 1), size,
                 -pitch, W, H)
        /\ Reads(Oriented(b, rot, 2), bpp, ptr + (W - 1) * size, -size,
                 pitch, W, H)
    BY <2>1, <1>1, MirroredIs
  <2> HIDE DEF W, H, Pixel
  <2>4. CASE ~ rows /\ ~ columns
    <3>1. Mirror(rows, columns) = 0
      BY <2>4 DEF Mirror
    <3>2. \A x, y \in Int :
            LET from == From(w, h, rot, rows, columns, x, y)
            IN ptr + x * size + y * pitch = bpp * (from[1] + w * from[2])
      BY <2>2, <2>4 DEF From, Pixel
    <3> QED  BY <3>1, <3>2, <2>3, ZenonT(120) DEF Finds, W, H, b
  <2>5. CASE rows /\ ~ columns
    <3>1. Mirror(rows, columns) = 1
      BY <2>5 DEF Mirror
    <3>2. \A x, y \in Int :
            LET from == From(w, h, rot, rows, columns, x, y)
            IN Pixel(x, H - 1 - y) = bpp * (from[1] + w * from[2])
      BY <2>5 DEF From, Pixel, H
    <3>3. \A x, y \in Int :
            ptr + pitch * (H - 1) + x * size + y * (-pitch) =
              Pixel(x, H - 1 - y)
      <4> SUFFICES ASSUME NEW x \in Int, NEW y \in Int
                   PROVE  ptr + pitch * (H - 1) + x * size + y * (-pitch) =
                            Pixel(x, H - 1 - y)
        OBVIOUS
      <4>1. ptr + x * size + (H - 1 - y) * pitch = Pixel(x, H - 1 - y)
        BY <2>2, <1>1
      <4> QED  BY <4>1, <1>1
    <3>4. ptr + pitch * (H - 1) \in Int /\ -pitch \in Int
      BY <1>1
    <3>5. Reads(Oriented(b, rot, Mirror(rows, columns)), bpp,
                ptr + pitch * (H - 1), size, -pitch, W, H)
      BY <3>1, <2>3, Zenon
    <3>6. \A x, y \in Int :
            LET from == From(w, h, rot, rows, columns, x, y)
            IN ptr + pitch * (H - 1) + x * size + y * (-pitch) =
                 bpp * (from[1] + w * from[2])
      BY <3>2, <3>3, ZenonT(60)
    <3> QED  BY <3>4, <3>5, <3>6, ZenonT(120) DEF Finds, W, H, b
  <2>6. CASE ~ rows /\ columns
    <3>1. Mirror(rows, columns) = 2
      BY <2>6 DEF Mirror
    <3>2. \A x, y \in Int :
            LET from == From(w, h, rot, rows, columns, x, y)
            IN Pixel(W - 1 - x, y) = bpp * (from[1] + w * from[2])
      BY <2>6 DEF From, Pixel, W
    <3>3. \A x, y \in Int :
            ptr + (W - 1) * size + x * (-size) + y * pitch =
              Pixel(W - 1 - x, y)
      <4> SUFFICES ASSUME NEW x \in Int, NEW y \in Int
                   PROVE  ptr + (W - 1) * size + x * (-size) + y * pitch =
                            Pixel(W - 1 - x, y)
        OBVIOUS
      <4>1. ptr + (W - 1 - x) * size + y * pitch = Pixel(W - 1 - x, y)
        BY <2>2, <1>1
      <4> QED  BY <4>1, <1>1
    <3>4. ptr + (W - 1) * size \in Int /\ -size \in Int
      BY <1>1
    <3>5. Reads(Oriented(b, rot, Mirror(rows, columns)), bpp,
                ptr + (W - 1) * size, -size, pitch, W, H)
      BY <3>1, <2>3, Zenon
    <3>6. \A x, y \in Int :
            LET from == From(w, h, rot, rows, columns, x, y)
            IN ptr + (W - 1) * size + x * (-size) + y * pitch =
                 bpp * (from[1] + w * from[2])
      BY <3>2, <3>3, ZenonT(60)
    <3> QED  BY <3>4, <3>5, <3>6, ZenonT(120) DEF Finds, W, H, b
  <2> QED  BY <1>2, <2>4, <2>5, <2>6
<1>3. CASE rows /\ columns
  <2> DEFINE half == (rot + 180) % 360
  <2>1. /\ half \in Angles /\ W = WidthOf(w, h, half)
        /\ H = HeightOf(w, h, half)
    BY DEF Angles, WidthOf, HeightOf
  <2>2. Oriented(b, rot, Mirror(rows, columns)) = Rotated(b, half)
    BY <1>3 DEF Oriented, Mirror
  <2>3. \A x, y \in Int : From(w, h, half, FALSE, FALSE, x, y) =
                            From(w, h, rot, rows, columns, x, y)
    BY <1>3 DEF From, TurnedFrom, Angles, WidthOf, HeightOf
  <2> HIDE DEF half
  <2>4. Finds(Rotated(b, half), w, h, bpp, half, FALSE, FALSE)
    BY <2>1, TurnedFinds
  <2> HIDE DEF b
  <2>5. PICK ptr \in Int, size \in Int, pitch \in Int :
          /\ Reads(Rotated(b, half), bpp, ptr, size, pitch, W, H)
          /\ \A x, y \in Int :
               LET from == From(w, h, half, FALSE, FALSE, x, y)
               IN ptr + x * size + y * pitch = bpp * (from[1] + w * from[2])
    BY <2>1, <2>4, ZenonT(60) DEF Finds
  <2>6. \A x, y \in Int :
          LET from == From(w, h, rot, rows, columns, x, y)
          IN ptr + x * size + y * pitch = bpp * (from[1] + w * from[2])
    BY <2>3, <2>5, ZenonT(120)
  <2>7. Reads(Oriented(b, rot, Mirror(rows, columns)), bpp, ptr, size, pitch,
              W, H)
    BY <2>2, <2>5, Zenon
  <2> QED  BY <2>6, <2>7, ZenonT(60) DEF Finds, b
<1> QED  BY <1>2, <1>3
-----------------------------------------------------------------------------
(***************************************************************************)
(* UvcImages.  Turning and reversing a picture.                            *)
(***************************************************************************)

\* The image i is a picture, turned and reversed.
Depicts(i, w, h, pixels, rot, rows, columns) ==
  /\ DOMAIN i = {"w", "h", "at"}
  /\ i.w = WidthOf(w, h, rot) /\ i.h = HeightOf(w, h, rot)
  /\ DOMAIN i.at = Grid(i.w, i.h)
  /\ \A x \in 0 .. i.w - 1, y \in 0 .. i.h - 1 :
       i.at[<<x, y>>] = pixels[From(w, h, rot, rows, columns, x, y)]

LEMMA QuarterTurnIs ==
  ASSUME NEW i
  PROVE  LET q == QuarterTurn(i) IN
         /\ DOMAIN q = {"w", "h", "at"}
         /\ q.w = i.h /\ q.h = i.w /\ DOMAIN q.at = Grid(q.w, q.h)
         /\ \A x \in 0 .. q.w - 1, y \in 0 .. q.h - 1 :
              q.at[<<x, y>>] = i.at[<<i.w - 1 - y, x>>]
BY DEF QuarterTurn, Grid

LEMMA TurnedDepicts ==
  ASSUME NEW w \in Nat \ {0}, NEW h \in Nat \ {0}, NEW rot \in Angles, NEW i,
         Depicts(i, w, h, i.at, 0, FALSE, FALSE)
  PROVE  Depicts(Turned(i, rot), w, h, i.at, rot, FALSE, FALSE)
<1> DEFINE pixels == i.at
           q == QuarterTurn(i)  qq == QuarterTurn(q)  qqq == QuarterTurn(qq)
<1>1. i.w = w /\ i.h = h
  BY DEF Depicts, WidthOf, HeightOf
<1>2. /\ DOMAIN q = {"w", "h", "at"} /\ q.w = h /\ q.h = w
      /\ DOMAIN q.at = Grid(h, w)
      /\ \A x \in 0 .. h - 1, y \in 0 .. w - 1 :
           q.at[<<x, y>>] = pixels[<<w - 1 - y, x>>]
  BY <1>1, QuarterTurnIs
<1> HIDE DEF q, pixels
<1>3. /\ DOMAIN qq = {"w", "h", "at"} /\ qq.w = w /\ qq.h = h
      /\ DOMAIN qq.at = Grid(w, h)
      /\ \A x \in 0 .. w - 1, y \in 0 .. h - 1 :
           qq.at[<<x, y>>] = pixels[<<w - 1 - x, h - 1 - y>>]
  <2>1. /\ DOMAIN qq = {"w", "h", "at"} /\ qq.w = w /\ qq.h = h
        /\ DOMAIN qq.at = Grid(w, h)
        /\ \A x \in 0 .. w - 1, y \in 0 .. h - 1 :
             qq.at[<<x, y>>] = q.at[<<h - 1 - y, x>>]
    BY <1>2, QuarterTurnIs
  <2> HIDE DEF qq
  <2>2. \A x \in 0 .. w - 1, y \in 0 .. h - 1 :
          qq.at[<<x, y>>] = pixels[<<w - 1 - x, h - 1 - y>>]
    <3> SUFFICES ASSUME NEW x \in 0 .. w - 1, NEW y \in 0 .. h - 1
                 PROVE  qq.at[<<x, y>>] = pixels[<<w - 1 - x, h - 1 - y>>]
      OBVIOUS
    <3>1. h - 1 - y \in 0 .. h - 1 /\ x \in 0 .. w - 1
      OBVIOUS
    <3>2. q.at[<<h - 1 - y, x>>] = pixels[<<w - 1 - x, h - 1 - y>>]
      BY <3>1, <1>2
    <3> QED  BY <3>2, <2>1
  <2> QED  BY <2>1, <2>2
<1> HIDE DEF qq
<1>4. /\ DOMAIN qqq = {"w", "h", "at"} /\ qqq.w = h /\ qqq.h = w
      /\ DOMAIN qqq.at = Grid(h, w)
      /\ \A x \in 0 .. h - 1, y \in 0 .. w - 1 :
           qqq.at[<<x, y>>] = pixels[<<y, h - 1 - x>>]
  <2>1. /\ DOMAIN qqq = {"w", "h", "at"} /\ qqq.w = h /\ qqq.h = w
        /\ DOMAIN qqq.at = Grid(h, w)
        /\ \A x \in 0 .. h - 1, y \in 0 .. w - 1 :
             qqq.at[<<x, y>>] = qq.at[<<w - 1 - y, x>>]
    BY <1>3, QuarterTurnIs
  <2> HIDE DEF qqq
  <2>2. \A x \in 0 .. h - 1, y \in 0 .. w - 1 :
          qqq.at[<<x, y>>] = pixels[<<y, h - 1 - x>>]
    <3> SUFFICES ASSUME NEW x \in 0 .. h - 1, NEW y \in 0 .. w - 1
                 PROVE  qqq.at[<<x, y>>] = pixels[<<y, h - 1 - x>>]
      OBVIOUS
    <3>1. w - 1 - y \in 0 .. w - 1 /\ w - 1 - (w - 1 - y) = y
      OBVIOUS
    <3>2. qq.at[<<w - 1 - y, x>>] = pixels[<<y, h - 1 - x>>]
      BY <3>1, <1>3
    <3> QED  BY <3>2, <2>1
  <2> QED  BY <2>1, <2>2
<1> HIDE DEF qqq
<1>5. CASE rot = 0
  <2>1. Turned(i, rot) = i
    BY <1>5 DEF Turned
  <2> QED  BY <2>1, <1>5
<1>6. CASE rot = 90
  <2>1. Turned(i, rot) = q
    BY <1>6 DEF Turned, q
  <2>2. Depicts(q, w, h, pixels, rot, FALSE, FALSE)
    BY <1>2, <1>6 DEF Depicts, From, TurnedFrom, WidthOf, HeightOf
  <2> QED  BY <2>1, <2>2 DEF pixels
<1>7. CASE rot = 180
  <2>1. Turned(i, rot) = qq
    BY <1>7 DEF Turned, q, qq
  <2>2. Depicts(qq, w, h, pixels, rot, FALSE, FALSE)
    BY <1>3, <1>7 DEF Depicts, From, TurnedFrom, WidthOf, HeightOf
  <2> QED  BY <2>1, <2>2 DEF pixels
<1>8. CASE rot = 270
  <2>1. Turned(i, rot) = qqq
    BY <1>8 DEF Turned, q, qq, qqq
  <2>2. Depicts(qqq, w, h, pixels, rot, FALSE, FALSE)
    BY <1>4, <1>8 DEF Depicts, From, TurnedFrom, WidthOf, HeightOf
  <2> QED  BY <2>1, <2>2 DEF pixels
<1> QED  BY <1>5, <1>6, <1>7, <1>8 DEF Angles

LEMMA FlippedDepicts ==
  ASSUME NEW w \in Nat \ {0}, NEW h \in Nat \ {0}, NEW rot \in Angles,
         NEW rows \in BOOLEAN, NEW columns \in BOOLEAN, NEW i, NEW pixels,
         Depicts(i, w, h, pixels, rot, FALSE, FALSE)
  PROVE  Depicts(Flipped(i, rows, columns), w, h, pixels, rot, rows, columns)
<1> DEFINE W == WidthOf(w, h, rot)  H == HeightOf(w, h, rot)
           F(c, r, x, y) == From(w, h, rot, r, c, x, y)
           j == IF rows THEN RowsReversed(i) ELSE i
           k == IF columns THEN ColumnsReversed(j) ELSE j
<1>1. W \in Nat \ {0} /\ H \in Nat \ {0}
  BY DEF WidthOf, HeightOf
<1>2. \A x, y \in Int :
        /\ F(FALSE, TRUE, x, y) = F(FALSE, FALSE, x, H - 1 - y)
        /\ F(TRUE, rows, x, y) = F(FALSE, rows, W - 1 - x, y)
  BY DEF From
<1>3. /\ DOMAIN i = {"w", "h", "at"} /\ i.w = W /\ i.h = H
      /\ DOMAIN i.at = Grid(W, H)
      /\ \A x \in 0 .. W - 1, y \in 0 .. H - 1 :
           i.at[<<x, y>>] = pixels[F(FALSE, FALSE, x, y)]
  BY DEF Depicts
<1> HIDE DEF W, H, F
<1>4. /\ DOMAIN j = {"w", "h", "at"} /\ j.w = W /\ j.h = H
      /\ DOMAIN j.at = Grid(W, H)
      /\ \A x \in 0 .. W - 1, y \in 0 .. H - 1 :
           j.at[<<x, y>>] = pixels[F(FALSE, rows, x, y)]
  <2>1. CASE ~ rows
    BY <2>1, <1>3, ZenonT(120)
  <2>2. CASE rows
    <3>1. /\ DOMAIN j = {"w", "h", "at"} /\ j.w = W /\ j.h = H
          /\ j.at = [p \in Grid(W, H) |-> i.at[<<p[1], H - 1 - p[2]>>]]
      BY <2>2, <1>3 DEF RowsReversed
    <3> HIDE DEF j
    <3>2. \A x \in 0 .. W - 1, y \in 0 .. H - 1 :
            j.at[<<x, y>>] = pixels[F(FALSE, TRUE, x, y)]
      <4> SUFFICES ASSUME NEW x \in 0 .. W - 1, NEW y \in 0 .. H - 1
                   PROVE  j.at[<<x, y>>] = pixels[F(FALSE, TRUE, x, y)]
        OBVIOUS
      <4>1. H - 1 - y \in 0 .. H - 1 /\ x \in Int /\ y \in Int
        BY <1>1
      <4>2. j.at[<<x, y>>] = i.at[<<x, H - 1 - y>>]
        BY <3>1 DEF Grid
      <4>3. F(FALSE, TRUE, x, y) = F(FALSE, FALSE, x, H - 1 - y)
        BY <4>1, <1>2
      <4>4. i.at[<<x, H - 1 - y>>] = pixels[F(FALSE, FALSE, x, H - 1 - y)]
        BY <4>1, <1>3
      <4> QED  BY <4>2, <4>3, <4>4, Zenon
    <3> QED  BY <3>1, <3>2, <2>2, ZenonT(60)
  <2> QED  BY <2>1, <2>2
<1> HIDE DEF j
<1>5. /\ DOMAIN k = {"w", "h", "at"} /\ k.w = W /\ k.h = H
      /\ DOMAIN k.at = Grid(W, H)
      /\ \A x \in 0 .. W - 1, y \in 0 .. H - 1 :
           k.at[<<x, y>>] = pixels[F(columns, rows, x, y)]
  <2>1. CASE ~ columns
    BY <2>1, <1>4, ZenonT(120)
  <2>2. CASE columns
    <3>1. /\ DOMAIN k = {"w", "h", "at"} /\ k.w = W /\ k.h = H
          /\ k.at = [p \in Grid(W, H) |-> j.at[<<W - 1 - p[1], p[2]>>]]
      BY <2>2, <1>4 DEF ColumnsReversed
    <3> HIDE DEF k
    <3>2. \A x \in 0 .. W - 1, y \in 0 .. H - 1 :
            k.at[<<x, y>>] = pixels[F(TRUE, rows, x, y)]
      <4> SUFFICES ASSUME NEW x \in 0 .. W - 1, NEW y \in 0 .. H - 1
                   PROVE  k.at[<<x, y>>] = pixels[F(TRUE, rows, x, y)]
        OBVIOUS
      <4>1. W - 1 - x \in 0 .. W - 1 /\ x \in Int /\ y \in Int
        BY <1>1
      <4>2. k.at[<<x, y>>] = j.at[<<W - 1 - x, y>>]
        BY <3>1 DEF Grid
      <4>3. F(TRUE, rows, x, y) = F(FALSE, rows, W - 1 - x, y)
        BY <4>1, <1>2
      <4>4. j.at[<<W - 1 - x, y>>] = pixels[F(FALSE, rows, W - 1 - x, y)]
        BY <4>1, <1>4
      <4> QED  BY <4>2, <4>3, <4>4
    <3> QED  BY <3>1, <3>2, <2>2, ZenonT(60)
  <2> QED  BY <2>1, <2>2
<1>6. Flipped(i, rows, columns) = k
  BY DEF Flipped, j
<1> HIDE DEF k
<1> QED  BY <1>5, <1>6 DEF Depicts, W, H, F
-----------------------------------------------------------------------------
(***************************************************************************)
(* UvcImages.  Photos: what a block puts into one.                         *)
(***************************************************************************)

\* Where byte k of pixel i lies in data of bpp bytes a pixel.
At(bpp, i, k) == bpp * i + Offsets(bpp)[k]

Pixel(data, bpp, i) ==
  <<data[At(bpp, i, 1)], data[At(bpp, i, 2)], data[At(bpp, i, 3)], 255>>

Bits8 == 0 .. 255

PhotoOK(ph) ==
  /\ DOMAIN ph = {"w", "h", "px"}
  /\ ph.w \in Nat /\ ph.h \in Nat
  /\ ph.px \in [Grid(ph.w, ph.h) -> [1 .. 4 -> Bits8]]

DataOf(bpp, w, h) == [0 .. bpp * (w * h) - 1 -> Bits8]

\* The pixels of a line follow each other, and the lines too.
LEMMA LineByLine ==
  ASSUME NEW w \in Nat \ {0}, NEW h \in Nat \ {0},
         NEW x \in 0 .. w - 1, NEW y \in 0 .. h - 1
  PROVE  x + w * y \in 0 .. w * h - 1
<1>1. w * y >= 0 /\ w * y =< w * (h - 1)
  OBVIOUS
<1>2. w * (h - 1) = w * h - w
  OBVIOUS
<1>3. w * y \in Int /\ w * h \in Int
  OBVIOUS
<1> QED  BY <1>1, <1>2, <1>3

LEMMA InData ==
  ASSUME NEW n \in Nat, NEW bpp \in {1, 3}, NEW i \in 0 .. n - 1,
         NEW k \in 1 .. 3
  PROVE  At(bpp, i, k) \in 0 .. bpp * n - 1
BY DEF At, Offsets

\* The pixel of a picture that it has at a place when turned and reversed.
IndexOf(w, h, rot, rows, columns, x, y) ==
  LET from == From(w, h, rot, rows, columns, x, y) IN from[1] + w * from[2]

HasPicture(p, data, w, h, bpp, rot, rows, columns) ==
  \A x \in 0 .. WidthOf(w, h, rot) - 1, y \in 0 .. HeightOf(w, h, rot) - 1 :
    LET i == IndexOf(w, h, rot, rows, columns, x, y)
    IN i \in 0 .. w * h - 1 /\ p.px[<<x, y>>] = Pixel(data, bpp, i)

\* A block that finds a picture puts it into the corner of a photo, and leaves
\* the rest of the photo.
LEMMA PutBlockIs ==
  ASSUME NEW ph, PhotoOK(ph), NEW b, NEW data,
         NEW w \in Nat \ {0}, NEW h \in Nat \ {0}, NEW bpp \in {1, 3},
         NEW rot \in Angles, NEW rows \in BOOLEAN, NEW columns \in BOOLEAN,
         Finds(b, w, h, bpp, rot, rows, columns), data \in DataOf(bpp, w, h)
  PROVE  /\ PhotoOK(PutBlock(ph, b, data))
         /\ PutBlock(ph, b, data).w = Larger(ph.w, WidthOf(w, h, rot))
         /\ PutBlock(ph, b, data).h = Larger(ph.h, HeightOf(w, h, rot))
         /\ HasPicture(PutBlock(ph, b, data), data, w, h, bpp, rot, rows,
                       columns)
<1> DEFINE p == PutBlock(ph, b, data)
           W == WidthOf(w, h, rot)
           H == HeightOf(w, h, rot)
           I(x, y) == IndexOf(w, h, rot, rows, columns, x, y)
           Byte(x, y, k) ==
             ByteAt(data, b.pixelPtr + x * b.pixelSize + y * b.pitch
                            + b.offset[k])
           PW == Larger(ph.w, W)  PH == Larger(ph.h, H)
<1>1. W \in Nat \ {0} /\ H \in Nat \ {0}
  BY DEF WidthOf, HeightOf
<1>2. PICK ptr \in Int, size \in Int, pitch \in Int :
        /\ Reads(b, bpp, ptr, size, pitch, W, H)
        /\ \A x, y \in Int : ptr + x * size + y * pitch = bpp * I(x, y)
  BY Zenon DEF Finds, IndexOf
<1>3. \A x \in 0 .. W - 1, y \in 0 .. H - 1 : I(x, y) \in 0 .. w * h - 1
  <2> SUFFICES ASSUME NEW x \in 0 .. W - 1, NEW y \in 0 .. H - 1
               PROVE  I(x, y) \in 0 .. w * h - 1
    OBVIOUS
  <2> DEFINE from == From(w, h, rot, rows, columns, x, y)
  <2>1. from \in Grid(w, h)
    BY FromIsPixel
  <2> HIDE DEF from
  <2>2. from[1] \in 0 .. w - 1 /\ from[2] \in 0 .. h - 1
    BY <2>1 DEF Grid
  <2>3. from[1] + w * from[2] \in 0 .. w * h - 1
    BY <2>2, LineByLine
  <2> QED  BY <2>3 DEF from, IndexOf
<1> HIDE DEF W, H, I
<1>4. \A x \in 0 .. W - 1, y \in 0 .. H - 1, k \in 1 .. 3 :
        /\ Byte(x, y, k) = data[At(bpp, I(x, y), k)]
        /\ Byte(x, y, k) \in Bits8
  <2> SUFFICES ASSUME NEW x \in 0 .. W - 1, NEW y \in 0 .. H - 1,
                      NEW k \in 1 .. 3
               PROVE  /\ Byte(x, y, k) = data[At(bpp, I(x, y), k)]
                      /\ Byte(x, y, k) \in Bits8
    OBVIOUS
  <2>1. /\ b.pixelPtr = ptr /\ b.pixelSize = size /\ b.pitch = pitch
        /\ b.offset = Offsets(bpp)
    BY <1>2 DEF Reads
  <2>2. ptr + x * size + y * pitch = bpp * I(x, y)
    BY <1>1, <1>2
  <2>3. At(bpp, I(x, y), k) = ptr + x * size + y * pitch + Offsets(bpp)[k]
    BY <2>2 DEF At
  <2>4. Byte(x, y, k) = ByteAt(data, At(bpp, I(x, y), k))
    BY <2>1, <2>3
  <2>5. w * h \in Nat /\ I(x, y) \in 0 .. w * h - 1
    BY <1>3
  <2>6. At(bpp, I(x, y), k) \in 0 .. bpp * (w * h) - 1
    BY <2>5, InData
  <2>7. /\ DOMAIN data = 0 .. bpp * (w * h) - 1
        /\ \A at \in DOMAIN data : data[at] \in Bits8
    BY DEF DataOf
  <2> QED  BY <2>4, <2>6, <2>7 DEF ByteAt
<1> HIDE DEF Byte
<1>5. /\ b.width = W /\ b.height = H
  BY <1>2 DEF Reads
<1>6. /\ PW \in Nat /\ PH \in Nat /\ PW >= W /\ PH >= H
      /\ PW >= ph.w /\ PH >= ph.h
  BY <1>1 DEF PhotoOK, Larger
<1>7. p = [w |-> PW, h |-> PH,
           px |-> [at \in Grid(PW, PH) |->
                     IF at[1] < W /\ at[2] < H
                     THEN <<Byte(at[1], at[2], 1), Byte(at[1], at[2], 2),
                            Byte(at[1], at[2], 3), 255>>
                     ELSE IF at[1] < ph.w /\ at[2] < ph.h
                     THEN ph.px[at]
                     ELSE <<0, 0, 0, 0>>]]
  BY <1>5 DEF PutBlock, Grid, Byte
<1> HIDE DEF p, PW, PH
<1>8. p.w = PW /\ p.h = PH /\ DOMAIN p = {"w", "h", "px"}
      /\ DOMAIN p.px = Grid(PW, PH)
  BY <1>7
<1>9. \A x \in 0 .. W - 1, y \in 0 .. H - 1 :
        p.px[<<x, y>>] = Pixel(data, bpp, I(x, y))
  <2> SUFFICES ASSUME NEW x \in 0 .. W - 1, NEW y \in 0 .. H - 1
               PROVE  p.px[<<x, y>>] = Pixel(data, bpp, I(x, y))
    OBVIOUS
  <2>1. <<x, y>> \in Grid(PW, PH) /\ x < W /\ y < H
    BY <1>1, <1>6 DEF Grid
  <2>2. p.px[<<x, y>>] = <<Byte(x, y, 1), Byte(x, y, 2), Byte(x, y, 3), 255>>
    BY <1>7, <2>1
  <2> QED  BY <2>2, <1>4 DEF Pixel
<1>10. p.px \in [Grid(PW, PH) -> [1 .. 4 -> Bits8]]
  <2> SUFFICES ASSUME NEW at \in Grid(PW, PH)
               PROVE  (IF at[1] < W /\ at[2] < H
                       THEN <<Byte(at[1], at[2], 1), Byte(at[1], at[2], 2),
                              Byte(at[1], at[2], 3), 255>>
                       ELSE IF at[1] < ph.w /\ at[2] < ph.h
                       THEN ph.px[at]
                       ELSE <<0, 0, 0, 0>>) \in [1 .. 4 -> Bits8]
    BY <1>7
  <2>1. at[1] \in 0 .. PW - 1 /\ at[2] \in 0 .. PH - 1 /\ at = <<at[1], at[2]>>
    BY DEF Grid
  <2>2. CASE at[1] < W /\ at[2] < H
    <3>1. at[1] \in 0 .. W - 1 /\ at[2] \in 0 .. H - 1
      BY <2>1, <2>2, <1>1, <1>6
    <3>2. /\ Byte(at[1], at[2], 1) \in Bits8 /\ Byte(at[1], at[2], 2) \in Bits8
          /\ Byte(at[1], at[2], 3) \in Bits8 /\ 255 \in Bits8
      BY <3>1, <1>4, SMTT(120) DEF Bits8
    <3>3. <<Byte(at[1], at[2], 1), Byte(at[1], at[2], 2),
            Byte(at[1], at[2], 3), 255>> \in [1 .. 4 -> Bits8]
      BY <3>2
    <3> QED  BY <3>3, <2>2
  <2>3. CASE ~ (at[1] < W /\ at[2] < H) /\ at[1] < ph.w /\ at[2] < ph.h
    <3>1. at \in Grid(ph.w, ph.h)
      BY <2>1, <2>3, <1>6 DEF Grid, PhotoOK
    <3>2. ph.px[at] \in [1 .. 4 -> Bits8]
      BY <3>1 DEF PhotoOK
    <3> QED  BY <3>2, <2>3
  <2>4. CASE ~ (at[1] < W /\ at[2] < H) /\ ~ (at[1] < ph.w /\ at[2] < ph.h)
    <3>1. <<0, 0, 0, 0>> \in [1 .. 4 -> Bits8]
      BY DEF Bits8
    <3> QED  BY <3>1, <2>4
  <2> QED  BY <2>2, <2>3, <2>4
<1> QED
  <2>1. PhotoOK(p) /\ p.w = PW /\ p.h = PH
    BY <1>6, <1>8, <1>10 DEF PhotoOK
  <2>2. HasPicture(p, data, w, h, bpp, rot, rows, columns)
    BY <1>3, <1>9 DEF HasPicture, W, H, I
  <2> QED  BY <2>1, <2>2 DEF p, PW, PH, W, H
-----------------------------------------------------------------------------
(***************************************************************************)
(* UvcImages.  Frames: the bytes that a conversion makes of the scene.     *)
(***************************************************************************)

\* The scene's colours are bytes, and its grey has twelve bits.
LEMMA SceneColours ==
  ASSUME NEW s \in [luma : 0 .. 255, u : 0 .. 255, v : 0 .. 255], NEW i \in Nat
  PROVE  /\ Luma(s, i) \in 0 .. 255 /\ U(s, i) \in 0 .. 255
         /\ V(s, i) \in 0 .. 255
         /\ Grey(s, i) \in Nat /\ Grey(s, i) < 4096
<1> DEFINE l == s.luma + 29 * i  g == 16 * s.luma + 517 * i
           u == s.u + 37 * (i \div 2)  v == s.v + 53 * (i \div 2)
<1>1. s.luma \in Int /\ s.u \in Int /\ s.v \in Int /\ i \div 2 \in Int
  OBVIOUS
<1>2. l \in Int /\ g \in Int /\ u \in Int /\ v \in Int
  BY <1>1
<1>3. /\ Luma(s, i) = l % 256 /\ U(s, i) = u % 256 /\ V(s, i) = v % 256
      /\ Grey(s, i) = g % 4096
  BY DEF Luma, U, V, Grey
<1> HIDE DEF l, g, u, v
<1> QED  BY <1>2, <1>3

\* What the converters compute for two pixels is their colour, to within two.
LEMMA PairIs ==
  ASSUME NEW y0 \in 0 .. 255, NEW y1 \in 0 .. 255, NEW u \in 0 .. 255,
         NEW v \in 0 .. 255
  PROVE  LET pair == Pair2RGB(y0, u, y1, v) IN
         /\ \A k \in 1 .. 6 : pair[k] \in 0 .. 255
         /\ \A k \in 1 .. 3 : /\ Close(pair[k], Colour(y0, u, v)[k])
                              /\ Close(pair[k + 3], Colour(y1, u, v)[k])
<1> DEFINE r  == (22987 * (v - 128)) \div 16384
           g  == (-5636 * (u - 128) - 11698 * (v - 128)) \div 16384
           b  == (29049 * (u - 128)) \div 16384
           r0 == (1402 * (v - 128)) \div 1000
           g0 == (-344 * (u - 128) - 714 * (v - 128)) \div 1000
           b0 == (1772 * (u - 128)) \div 1000
<1>1. r \in Int /\ r0 \in Int /\ r - r0 \in -2 .. 2
  OBVIOUS
<1>2. g \in Int /\ g0 \in Int /\ g - g0 \in -2 .. 2
  OBVIOUS
<1>3. b \in Int /\ b0 \in Int /\ b - b0 \in -2 .. 2
  OBVIOUS
<1>4. Pair2RGB(y0, u, y1, v) =
        <<Sat(y0 + r), Sat(y0 + g), Sat(y0 + b),
          Sat(y1 + r), Sat(y1 + g), Sat(y1 + b)>>
  BY DEF Pair2RGB
<1>5. \A y : Colour(y, u, v) = <<Sat(y + r0), Sat(y + g0), Sat(y + b0)>>
  BY DEF Colour
<1> HIDE DEF r, g, b, r0, g0, b0
<1>6. \A i \in Int : Sat(i) \in 0 .. 255
  BY DEF Sat
<1>7. \A i, j \in Int : i - j \in -2 .. 2 => Close(Sat(i), Sat(j))
  BY DEF Sat, Close
<1>8. \A y \in 0 .. 255 : /\ Sat(y + r) \in 0 .. 255 /\ Sat(y + g) \in 0 .. 255
                          /\ Sat(y + b) \in 0 .. 255
  BY <1>1, <1>2, <1>3, <1>6, SMTT(30)
<1>9. \A y \in 0 .. 255 : /\ Close(Sat(y + r), Sat(y + r0))
                          /\ Close(Sat(y + g), Sat(y + g0))
                          /\ Close(Sat(y + b), Sat(y + b0))
  <2> SUFFICES ASSUME NEW y \in 0 .. 255
               PROVE  /\ Close(Sat(y + r), Sat(y + r0))
                      /\ Close(Sat(y + g), Sat(y + g0))
                      /\ Close(Sat(y + b), Sat(y + b0))
    BY ZenonT(60)
  <2>1. /\ y + r \in Int /\ y + r0 \in Int /\ (y + r) - (y + r0) \in -2 .. 2
        /\ y + g \in Int /\ y + g0 \in Int /\ (y + g) - (y + g0) \in -2 .. 2
        /\ y + b \in Int /\ y + b0 \in Int /\ (y + b) - (y + b0) \in -2 .. 2
    BY <1>1, <1>2, <1>3
  <2> QED  BY <2>1, <1>7
<1> QED
  <2> DEFINE pair == Pair2RGB(y0, u, y1, v)
  <2> DEFINE a1 == Sat(y0 + r)  a2 == Sat(y0 + g)  a3 == Sat(y0 + b)
             a4 == Sat(y1 + r)  a5 == Sat(y1 + g)  a6 == Sat(y1 + b)
             c1 == Sat(y0 + r0)  c2 == Sat(y0 + g0)  c3 == Sat(y0 + b0)
             c4 == Sat(y1 + r0)  c5 == Sat(y1 + g0)  c6 == Sat(y1 + b0)
  <2>1. /\ a1 \in 0 .. 255 /\ a2 \in 0 .. 255 /\ a3 \in 0 .. 255
        /\ a4 \in 0 .. 255 /\ a5 \in 0 .. 255 /\ a6 \in 0 .. 255
    BY <1>8, ZenonT(120)
  <2>2. /\ Close(a1, c1) /\ Close(a2, c2) /\ Close(a3, c3)
        /\ Close(a4, c4) /\ Close(a5, c5) /\ Close(a6, c6)
    BY <1>9, ZenonT(60)
  <2>3. /\ pair = <<a1, a2, a3, a4, a5, a6>>
        /\ Colour(y0, u, v) = <<c1, c2, c3>>
        /\ Colour(y1, u, v) = <<c4, c5, c6>>
    BY <1>4, <1>5
  <2> HIDE DEF pair, a1, a2, a3, a4, a5, a6, c1, c2, c3, c4, c5, c6
  <2>4. \A k \in 1 .. 6 : pair[k] \in 0 .. 255
    BY <2>1, <2>3, SMTT(120)
  <2>5. \A k \in 1 .. 3 : /\ Close(pair[k], Colour(y0, u, v)[k])
                          /\ Close(pair[k + 3], Colour(y1, u, v)[k])
    <3>1. /\ pair[1] = a1 /\ pair[2] = a2 /\ pair[3] = a3
          /\ pair[4] = a4 /\ pair[5] = a5 /\ pair[6] = a6
      BY <2>3
    <3>2. /\ Colour(y0, u, v)[1] = c1 /\ Colour(y0, u, v)[2] = c2
          /\ Colour(y0, u, v)[3] = c3 /\ Colour(y1, u, v)[1] = c4
          /\ Colour(y1, u, v)[2] = c5 /\ Colour(y1, u, v)[3] = c6
      BY <2>3
    <3> SUFFICES ASSUME NEW k \in 1 .. 3
                 PROVE  /\ Close(pair[k], Colour(y0, u, v)[k])
                        /\ Close(pair[k + 3], Colour(y1, u, v)[k])
      OBVIOUS
    <3>3. CASE k = 1  BY <3>1, <3>2, <3>3, <2>2
    <3>4. CASE k = 2  BY <3>1, <3>2, <3>4, <2>2
    <3>5. CASE k = 3  BY <3>1, <3>2, <3>5, <2>2
    <3> QED  BY <3>3, <3>4, <3>5
  <2> QED  BY <2>4, <2>5, Zenon DEF pair

LEMMA ColourIsBytes ==
  ASSUME NEW y \in 0 .. 255, NEW u \in 0 .. 255, NEW v \in 0 .. 255,
         NEW k \in 1 .. 3
  PROVE  Colour(y, u, v)[k] \in 0 .. 255
<1> DEFINE r0 == (1402 * (v - 128)) \div 1000
           g0 == (-344 * (u - 128) - 714 * (v - 128)) \div 1000
           b0 == (1772 * (u - 128)) \div 1000
<1>1. r0 \in Int /\ g0 \in Int /\ b0 \in Int
  OBVIOUS
<1>2. Colour(y, u, v) = <<Sat(y + r0), Sat(y + g0), Sat(y + b0)>>
  BY DEF Colour
<1> HIDE DEF r0, g0, b0
<1>3. \A i \in Int : Sat(i) \in 0 .. 255
  BY DEF Sat
<1>4. /\ Sat(y + r0) \in 0 .. 255 /\ Sat(y + g0) \in 0 .. 255
      /\ Sat(y + b0) \in 0 .. 255
  BY <1>1, <1>3
<1> QED  BY <1>2, <1>4

\* A frame of four bytes for two pixels: where a pair of pixels q has its bytes.
LEMMA SentPair ==
  ASSUME NEW c \in Cameras, NEW s \in Scenes,
         NEW q \in 0 .. (c.w * c.h) \div 2 - 1
  PROVE  LET d == Sent(c, s).data IN
         /\ c.format = "YUYV" =>
              /\ d[4 * q] = Luma(s, 2 * q) /\ d[4 * q + 1] = U(s, 2 * q)
              /\ d[4 * q + 2] = Luma(s, 2 * q + 1)
              /\ d[4 * q + 3] = V(s, 2 * q)
         /\ c.format = "UYVY" =>
              /\ d[4 * q] = U(s, 2 * q) /\ d[4 * q + 1] = Luma(s, 2 * q)
              /\ d[4 * q + 2] = V(s, 2 * q)
              /\ d[4 * q + 3] = Luma(s, 2 * q + 1)
<1> DEFINE n == c.w * c.h
           Data(at) == [k \in 0 .. 2 * n - 1 |-> at[(k % 4) + 1][k \div 2]]
           Y  == [i \in 0 .. n - 1 |-> Luma(s, i)]
           Us == [i \in 0 .. n - 1 |-> U(s, i)]
           Vs == [i \in 0 .. n - 1 |-> V(s, i)]
<1>1. n \in Nat
  BY ImagesAssumption
<1> HIDE DEF n
<1>2. /\ 2 * q \in 0 .. n - 1 /\ 2 * q + 1 \in 0 .. n - 1
      /\ 4 * q \in 0 .. 2 * n - 1 /\ 4 * q + 1 \in 0 .. 2 * n - 1
      /\ 4 * q + 2 \in 0 .. 2 * n - 1 /\ 4 * q + 3 \in 0 .. 2 * n - 1
  BY <1>1 DEF n
<1>3. /\ (4 * q) % 4 = 0 /\ (4 * q + 1) % 4 = 1 /\ (4 * q + 2) % 4 = 2
      /\ (4 * q + 3) % 4 = 3
      /\ (4 * q) \div 2 = 2 * q /\ (4 * q + 1) \div 2 = 2 * q
      /\ (4 * q + 2) \div 2 = 2 * q + 1 /\ (4 * q + 3) \div 2 = 2 * q + 1
  OBVIOUS
<1>4. /\ Y[2 * q] = Luma(s, 2 * q) /\ Y[2 * q + 1] = Luma(s, 2 * q + 1)
      /\ Us[2 * q] = U(s, 2 * q) /\ Us[2 * q + 1] = U(s, 2 * q)
      /\ Vs[2 * q] = V(s, 2 * q) /\ Vs[2 * q + 1] = V(s, 2 * q)
  <2>1. (2 * q + 1) \div 2 = (2 * q) \div 2
    OBVIOUS
  <2> QED  BY <2>1, <1>2 DEF U, V
<1>5. \A a1, a2, a3, a4 :
        LET d == Data(<<a1, a2, a3, a4>>)
        IN /\ d[4 * q] = a1[2 * q] /\ d[4 * q + 1] = a2[2 * q]
           /\ d[4 * q + 2] = a3[2 * q + 1] /\ d[4 * q + 3] = a4[2 * q + 1]
  BY <1>2, <1>3
<1>6. /\ c.format = "YUYV" => Sent(c, s).data = Data(<<Y, Us, Y, Vs>>)
      /\ c.format = "UYVY" => Sent(c, s).data = Data(<<Us, Y, Vs, Y>>)
  BY DEF Sent, n
<1> HIDE DEF Data, Y, Us, Vs
<1> QED  BY <1>4, <1>5, <1>6

\* The bytes of pixel i lie in those of a pair of pixels.
LEMMA PairIndex ==
  ASSUME NEW i \in Nat, NEW k \in 1 .. 3
  PROVE  LET q == i \div 2  m == 3 * i + (k - 1) IN
         /\ q \in Nat
         /\ i = 2 * q => m \div 6 = q /\ (m % 6) + 1 = k
         /\ i # 2 * q => /\ i = 2 * q + 1
                        /\ m \div 6 = q /\ (m % 6) + 1 = k + 3
<1> DEFINE q == i \div 2  m == 3 * i + (k - 1)
<1>1. q \in Nat /\ (i = 2 * q \/ i = 2 * q + 1)
  OBVIOUS
<1> HIDE DEF q
<1>2. CASE i = 2 * q
  <2>1. m = 6 * q + (k - 1)
    BY <1>2, <1>1
  <2> HIDE DEF m
  <2>2. m \div 6 = q /\ m % 6 = k - 1
    BY <2>1, <1>1
  <2> QED  BY <2>2, <1>1, <1>2 DEF m, q
<1>3. CASE i = 2 * q + 1
  <2>1. m = 6 * q + (k + 2)
    BY <1>3, <1>1
  <2> HIDE DEF m
  <2>2. m \div 6 = q /\ m % 6 = k + 2
    BY <2>1, <1>1
  <2> QED  BY <2>2, <1>1, <1>3 DEF m, q
<1> QED  BY <1>1, <1>2, <1>3 DEF q

\* Data made of pairs of pixels shows the colours of the scene.
MadeOfPairs(d, s, n) ==
  /\ DOMAIN d = 0 .. 3 * n - 1 /\ d = [k \in DOMAIN d |-> d[k]]
  /\ \A k \in 0 .. 3 * n - 1 :
       LET i == 2 * (k \div 6)
       IN d[k] = Pair2RGB(Luma(s, i), U(s, i), Luma(s, i + 1), V(s, i))
                   [(k % 6) + 1]

LEMMA PairsAreColours ==
  ASSUME NEW s \in [luma : 0 .. 255, u : 0 .. 255, v : 0 .. 255],
         NEW n \in Nat, NEW d, MadeOfPairs(d, s, n)
  PROVE  /\ d \in [0 .. 3 * n - 1 -> Bits8]
         /\ \A i \in 0 .. n - 1, k \in 1 .. 3 :
              Close(d[At(3, i, k)], Colour(Luma(s, i), U(s, i), V(s, i))[k])
<1> DEFINE Pair(i) == Pair2RGB(Luma(s, i), U(s, i), Luma(s, i + 1), V(s, i))
<1>1. \A i \in Nat :
        /\ \A k \in 1 .. 6 : Pair(i)[k] \in 0 .. 255
        /\ \A k \in 1 .. 3 :
             /\ Close(Pair(i)[k], Colour(Luma(s, i), U(s, i), V(s, i))[k])
             /\ Close(Pair(i)[k + 3],
                      Colour(Luma(s, i + 1), U(s, i), V(s, i))[k])
  <2> SUFFICES ASSUME NEW i \in Nat
               PROVE  /\ \A k \in 1 .. 6 : Pair(i)[k] \in 0 .. 255
                      /\ \A k \in 1 .. 3 :
                           /\ Close(Pair(i)[k],
                                    Colour(Luma(s, i), U(s, i), V(s, i))[k])
                           /\ Close(Pair(i)[k + 3],
                                    Colour(Luma(s, i + 1), U(s, i),
                                           V(s, i))[k])
    BY ZenonT(60)
  <2>1. /\ Luma(s, i) \in 0 .. 255 /\ U(s, i) \in 0 .. 255
        /\ V(s, i) \in 0 .. 255 /\ Luma(s, i + 1) \in 0 .. 255
    <3>1. /\ Luma(s, i) \in 0 .. 255 /\ U(s, i) \in 0 .. 255
          /\ V(s, i) \in 0 .. 255
      BY SceneColours
    <3> DEFINE j == i + 1
    <3>2. j \in Nat
      OBVIOUS
    <3> HIDE DEF j
    <3>3. Luma(s, j) \in 0 .. 255
      BY <3>2, SceneColours
    <3> QED  BY <3>1, <3>3 DEF j
  <2> QED  BY <2>1, PairIs, ZenonT(120)
<1>2. \A k \in 0 .. 3 * n - 1 : d[k] = Pair(2 * (k \div 6))[(k % 6) + 1]
  BY DEF MadeOfPairs
<1> HIDE DEF Pair
<1>3. \A k \in 0 .. 3 * n - 1 : d[k] \in Bits8
  <2> SUFFICES ASSUME NEW k \in 0 .. 3 * n - 1
               PROVE  d[k] \in Bits8
    OBVIOUS
  <2>1. 2 * (k \div 6) \in Nat /\ (k % 6) + 1 \in 1 .. 6
    OBVIOUS
  <2> QED  BY <2>1, <1>1, <1>2, ZenonT(120) DEF Bits8
<1>4. \A i \in 0 .. n - 1, k \in 1 .. 3 :
        Close(d[At(3, i, k)], Colour(Luma(s, i), U(s, i), V(s, i))[k])
  <2> SUFFICES ASSUME NEW i \in 0 .. n - 1, NEW k \in 1 .. 3
               PROVE  Close(d[At(3, i, k)],
                            Colour(Luma(s, i), U(s, i), V(s, i))[k])
    OBVIOUS
  <2> DEFINE q == i \div 2  m == At(3, i, k)
  <2>1. m = 3 * i + (k - 1)
    BY DEF At, Offsets
  <2>2. /\ q \in Nat
        /\ i = 2 * q => m \div 6 = q /\ (m % 6) + 1 = k
        /\ i # 2 * q => i = 2 * q + 1 /\ m \div 6 = q /\ (m % 6) + 1 = k + 3
    <3>1. i \in Nat
      OBVIOUS
    <3> QED  BY <3>1, <2>1, PairIndex
  <2> HIDE DEF m, q
  <2>7. m \in 0 .. 3 * n - 1 /\ 2 * q \in Nat
    BY <2>1, <2>2
  <2>3. d[m] = Pair(2 * (m \div 6))[(m % 6) + 1]
    BY <2>7, <1>2
  <2>4. U(s, 2 * q + 1) = U(s, 2 * q) /\ V(s, 2 * q + 1) = V(s, 2 * q)
    <3>1. (2 * q + 1) \div 2 = (2 * q) \div 2
      BY <2>2
    <3> QED  BY <3>1 DEF U, V
  <2>5. CASE i = 2 * q
    <3>1. m \div 6 = q /\ (m % 6) + 1 = k
      BY <2>2, <2>5
    <3>2. d[m] = Pair(2 * q)[k]
      BY <3>1, <2>3
    <3>3. Close(Pair(2 * q)[k],
                Colour(Luma(s, 2 * q), U(s, 2 * q), V(s, 2 * q))[k])
      BY <2>7, <1>1
    <3> QED  BY <3>2, <3>3, <2>5 DEF m
  <2>6. CASE i # 2 * q
    <3>1. i = 2 * q + 1 /\ m \div 6 = q /\ (m % 6) + 1 = k + 3
      BY <2>2, <2>6
    <3>2. d[m] = Pair(2 * q)[k + 3]
      BY <3>1, <2>3
    <3>3. Close(Pair(2 * q)[k + 3],
                Colour(Luma(s, 2 * q + 1), U(s, 2 * q), V(s, 2 * q))[k])
      BY <2>7, <1>1, ZenonT(60)
    <3> QED  BY <3>2, <3>1, <3>3, <2>4 DEF m
  <2> QED  BY <2>5, <2>6
<1>5. d \in [0 .. 3 * n - 1 -> Bits8]
  BY <1>3 DEF MadeOfPairs
<1> QED  BY <1>4, <1>5, ZenonT(60)

Bpp(c) == IF c.format = "GRAY16" THEN 1 ELSE 3

\* The pixels of a frame show the scene: each is close to what should be seen.
ShowsScene(d, c, s, shift) ==
  \A i \in 0 .. c.w * c.h - 1, k \in 1 .. 3 :
    Close(d[At(Bpp(c), i, k)], Seen(c, s, shift, i)[k])

LEMMA ConvertedData ==
  ASSUME NEW c \in Cameras, NEW s \in Scenes, NEW shift \in -8 .. 8
  PROVE  LET d == Converted(Sent(c, s), shift).data IN
         /\ d \in DataOf(Bpp(c), c.w, c.h)
         /\ (c.format = "GRAY16" => shift >= 4) => ShowsScene(d, c, s, shift)
<1> DEFINE f == Sent(c, s)  d == Converted(f, shift).data  n == c.w * c.h
<1>1. /\ c.w \in Nat \ {0} /\ c.h \in Nat \ {0} /\ c.format \in Formats
      /\ n % 8 = 0 /\ s \in [luma : 0 .. 255, u : 0 .. 255, v : 0 .. 255]
  BY ImagesAssumption
<1>2. f.format = c.format /\ f.w = c.w /\ f.h = c.h /\ f.scene = s
  BY DEF Sent
<1>3. n \in Nat /\ 3 * f.w * f.h = 3 * n /\ f.w * f.h = n /\ n % 2 = 0
  <2>1. n \in Nat /\ 3 * c.w * c.h = 3 * n
    BY <1>1
  <2> HIDE DEF n
  <2>2. n % 2 = 0
    BY <1>1, <2>1
  <2> QED  BY <1>2, <2>1, <2>2 DEF n
<1>4. \A q \in 0 .. n \div 2 - 1 :
        /\ c.format = "YUYV" =>
             /\ f.data[4 * q] = Luma(s, 2 * q)
             /\ f.data[4 * q + 1] = U(s, 2 * q)
             /\ f.data[4 * q + 2] = Luma(s, 2 * q + 1)
             /\ f.data[4 * q + 3] = V(s, 2 * q)
        /\ c.format = "UYVY" =>
             /\ f.data[4 * q] = U(s, 2 * q)
             /\ f.data[4 * q + 1] = Luma(s, 2 * q)
             /\ f.data[4 * q + 2] = V(s, 2 * q)
             /\ f.data[4 * q + 3] = Luma(s, 2 * q + 1)
  BY SentPair
<1>5. \A k \in 0 .. 3 * n - 1 : k \div 6 \in 0 .. n \div 2 - 1
  <2> HIDE DEF n
  <2> QED  BY <1>3
<1>6. c.format = "GRAY16" =>
        f.data = [i \in 0 .. n - 1 |-> Grey(s, i)]
  BY DEF Sent
<1> HIDE DEF f, n
<1>7. ASSUME d \in [0 .. 3 * n - 1 -> Bits8], c.format # "GRAY16",
             \A i \in 0 .. n - 1, k \in 1 .. 3 :
               Close(d[At(3, i, k)],
                     Colour(Luma(s, i), U(s, i), V(s, i))[k])
      PROVE  d \in DataOf(Bpp(c), c.w, c.h) /\ ShowsScene(d, c, s, shift)
  <2> HIDE DEF d
  <2>1. Bpp(c) = 3
    BY <1>7 DEF Bpp
  <2>2. \A i : Seen(c, s, shift, i) = Colour(Luma(s, i), U(s, i), V(s, i))
    BY <1>7 DEF Seen
  <2> QED  BY <1>7, <2>1, <2>2 DEF DataOf, ShowsScene, n
<1>8. CASE c.format = "YUYV"
  <2>1. d = uvc_yuyv2rgb(f)
    BY <1>2, <1>8 DEF Converted
  <2>2. d = [k \in 0 .. 3 * n - 1 |->
               LET p == 4 * (k \div 6)
               IN Pair2RGB(f.data[p], f.data[p + 1], f.data[p + 2],
                           f.data[p + 3])[(k % 6) + 1]]
    BY <2>1, <1>3 DEF uvc_yuyv2rgb
  <2> HIDE DEF d
  <2>3. \A k \in 0 .. 3 * n - 1 :
          LET i == 2 * (k \div 6)
          IN d[k] = Pair2RGB(Luma(s, i), U(s, i), Luma(s, i + 1), V(s, i))
                      [(k % 6) + 1]
    BY <2>2, <1>4, <1>5, <1>8
  <2>4. MadeOfPairs(d, s, n)
    BY <2>2, <2>3 DEF MadeOfPairs
  <2>5. /\ d \in [0 .. 3 * n - 1 -> Bits8]
        /\ \A i \in 0 .. n - 1, k \in 1 .. 3 :
             Close(d[At(3, i, k)], Colour(Luma(s, i), U(s, i), V(s, i))[k])
    BY <1>1, <1>3, <2>4, PairsAreColours, ZenonT(60)
  <2> QED  BY <2>5, <1>7, <1>8 DEF d, f
<1>9. CASE c.format = "UYVY"
  <2>1. d = uvc_uyvy2rgb(f)
    BY <1>2, <1>9 DEF Converted
  <2>2. d = [k \in 0 .. 3 * n - 1 |->
               LET p == 4 * (k \div 6)
               IN Pair2RGB(f.data[p + 1], f.data[p], f.data[p + 3],
                           f.data[p + 2])[(k % 6) + 1]]
    BY <2>1, <1>3 DEF uvc_uyvy2rgb
  <2> HIDE DEF d
  <2>3. \A k \in 0 .. 3 * n - 1 :
          LET i == 2 * (k \div 6)
          IN d[k] = Pair2RGB(Luma(s, i), U(s, i), Luma(s, i + 1), V(s, i))
                      [(k % 6) + 1]
    BY <2>2, <1>4, <1>5, <1>9
  <2>4. MadeOfPairs(d, s, n)
    BY <2>2, <2>3 DEF MadeOfPairs
  <2>5. /\ d \in [0 .. 3 * n - 1 -> Bits8]
        /\ \A i \in 0 .. n - 1, k \in 1 .. 3 :
             Close(d[At(3, i, k)], Colour(Luma(s, i), U(s, i), V(s, i))[k])
    BY <1>1, <1>3, <2>4, PairsAreColours
  <2> QED  BY <2>5, <1>7, <1>9 DEF d, f
<1>10. CASE c.format = "MJPEG"
  <2>1. d = uvc_mjpeg2rgb(f)
    BY <1>2, <1>10 DEF Converted
  <2>2. d = [m \in 0 .. 3 * n - 1 |->
               LET i == m \div 3
               IN Colour(Luma(s, i), U(s, i), V(s, i))[(m % 3) + 1]]
    BY <2>1, <1>2, <1>3, Zenon DEF uvc_mjpeg2rgb
  <2> HIDE DEF d
  <2>3. \A i \in Nat, k \in 1 .. 3 :
          Colour(Luma(s, i), U(s, i), V(s, i))[k] \in 0 .. 255
    <3> SUFFICES ASSUME NEW i \in Nat, NEW k \in 1 .. 3
                 PROVE  Colour(Luma(s, i), U(s, i), V(s, i))[k] \in 0 .. 255
      OBVIOUS
    <3>1. /\ Luma(s, i) \in 0 .. 255 /\ U(s, i) \in 0 .. 255
          /\ V(s, i) \in 0 .. 255
      BY <1>1, SceneColours, SMTT(60)
    <3> QED  BY <3>1, ColourIsBytes, ZenonT(60)
  <2>4. d \in [0 .. 3 * n - 1 -> Bits8]
    <3> SUFFICES ASSUME NEW m \in 0 .. 3 * n - 1
                 PROVE  Colour(Luma(s, m \div 3), U(s, m \div 3),
                               V(s, m \div 3))[(m % 3) + 1] \in Bits8
      BY <2>2
    <3>1. m \div 3 \in Nat /\ (m % 3) + 1 \in 1 .. 3
      BY <1>3
    <3> QED  BY <3>1, <2>3 DEF Bits8
  <2>5. \A i \in 0 .. n - 1, k \in 1 .. 3 :
          Close(d[At(3, i, k)], Colour(Luma(s, i), U(s, i), V(s, i))[k])
    <3> SUFFICES ASSUME NEW i \in 0 .. n - 1, NEW k \in 1 .. 3
                 PROVE  Close(d[At(3, i, k)],
                              Colour(Luma(s, i), U(s, i), V(s, i))[k])
      OBVIOUS
    <3>1. At(3, i, k) = 3 * i + (k - 1)
      BY DEF At, Offsets
    <3>2. /\ At(3, i, k) \in 0 .. 3 * n - 1 /\ At(3, i, k) \div 3 = i
          /\ (At(3, i, k) % 3) + 1 = k
      BY <3>1, <1>3
    <3>3. d[At(3, i, k)] = Colour(Luma(s, i), U(s, i), V(s, i))[k]
      BY <3>2, <2>2
    <3>4. d[At(3, i, k)] \in 0 .. 255
      BY <3>3, <2>3, SMTT(120)
    <3>5. \A a \in 0 .. 255 : Close(a, a)
      BY DEF Close
    <3> QED  BY <3>3, <3>4, <3>5
  <2> QED  BY <2>4, <2>5, <1>7, <1>10 DEF d, f
<1>11. CASE c.format = "GRAY16"
  <2>1. d = uvc_gray16to8(f, shift)
    BY <1>2, <1>11 DEF Converted
  <2>2. d = [k \in 0 .. n - 1 |-> Shifted(f.data[k], shift) % 256]
    BY <2>1, <1>3 DEF uvc_gray16to8
  <2> HIDE DEF d
  <2>3. \A k \in 0 .. n - 1 :
          f.data[k] = Grey(s, k) /\ Grey(s, k) \in Nat /\ Grey(s, k) < 4096
    <3> SUFFICES ASSUME NEW k \in 0 .. n - 1
                 PROVE  /\ f.data[k] = Grey(s, k)
                        /\ Grey(s, k) \in Nat /\ Grey(s, k) < 4096
      OBVIOUS
    <3>1. k \in Nat
      BY <1>3
    <3>2. Grey(s, k) \in Nat /\ Grey(s, k) < 4096
      BY <1>1, <3>1, SceneColours
    <3>3. f.data[k] = Grey(s, k)
      BY <1>6, <1>11
    <3> QED  BY <3>2, <3>3
  <2>4. Bpp(c) = 1 /\ Bpp(c) * (c.w * c.h) = n
    BY <1>1, <1>11 DEF Bpp, n
  <2>5. \A k \in 0 .. n - 1 :
          /\ d[k] \in Bits8
          /\ shift >= 4 => Close(d[k], Grey(s, k) \div 2^shift)
    <3> SUFFICES ASSUME NEW k \in 0 .. n - 1
                 PROVE  /\ d[k] \in Bits8
                        /\ shift >= 4 => Close(d[k], Grey(s, k) \div 2^shift)
      OBVIOUS
    <3> DEFINE grey == Grey(s, k)  down == 2^shift  up == 2^(-shift)
               word == Shifted(grey, shift)
    <3>1. grey \in Nat /\ grey < 4096
      BY <2>3
    <3>8. d[k] = word % 256
      <4>1. f.data[k] = grey
        BY <2>3
      <4> QED  BY <4>1, <2>2
    <3>2. shift > 0 => down \in 1 .. 256 /\ (shift >= 4 => down >= 16)
      <4>1. shift > 0 => shift \in 0 .. 8
        OBVIOUS
      <4> QED  BY <4>1, ShiftWidth
    <3>3. ~ (shift > 0) => up \in 1 .. 256
      <4>1. ~ (shift > 0) => -shift \in 0 .. 8
        OBVIOUS
      <4> QED  BY <4>1, ShiftWidth
    <3>4. word = IF shift > 0 THEN grey \div down ELSE grey * up
      BY DEF Shifted
    <3> HIDE DEF grey, down, up, word
    <3>5. word \in Int
      BY <3>1, <3>2, <3>3, <3>4
    <3>6. d[k] \in Bits8
      BY <3>5, <3>8 DEF Bits8
    <3>7. ASSUME shift >= 4
          PROVE  Close(d[k], grey \div down)
      <4>1. word = grey \div down /\ down \in 16 .. 256
        BY <3>2, <3>4, <3>7
      <4>2. word \in 0 .. 255
        BY <4>1, <3>1
      <4>3. d[k] = word
        BY <4>2, <3>8
      <4> QED  BY <4>1, <4>2, <4>3 DEF Close
    <3> QED  BY <3>6, <3>7 DEF grey, down
  <2>6. d \in DataOf(Bpp(c), c.w, c.h)
    BY <2>2, <2>4, <2>5 DEF DataOf
  <2>7. shift >= 4 => ShowsScene(d, c, s, shift)
    <3>1. \A i, k : k \in 1 .. 3 =>
            Seen(c, s, shift, i)[k] = Grey(s, i) \div 2^shift
      BY <1>11 DEF Seen
    <3>2. \A i \in 0 .. n - 1, k \in 1 .. 3 : At(Bpp(c), i, k) = i
      BY <2>4 DEF At, Offsets
    <3> QED  BY <3>1, <3>2, <2>5 DEF ShowsScene, n
  <2> QED  BY <2>6, <2>7, <1>11 DEF d, f
<1> QED  BY <1>1, <1>8, <1>9, <1>10, <1>11 DEF Formats
-----------------------------------------------------------------------------
(***************************************************************************)
(* UvcImages.  The invariant.                                              *)
(***************************************************************************)

ArrayOK(d) ==
  d # NoBytes =>
    /\ DOMAIN d = {"w", "h", "bpp", "data", "scene", "shift"}
    /\ d.w = cam.w /\ d.h = cam.h /\ d.bpp = Bpp(cam)
    /\ d.data \in DataOf(Bpp(cam), cam.w, cam.h)
    /\ d.scene # NoFrame =>
         /\ d.scene \in Scenes /\ d.shift \in -8 .. 8
         /\ d.data = Converted(Sent(cam, d.scene), d.shift).data

DeviceOK ==
  /\ DOMAIN tuvc = {"frame", "rotate", "mirror", "greyshift"}
  /\ tuvc.rotate \in Angles /\ tuvc.mirror \in 0 .. 3
  /\ tuvc.greyshift \in -8 .. 8
  /\ tuvc.frame # NoFrame =>
       \E s \in Scenes, shift \in -8 .. 8 :
         tuvc.frame = Converted(Sent(cam, s), shift)

ImagesInv ==
  /\ cam \in Cameras /\ count \in 0 .. MaxCommands
  /\ DeviceOK
  /\ DOMAIN bytes = Names /\ \A n \in Names : ArrayOK(bytes[n])
  /\ DOMAIN photo = Names /\ \A n \in Names : PhotoOK(photo[n])

\* What a frame is that FrameCallback left.
LEMMA FrameIs ==
  ASSUME ImagesInv, tuvc.frame # NoFrame
  PROVE  LET f == tuvc.frame IN
         /\ f.w = cam.w /\ f.h = cam.h /\ BytesPerPixel(f) = Bpp(cam)
         /\ f.step = cam.w * Bpp(cam)
         /\ f.scene \in Scenes /\ f.shift \in -8 .. 8
         /\ f.data = Converted(Sent(cam, f.scene), f.shift).data
<1>1. PICK s \in Scenes, shift \in -8 .. 8 :
        tuvc.frame = Converted(Sent(cam, s), shift)
  BY DEF ImagesInv, DeviceOK
<1> DEFINE e == Sent(cam, s)
<1>2. e.format = cam.format /\ e.w = cam.w /\ e.h = cam.h /\ e.scene = s
  BY DEF Sent
<1> HIDE DEF e
<1> DEFINE f == Converted(e, shift)
<1>3. /\ f.w = e.w /\ f.h = e.h /\ f.scene = e.scene /\ f.shift = shift
      /\ f.step = e.w * (IF e.format = "GRAY16" THEN 1 ELSE 3)
      /\ f.format = IF e.format = "GRAY16" THEN "GRAY8" ELSE "RGB"
  BY DEF Converted
<1>4. tuvc.frame = f
  BY <1>1 DEF e
<1> HIDE DEF f
<1>5. BytesPerPixel(f) = Bpp(cam) /\ f.step = cam.w * Bpp(cam)
  BY <1>2, <1>3 DEF BytesPerPixel, Bpp
<1>6. f.data = Converted(Sent(cam, f.scene), f.shift).data
  BY <1>2, <1>3 DEF f, e
<1> QED  BY <1>2, <1>3, <1>4, <1>5, <1>6

LEMMA AnglesAre ==
  ASSUME NEW degrees \in Int
  PROVE  RightAngle(degrees) \in Angles
BY DEF RightAngle, Angles

LEMMA CameraIs ==
  ASSUME ImagesInv
  PROVE  cam.w \in Nat \ {0} /\ cam.h \in Nat \ {0} /\ Bpp(cam) \in {1, 3}
BY ImagesAssumption DEF ImagesInv, Bpp

\* What a command puts into a photo is a photo.
LEMMA PutImage ==
  ASSUME ImagesInv, NEW ph, PhotoOK(ph), NEW data,
         data \in DataOf(Bpp(cam), cam.w, cam.h),
         NEW rot \in Angles, NEW rows \in BOOLEAN, NEW columns \in BOOLEAN
  PROVE  PhotoOK(PutBlock(ph, Oriented(Block(cam.w, cam.h, Bpp(cam),
                                             cam.w * Bpp(cam)),
                                       rot, Mirror(rows, columns)), data))
<1> DEFINE b == Oriented(Block(cam.w, cam.h, Bpp(cam), cam.w * Bpp(cam)), rot,
                         Mirror(rows, columns))
<1>1. Finds(b, cam.w, cam.h, Bpp(cam), rot, rows, columns)
  BY CameraIs, OrientedFinds
<1> HIDE DEF b
<1>2. PhotoOK(PutBlock(ph, b, data))
  BY <1>1, CameraIs, PutBlockIs
<1> QED  BY <1>2 DEF b

LEMMA MirrorIs ==
  ASSUME NEW mirror \in 0 .. 3
  PROVE  mirror = Mirror(mirror % 2 = 1, mirror >= 2)
<1>1. mirror \in {0, 1, 2, 3}
  OBVIOUS
<1>2. /\ 0 % 2 = 0 /\ 1 % 2 = 1 /\ 2 % 2 = 0 /\ 3 % 2 = 1
  OBVIOUS
<1> QED  BY <1>1, <1>2 DEF Mirror

LEMMA ShownFrame ==
  ASSUME ImagesInv, NEW n \in Names, GetImage(n)
  PROVE  photo' =
           [photo EXCEPT ![n] =
              PutBlock(@, Oriented(Block(cam.w, cam.h, Bpp(cam),
                                         cam.w * Bpp(cam)),
                                   tuvc.rotate,
                                   Mirror(tuvc.mirror % 2 = 1,
                                          tuvc.mirror >= 2)),
                       tuvc.frame.data)]
<1>1. tuvc.frame # NoFrame
  BY DEF GetImage
<1>2. tuvc.mirror = Mirror(tuvc.mirror % 2 = 1, tuvc.mirror >= 2)
  BY MirrorIs DEF ImagesInv, DeviceOK
<1> QED  BY <1>1, <1>2, FrameIs DEF GetImage

LEMMA ShownArray ==
  ASSUME ImagesInv, NEW n \in Names, NEW t \in Turns, DataToPhoto(n, t)
  PROVE  photo' =
           [photo EXCEPT ![n] =
              PutBlock(@, Oriented(Block(cam.w, cam.h, Bpp(cam),
                                         cam.w * Bpp(cam)),
                                   RightAngle(t.rot), Mirror(t.x, t.y)),
                       bytes[n].data)]
BY DEF DataToPhoto, Toned, ImagesInv, ArrayOK

LEMMA InvInit == ASSUME ImagesInit PROVE ImagesInv
<1>1. cam \in Cameras /\ count \in 0 .. MaxCommands
  BY ImagesAssumption DEF ImagesInit
<1>2. DeviceOK
  BY DEF ImagesInit, DeviceOK, Angles
<1>3. DOMAIN bytes = Names /\ \A n \in Names : ArrayOK(bytes[n])
  BY DEF ImagesInit, ArrayOK
<1>4. DOMAIN photo = Names /\ \A n \in Names : PhotoOK(photo[n])
  <2>1. DOMAIN <<>> = {} /\ Grid(0, 0) = {}
    BY DEF Grid
  <2>2. PhotoOK(NoPhoto)
    <3>1. <<>> \in [{} -> [1 .. 4 -> Bits8]]
      OBVIOUS
    <3> QED  BY <2>1, <3>1 DEF NoPhoto, PhotoOK
  <2> QED  BY <2>2 DEF ImagesInit
<1> QED  BY <1>1, <1>2, <1>3, <1>4 DEF ImagesInv

LEMMA MaskedPixelsIs ==
  ASSUME NEW w \in Nat, NEW h \in Nat,
         NEW dst \in [Grid(w, h) -> [1 .. 4 -> Bits8]],
         NEW src \in [Grid(w, h) -> [1 .. 4 -> Bits8]], NEW m \in Masks
  PROVE  MaskedPixels(dst, src, m) \in [Grid(w, h) -> [1 .. 4 -> Bits8]]
<1> SUFFICES ASSUME NEW at \in Grid(w, h)
             PROVE  <<Masked(dst[at][1], src[at][1], m[2]),
                      Masked(dst[at][2], src[at][2], m[3]),
                      Masked(dst[at][3], src[at][3], m[4]),
                      Masked(dst[at][4], src[at][4], m[1])>> \in
                      [1 .. 4 -> Bits8]
  BY Zenon DEF MaskedPixels
<1>1. /\ dst[at][1] \in 0 .. 255 /\ dst[at][2] \in 0 .. 255
      /\ dst[at][3] \in 0 .. 255 /\ dst[at][4] \in 0 .. 255
      /\ src[at][1] \in 0 .. 255 /\ src[at][2] \in 0 .. 255
      /\ src[at][3] \in 0 .. 255 /\ src[at][4] \in 0 .. 255
  <2>1. dst[at] \in [1 .. 4 -> Bits8] /\ src[at] \in [1 .. 4 -> Bits8]
    OBVIOUS
  <2>2. \A f \in [1 .. 4 -> Bits8] :
          /\ f[1] \in 0 .. 255 /\ f[2] \in 0 .. 255
          /\ f[3] \in 0 .. 255 /\ f[4] \in 0 .. 255
    BY DEF Bits8
  <2>3. /\ dst[at][1] \in 0 .. 255 /\ dst[at][2] \in 0 .. 255
        /\ dst[at][3] \in 0 .. 255 /\ dst[at][4] \in 0 .. 255
    BY <2>1, <2>2, Zenon
  <2>4. /\ src[at][1] \in 0 .. 255 /\ src[at][2] \in 0 .. 255
        /\ src[at][3] \in 0 .. 255 /\ src[at][4] \in 0 .. 255
    BY <2>1, <2>2, Zenon
  <2> QED  BY <2>3, <2>4, Zenon
<1>2. /\ m[1] \in 0 .. 255 /\ m[2] \in 0 .. 255 /\ m[3] \in 0 .. 255
      /\ m[4] \in 0 .. 255
  BY ImagesAssumption
<1>3. /\ Masked(dst[at][1], src[at][1], m[2]) \in Bits8
      /\ Masked(dst[at][2], src[at][2], m[3]) \in Bits8
      /\ Masked(dst[at][3], src[at][3], m[4]) \in Bits8
      /\ Masked(dst[at][4], src[at][4], m[1]) \in Bits8
  <2>1. \A a, b, c \in 0 .. 255 : Masked(a, b, c) \in 0 .. 255
    BY MaskedIs, Zenon
  <2> QED  BY <2>1, <1>1, <1>2, ZenonT(120) DEF Bits8
<1> QED  BY <1>3

LEMMA MaskedBytesIs ==
  ASSUME NEW n \in Nat, NEW dst \in [0 .. n - 1 -> Bits8],
         NEW src \in [0 .. n - 1 -> Bits8], NEW m \in Masks
  PROVE  MaskedBytes(dst, src, m) \in [0 .. n - 1 -> Bits8]
<1> SUFFICES ASSUME NEW k \in 0 .. n - 1
             PROVE  Masked(dst[k], src[k], m[(k % 3) + 2]) \in Bits8
  BY DEF MaskedBytes
<1>1. (k % 3) + 2 \in 1 .. 4
  OBVIOUS
<1>2. m[(k % 3) + 2] \in 0 .. 255
  BY <1>1, ImagesAssumption, ZenonT(60)
<1>3. dst[k] \in 0 .. 255 /\ src[k] \in 0 .. 255
  BY ZenonT(60) DEF Bits8
<1>4. \A a, b, c \in 0 .. 255 : Masked(a, b, c) \in 0 .. 255
  BY MaskedIs, Zenon
<1> QED  BY <1>2, <1>3, <1>4, ZenonT(60) DEF Bits8

LEMMA InvNext == ASSUME ImagesInv, [ImagesNext]_imageVars PROVE ImagesInv'
<1>1. \A s \in Scenes : FrameCallback(s) => ImagesInv'
  <2> SUFFICES ASSUME NEW s \in Scenes, FrameCallback(s) PROVE ImagesInv'
    OBVIOUS
  <2>1. DeviceOK'
    <3>1. tuvc' = [tuvc EXCEPT !.frame = Converted(Sent(cam, s),
                                                   tuvc.greyshift)]
      BY DEF FrameCallback
    <3>2. tuvc'.frame = Converted(Sent(cam, s), tuvc.greyshift)
      BY <3>1 DEF ImagesInv, DeviceOK
    <3> QED  BY <3>1, <3>2 DEF FrameCallback, ImagesInv, DeviceOK
  <2>2. \A n \in Names : ArrayOK(bytes[n])'
    BY DEF FrameCallback, ImagesInv, ArrayOK
  <2> QED  BY <2>1, <2>2 DEF FrameCallback, ImagesInv
<1>2. ASSUME UNCHANGED <<cam, photo, bytes, count>>, DeviceOK'
      PROVE  ImagesInv'
  <2>1. \A n \in Names : ArrayOK(bytes[n])'
    BY <1>2 DEF ImagesInv, ArrayOK
  <2> QED  BY <1>2, <2>1 DEF ImagesInv
<1>3. \A degrees \in Degrees : Orientation(degrees) => ImagesInv'
  <2> SUFFICES ASSUME NEW degrees \in Degrees, Orientation(degrees)
               PROVE  ImagesInv'
    OBVIOUS
  <2>1. RightAngle(degrees) \in Angles
    BY ImagesAssumption, AnglesAre
  <2>2. DeviceOK'
    BY <2>1 DEF Orientation, ImagesInv, DeviceOK
  <2> QED  BY <2>2, <1>2 DEF Orientation
<1>4. \A x, y \in BOOLEAN : SetMirror(x, y) => ImagesInv'
  <2> SUFFICES ASSUME NEW x \in BOOLEAN, NEW y \in BOOLEAN, SetMirror(x, y)
               PROVE  ImagesInv'
    OBVIOUS
  <2>1. Mirror(x, y) \in 0 .. 3
    BY DEF Mirror
  <2>2. DeviceOK'
    BY <2>1 DEF SetMirror, ImagesInv, DeviceOK
  <2> QED  BY <2>2, <1>2 DEF SetMirror
<1>5. \A shift \in Shifts : GreyShift(shift) => ImagesInv'
  <2> SUFFICES ASSUME NEW shift \in Shifts, GreyShift(shift)
               PROVE  ImagesInv'
    OBVIOUS
  <2>1. shift \in -8 .. 8
    BY ImagesAssumption
  <2>2. DeviceOK'
    BY <2>1 DEF GreyShift, ImagesInv, DeviceOK
  <2> QED  BY <2>2, <1>2 DEF GreyShift
<1>6. ASSUME Command
      PROVE  /\ cam' = cam /\ tuvc' = tuvc /\ count' \in 0 .. MaxCommands
             /\ DeviceOK'
  BY <1>6, ImagesAssumption DEF Command, ImagesInv, DeviceOK
<1>7. ASSUME Command, UNCHANGED bytes, DOMAIN photo' = Names,
             \A n \in Names : PhotoOK(photo'[n])
      PROVE  ImagesInv'
  <2>1. \A n \in Names : ArrayOK(bytes[n])'
    BY <1>6, <1>7 DEF ImagesInv, ArrayOK
  <2> QED  BY <1>6, <1>7, <2>1 DEF ImagesInv
<1>8. \A n \in Names : GetImage(n) => ImagesInv'
  <2> SUFFICES ASSUME NEW n \in Names, GetImage(n) PROVE ImagesInv'
    OBVIOUS
  <2> DEFINE b == Oriented(Block(cam.w, cam.h, Bpp(cam), cam.w * Bpp(cam)),
                           tuvc.rotate,
                           Mirror(tuvc.mirror % 2 = 1, tuvc.mirror >= 2))
             ph == PutBlock(photo[n], b, tuvc.frame.data)
  <2>1. photo' = [photo EXCEPT ![n] = ph]
    BY ShownFrame
  <2>2. PhotoOK(ph)
    <3>1. tuvc.frame.data \in DataOf(Bpp(cam), cam.w, cam.h)
      BY FrameIs, ConvertedData DEF GetImage, ImagesInv
    <3>2. PhotoOK(photo[n]) /\ tuvc.rotate \in Angles
      BY DEF ImagesInv, DeviceOK
    <3> DEFINE rows == tuvc.mirror % 2 = 1  columns == tuvc.mirror >= 2
    <3>3. rows \in BOOLEAN /\ columns \in BOOLEAN
      OBVIOUS
    <3> HIDE DEF rows, columns
    <3>4. PhotoOK(PutBlock(photo[n],
                           Oriented(Block(cam.w, cam.h, Bpp(cam),
                                          cam.w * Bpp(cam)),
                                    tuvc.rotate, Mirror(rows, columns)),
                           tuvc.frame.data))
      BY <3>1, <3>2, <3>3, PutImage
    <3> QED  BY <3>4 DEF rows, columns
  <2> HIDE DEF ph
  <2>3. DOMAIN photo' = Names /\ \A k \in Names : PhotoOK(photo'[k])
    BY <2>1, <2>2 DEF ImagesInv
  <2> QED  BY <2>3, <1>7 DEF GetImage
<1>9. \A n \in Names : GetBytes(n) => ImagesInv'
  <2> SUFFICES ASSUME NEW n \in Names, GetBytes(n) PROVE ImagesInv'
    OBVIOUS
  <2> DEFINE f == tuvc.frame
             d == [w |-> f.w, h |-> f.h, bpp |-> BytesPerPixel(f),
                   data |-> f.data, scene |-> f.scene, shift |-> f.shift]
  <2>1. Command /\ f # NoFrame /\ bytes' = [bytes EXCEPT ![n] = d]
        /\ UNCHANGED photo
    BY DEF GetBytes
  <2>2. ArrayOK(d)
    <3>1. f.data \in DataOf(Bpp(cam), cam.w, cam.h)
      BY <2>1, FrameIs, ConvertedData DEF ImagesInv
    <3>2. /\ f.w = cam.w /\ f.h = cam.h /\ BytesPerPixel(f) = Bpp(cam)
          /\ f.scene \in Scenes /\ f.shift \in -8 .. 8
          /\ f.data = Converted(Sent(cam, f.scene), f.shift).data
      BY <2>1, FrameIs
    <3> HIDE DEF f
    <3> QED  BY <3>1, <3>2 DEF ArrayOK
  <2> HIDE DEF d
  <2>3. \A k \in Names : ArrayOK(bytes'[k])
    BY <2>1, <2>2 DEF ImagesInv
  <2>4. \A k \in Names : ArrayOK(bytes[k])'
    BY <2>3, <2>1, <1>6 DEF ArrayOK
  <2> QED  BY <2>1, <2>4, <1>6 DEF ImagesInv
<1>10. \A n \in Names, t \in Turns : DataToPhoto(n, t) => ImagesInv'
  <2> SUFFICES ASSUME NEW n \in Names, NEW t \in Turns, DataToPhoto(n, t)
               PROVE  ImagesInv'
    OBVIOUS
  <2> DEFINE b == Oriented(Block(cam.w, cam.h, Bpp(cam), cam.w * Bpp(cam)),
                           RightAngle(t.rot), Mirror(t.x, t.y))
             ph == PutBlock(photo[n], b, bytes[n].data)
  <2>1. photo' = [photo EXCEPT ![n] = ph]
    BY ShownArray
  <2>2. PhotoOK(ph)
    <3>1. bytes[n].data \in DataOf(Bpp(cam), cam.w, cam.h)
      BY DEF DataToPhoto, ImagesInv, ArrayOK
    <3>2. PhotoOK(photo[n])
      BY DEF ImagesInv
    <3>3. RightAngle(t.rot) \in Angles /\ t.x \in BOOLEAN /\ t.y \in BOOLEAN
      BY ImagesAssumption, AnglesAre
    <3> QED  BY <3>1, <3>2, <3>3, PutImage
  <2> HIDE DEF ph
  <2>3. DOMAIN photo' = Names /\ \A k \in Names : PhotoOK(photo'[k])
    BY <2>1, <2>2 DEF ImagesInv
  <2> QED  BY <2>3, <1>7 DEF DataToPhoto
<1>11. \A m \in Masks : MCopy(m) => ImagesInv'
  <2> SUFFICES ASSUME NEW m \in Masks, MCopy(m) PROVE ImagesInv'
    OBVIOUS
  <2> DEFINE l == photo["left"]  r == photo["right"]
             px == MaskedPixels(l.px, r.px, m)
  <2>1. /\ l.w = r.w /\ l.h = r.h
        /\ photo' = [photo EXCEPT !["left"] = [l EXCEPT !.px = px]]
    BY DEF MCopy
  <2>2. PhotoOK(l) /\ PhotoOK(r)
    BY DEF ImagesInv, Names
  <2> HIDE DEF l, r
  <2>3. px \in [Grid(l.w, l.h) -> [1 .. 4 -> Bits8]]
    BY <2>1, <2>2, MaskedPixelsIs DEF PhotoOK
  <2> HIDE DEF px
  <2>4. PhotoOK([l EXCEPT !.px = px])
    BY <2>2, <2>3 DEF PhotoOK
  <2>5. DOMAIN photo' = Names /\ \A k \in Names : PhotoOK(photo'[k])
    BY <2>1, <2>4 DEF ImagesInv
  <2> QED  BY <2>5, <1>7 DEF MCopy
<1>12. \A m \in Masks : MBCopy(m) => ImagesInv'
  <2> SUFFICES ASSUME NEW m \in Masks, MBCopy(m) PROVE ImagesInv'
    OBVIOUS
  <2> DEFINE l == bytes["left"]  r == bytes["right"]
             data == MaskedBytes(l.data, r.data, m)
             d == [[l EXCEPT !.data = data] EXCEPT !.scene = NoFrame]
  <2>1. /\ Command /\ UNCHANGED photo /\ l # NoBytes /\ r # NoBytes
        /\ bytes' = [bytes EXCEPT !["left"] = d]
    BY DEF MBCopy, Compatible, ImagesInv, Names
  <2>2. ArrayOK(l) /\ ArrayOK(r)
    BY DEF ImagesInv, Names
  <2> HIDE DEF l, r
  <2>3. data \in DataOf(Bpp(cam), cam.w, cam.h)
    <3>1. Bpp(cam) * (cam.w * cam.h) \in Nat
      BY CameraIs
    <3> QED  BY <2>1, <2>2, <3>1, MaskedBytesIs DEF ArrayOK, DataOf
  <2> HIDE DEF data
  <2>4. ArrayOK(d)
    BY <2>1, <2>2, <2>3 DEF ArrayOK
  <2> HIDE DEF d
  <2>5. DOMAIN bytes' = Names /\ \A k \in Names : ArrayOK(bytes'[k])
    BY <2>1, <2>4 DEF ImagesInv
  <2>6. \A k \in Names : ArrayOK(bytes[k])'
    BY <2>1, <2>5, <1>6 DEF ArrayOK
  <2> QED  BY <2>1, <2>5, <2>6, <1>6 DEF ImagesInv
<1>13. ASSUME UNCHANGED imageVars PROVE ImagesInv'
  <2>1. DeviceOK' /\ UNCHANGED <<cam, photo, bytes, count>>
    BY <1>13 DEF imageVars, ImagesInv, DeviceOK
  <2> QED  BY <2>1, <1>2
<1> QED
  BY <1>1, <1>3, <1>4, <1>5, <1>8, <1>9, <1>10, <1>11, <1>12, <1>13
  DEF ImagesNext
-----------------------------------------------------------------------------
(***************************************************************************)
(* UvcImages.  The theorems.                                               *)
(***************************************************************************)

LEMMA ImagesInvariant == ImagesSpec => []ImagesInv
<1>1. ImagesInit => ImagesInv
  BY InvInit
<1>2. ImagesInv /\ [ImagesNext]_imageVars => ImagesInv'
  BY InvNext
<1> QED  BY <1>1, <1>2, PTL DEF ImagesSpec

\* Bytes are bytes, wherever a conversion, a block or a mask put them: none is
\* read outside a frame (tcluvc.c:1834, tcluvc.c:2365, tcluvc.c:3404).
THEOREM ImagesTypeCorrect == ImagesSpec => []ImagesTypeOK
<1>1. ImagesInv => ImagesTypeOK
  <2> SUFFICES ASSUME ImagesInv PROVE ImagesTypeOK
    OBVIOUS
  <2>1. tuvc.frame # NoFrame => Bytes(tuvc.frame.data)
    <3> SUFFICES ASSUME tuvc.frame # NoFrame PROVE Bytes(tuvc.frame.data)
      OBVIOUS
    <3>1. tuvc.frame.data \in DataOf(Bpp(cam), cam.w, cam.h)
      BY FrameIs, ConvertedData DEF ImagesInv
    <3> QED  BY <3>1 DEF DataOf, Bits8, Bytes
  <2>2. \A n \in Names :
          /\ DOMAIN photo[n].px \subseteq
               (0 .. photo[n].w - 1) \X (0 .. photo[n].h - 1)
          /\ \A p \in DOMAIN photo[n].px : Bytes(photo[n].px[p])
    <3> SUFFICES ASSUME NEW n \in Names
                 PROVE  /\ DOMAIN photo[n].px \subseteq
                             Grid(photo[n].w, photo[n].h)
                        /\ \A p \in DOMAIN photo[n].px :
                             Bytes(photo[n].px[p])
      BY DEF Grid
    <3>1. photo[n].px \in [Grid(photo[n].w, photo[n].h) -> [1 .. 4 -> Bits8]]
      BY DEF ImagesInv, PhotoOK
    <3>2. \A pixel \in [1 .. 4 -> Bits8] : Bytes(pixel)
      BY DEF Bytes, Bits8
    <3> QED  BY <3>1, <3>2
  <2>3. \A n \in Names : bytes[n] # NoBytes => Bytes(bytes[n].data)
    BY ZenonT(120) DEF ImagesInv, ArrayOK, DataOf, Bits8, Bytes
  <2> QED  BY <2>1, <2>2, <2>3 DEF ImagesTypeOK, ImagesInv, DeviceOK, Angles
<1> QED  BY <1>1, ImagesInvariant, PTL

\* A block put into a photo shows the scene whose data it reads.
LEMMA ShowsPicture ==
  ASSUME ImagesInv, NEW ph, PhotoOK(ph), NEW data,
         data \in DataOf(Bpp(cam), cam.w, cam.h),
         NEW s \in Scenes, NEW shift \in -8 .. 8, ShowsScene(data, cam, s, shift),
         NEW rot \in Angles, NEW rows \in BOOLEAN, NEW columns \in BOOLEAN
  PROVE  Shows(PutBlock(ph, Oriented(Block(cam.w, cam.h, Bpp(cam),
                                           cam.w * Bpp(cam)),
                                     rot, Mirror(rows, columns)), data),
               Flipped(Turned(Picture(s, shift), rot), rows, columns))
<1> DEFINE w == cam.w  h == cam.h  bpp == Bpp(cam)
           b == Oriented(Block(w, h, bpp, w * bpp), rot, Mirror(rows, columns))
           p == PutBlock(ph, b, data)
           i == Picture(s, shift)
           j == Flipped(Turned(i, rot), rows, columns)
           W == WidthOf(w, h, rot)
           H == HeightOf(w, h, rot)
           I(x, y) == IndexOf(w, h, rot, rows, columns, x, y)
<1>1. w \in Nat \ {0} /\ h \in Nat \ {0} /\ bpp \in {1, 3}
  BY CameraIs
<1>2. Finds(b, w, h, bpp, rot, rows, columns)
  BY <1>1, OrientedFinds
<1>3. /\ DOMAIN i = {"w", "h", "at"} /\ i.w = w /\ i.h = h
      /\ i.at = [q \in Grid(w, h) |-> Seen(cam, s, shift, q[1] + w * q[2])]
  BY DEF Picture, Grid
<1> HIDE DEF w, h, bpp, b, i
<1>4. Depicts(i, w, h, i.at, 0, FALSE, FALSE)
  <2>1. WidthOf(w, h, 0) = w /\ HeightOf(w, h, 0) = h
    BY DEF WidthOf, HeightOf
  <2>2. \A x, y : From(w, h, 0, FALSE, FALSE, x, y) = <<x, y>>
    BY DEF From, TurnedFrom
  <2>3. \A x, y : i.at[<<x, y>>] = i.at[From(w, h, 0, FALSE, FALSE, x, y)]
    BY <2>2, Zenon
  <2>4. i.w = WidthOf(w, h, 0) /\ i.h = HeightOf(w, h, 0)
    BY <1>3, <2>1
  <2>5. DOMAIN i.at = Grid(i.w, i.h)
    BY <1>3
  <2> DEFINE F(x, y) == From(w, h, 0, FALSE, FALSE, x, y)
  <2>6. \A x, y : i.at[<<x, y>>] = i.at[F(x, y)]
    BY <2>3, Zenon
  <2> HIDE DEF F
  <2>7. \A x \in 0 .. i.w - 1, y \in 0 .. i.h - 1 :
          i.at[<<x, y>>] = i.at[F(x, y)]
    BY <2>6, Zenon
  <2> QED  BY <1>3, <2>4, <2>5, <2>7, Zenon DEF Depicts, F
<1>5. Depicts(j, w, h, i.at, rot, rows, columns)
  <2>1. Depicts(Turned(i, rot), w, h, i.at, rot, FALSE, FALSE)
    BY <1>1, <1>4, TurnedDepicts
  <2> QED  BY <1>1, <2>1, FlippedDepicts
<1> HIDE DEF j
<1>6. /\ PhotoOK(p) /\ p.w = Larger(ph.w, W) /\ p.h = Larger(ph.h, H)
      /\ HasPicture(p, data, w, h, bpp, rot, rows, columns)
  <2>1. data \in DataOf(bpp, w, h)
    BY DEF w, h, bpp
  <2> HIDE DEF W, H
  <2> QED  BY <1>1, <1>2, <2>1, PutBlockIs DEF W, H
<1>7. j.w =< p.w /\ j.h =< p.h
  <2>1. W \in Nat /\ H \in Nat /\ ph.w \in Nat /\ ph.h \in Nat
    BY <1>1 DEF WidthOf, HeightOf, PhotoOK
  <2> HIDE DEF W, H
  <2> QED  BY <1>5, <1>6, <2>1 DEF Larger, Depicts, W, H
<1>8. ASSUME NEW q \in DOMAIN j.at, NEW k \in 1 .. 3
      PROVE  Close(p.px[q][k], j.at[q][k])
  <2>1. PICK x \in 0 .. W - 1, y \in 0 .. H - 1 : q = <<x, y>>
    BY <1>5 DEF Depicts, Grid
  <2> DEFINE from == From(w, h, rot, rows, columns, x, y)
  <2>2. j.at[q] = i.at[from]
    BY <1>5, <2>1 DEF Depicts
  <2>3. from \in Grid(w, h)
    BY <1>1, FromIsPixel
  <2>4. i.at[from] = Seen(cam, s, shift, I(x, y))
    BY <1>3, <2>3 DEF IndexOf
  <2>5. p.px[q] = Pixel(data, bpp, I(x, y)) /\ I(x, y) \in 0 .. w * h - 1
    BY <1>6, <2>1 DEF HasPicture
  <2> HIDE DEF I, p
  <2>6. p.px[q][k] = data[At(bpp, I(x, y), k)]
    BY <2>5 DEF Pixel
  <2>7. Close(data[At(bpp, I(x, y), k)], Seen(cam, s, shift, I(x, y))[k])
    BY <2>5 DEF ShowsScene, w, h, bpp
  <2> QED  BY <2>2, <2>4, <2>6, <2>7
<1> HIDE DEF p
<1>9. Shows(p, j)
  BY <1>7, <1>8 DEF Shows
<1> QED  BY <1>9 DEF p, b, j, i, w, h, bpp

\* Whatever the camera's format, size and scene, uvc image and uvc tophoto show
\* what it saw, turned and mirrored as asked, to within the rounding of the
\* conversion (tcluvc.c:1834, tcluvc.c:2365).
THEOREM PicturesShown == ImagesSpec => PictureShown
<1>1. ASSUME ImagesInv, NEW n \in Names, GetImage(n),
             Legible(tuvc.frame.shift)
      PROVE  LET f == tuvc.frame IN
             Shows(photo'[n],
                   Flipped(Turned(Picture(f.scene, f.shift), tuvc.rotate),
                           tuvc.mirror % 2 = 1, tuvc.mirror >= 2))
  <2> DEFINE f == tuvc.frame
             rows == tuvc.mirror % 2 = 1  columns == tuvc.mirror >= 2
  <2>1. /\ f.scene \in Scenes /\ f.shift \in -8 .. 8
        /\ f.data = Converted(Sent(cam, f.scene), f.shift).data
    BY <1>1, FrameIs DEF GetImage
  <2>2. /\ f.data \in DataOf(Bpp(cam), cam.w, cam.h)
        /\ ShowsScene(f.data, cam, f.scene, f.shift)
    BY <1>1, <2>1, ConvertedData DEF Legible, ImagesInv
  <2>3. /\ rows \in BOOLEAN /\ columns \in BOOLEAN /\ PhotoOK(photo[n])
        /\ tuvc.rotate \in Angles
    BY <1>1 DEF ImagesInv, DeviceOK
  <2>4. photo'[n] = PutBlock(photo[n],
                             Oriented(Block(cam.w, cam.h, Bpp(cam),
                                            cam.w * Bpp(cam)),
                                      tuvc.rotate, Mirror(rows, columns)),
                             f.data)
    BY <1>1, ShownFrame DEF ImagesInv
  <2> HIDE DEF rows, columns, f
  <2>5. Shows(photo'[n],
              Flipped(Turned(Picture(f.scene, f.shift), tuvc.rotate),
                      rows, columns))
    BY <1>1, <2>1, <2>2, <2>3, <2>4, ShowsPicture
  <2> QED  BY <2>5 DEF rows, columns, f
<1>2. ASSUME ImagesInv, NEW n \in Names, NEW t \in Turns, DataToPhoto(n, t),
             bytes[n].scene # NoFrame, Legible(bytes[n].shift)
      PROVE  LET d == bytes[n] IN
             Shows(photo'[n],
                   Flipped(Turned(Picture(d.scene, d.shift),
                                  RightAngle(t.rot)), t.x, t.y))
  <2> DEFINE d == bytes[n]  rot == RightAngle(t.rot)  x == t.x  y == t.y
  <2>1. /\ d.scene \in Scenes /\ d.shift \in -8 .. 8
        /\ d.data = Converted(Sent(cam, d.scene), d.shift).data
    BY <1>2 DEF ImagesInv, ArrayOK, DataToPhoto
  <2>2. /\ d.data \in DataOf(Bpp(cam), cam.w, cam.h)
        /\ ShowsScene(d.data, cam, d.scene, d.shift)
    BY <1>2, <2>1, ConvertedData DEF Legible, ImagesInv
  <2>3. /\ x \in BOOLEAN /\ y \in BOOLEAN /\ PhotoOK(photo[n])
        /\ rot \in Angles
    BY <1>2, ImagesAssumption, AnglesAre DEF ImagesInv
  <2>4. photo'[n] = PutBlock(photo[n],
                             Oriented(Block(cam.w, cam.h, Bpp(cam),
                                            cam.w * Bpp(cam)),
                                      rot, Mirror(x, y)), d.data)
    BY <1>2, ShownArray DEF ImagesInv
  <2> HIDE DEF d, rot, x, y
  <2>5. Shows(photo'[n],
              Flipped(Turned(Picture(d.scene, d.shift), rot), x, y))
    BY <1>2, <2>1, <2>2, <2>3, <2>4, ShowsPicture
  <2> QED  BY <2>5 DEF d, rot, x, y
<1> DEFINE A == \A n \in Names :
       LET f == tuvc.frame
       IN /\ GetImage(n) /\ Legible(f.shift) =>
               Shows(photo'[n],
                     Flipped(Turned(Picture(f.scene, f.shift), tuvc.rotate),
                             tuvc.mirror % 2 = 1, tuvc.mirror >= 2))
          /\ \A t \in Turns :
               LET d == bytes[n]
               IN DataToPhoto(n, t) /\ d.scene # NoFrame
                    /\ Legible(d.shift) =>
                    Shows(photo'[n],
                          Flipped(Turned(Picture(d.scene, d.shift),
                                         RightAngle(t.rot)), t.x, t.y))
<1>3. ImagesInv => A
  BY <1>1, <1>2
<1>4. ImagesInv /\ [ImagesNext]_imageVars => [A]_imageVars
  BY <1>3
<1>5. PictureShown <=> [][A]_imageVars
  BY DEF PictureShown
<1> HIDE DEF A
<1> QED  BY <1>4, <1>5, ImagesInvariant, PTL DEF ImagesSpec

\* A block reads the bytes of red, green and blue in this order.
LEMMA ChannelAt ==
  ASSUME NEW i \in Nat, NEW k \in 1 .. 3
  PROVE  At(3, i, k) % 3 = k - 1
<1>1. At(3, i, k) = 3 * i + (k - 1)
  BY DEF At, Offsets
<1> QED  BY <1>1

\* Two arrays of three bytes a pixel, combined by mbcopy and then shown, give
\* what mcopy makes of the two when shown, with any mask and however they are
\* turned (tcluvc.c:3404).
THEOREM AnaglyphsMatch == ImagesSpec => []AnaglyphsAgree
<1>1. ImagesInv => AnaglyphsAgree
  <2> DEFINE l == bytes["left"]  r == bytes["right"]
             w == cam.w  h == cam.h
             Shown(d, t) == PutBlock(NoPhoto, Toned(l, t), d).px
  <2> SUFFICES ASSUME ImagesInv, Compatible(l, r), l.bpp = 3,
                      NEW m \in Masks, NEW t \in Turns
               PROVE  Shown(MaskedBytes(l.data, r.data, m), t) =
                        MaskedPixels(Shown(l.data, t), Shown(r.data, t), m)
    BY DEF AnaglyphsAgree
  <2> DEFINE rot == RightAngle(t.rot)  x0 == t.x  y0 == t.y
             b == Toned(l, t)
             dl == l.data  dr == r.data  dm == MaskedBytes(dl, dr, m)
             W == WidthOf(w, h, rot)  H == HeightOf(w, h, rot)
             I(x, y) == IndexOf(w, h, rot, x0, y0, x, y)
             P(d) == PutBlock(NoPhoto, b, d)
  <2>1. /\ w \in Nat \ {0} /\ h \in Nat \ {0} /\ Bpp(cam) = 3
        /\ l.w = w /\ l.h = h
        /\ dl \in DataOf(3, w, h) /\ dr \in DataOf(3, w, h)
    BY CameraIs DEF Compatible, ImagesInv, ArrayOK, Names
  <2>2. rot \in Angles /\ x0 \in BOOLEAN /\ y0 \in BOOLEAN
    BY ImagesAssumption, AnglesAre
  <2>3. dm \in DataOf(3, w, h)
    <3>1. 3 * (w * h) \in Nat
      BY <2>1
    <3> QED  BY <2>1, <3>1, MaskedBytesIs DEF DataOf
  <2>4. b = Oriented(Block(w, h, 3, w * 3), rot, Mirror(x0, y0))
    BY <2>1 DEF Toned
  <2> HIDE DEF rot, x0, y0
  <2>5. Finds(b, w, h, 3, rot, x0, y0)
    BY <2>1, <2>2, <2>4, OrientedFinds
  <2> HIDE DEF w, h, b, dl, dr, dm
  <2>6. PhotoOK(NoPhoto)
    <3>1. <<>> \in [{} -> [1 .. 4 -> Bits8]]
      OBVIOUS
    <3> QED  BY <3>1 DEF NoPhoto, PhotoOK, Grid
  <2>7. ASSUME NEW d \in DataOf(3, w, h)
        PROVE  /\ P(d).px \in [Grid(W, H) -> [1 .. 4 -> Bits8]]
               /\ \A x \in 0 .. W - 1, y \in 0 .. H - 1 :
                    /\ I(x, y) \in 0 .. w * h - 1
                    /\ P(d).px[<<x, y>>] = Pixel(d, 3, I(x, y))
    <3>1. /\ PhotoOK(P(d))
          /\ P(d).w = Larger(NoPhoto.w, W) /\ P(d).h = Larger(NoPhoto.h, H)
          /\ HasPicture(P(d), d, w, h, 3, rot, x0, y0)
      <4>1. 3 \in {1, 3}
        OBVIOUS
      <4> QED  BY <2>1, <2>2, <2>5, <2>6, <2>7, <4>1, PutBlockIs
    <3>4. \A x \in 0 .. W - 1, y \in 0 .. H - 1 :
            /\ I(x, y) \in 0 .. w * h - 1
            /\ P(d).px[<<x, y>>] = Pixel(d, 3, I(x, y))
      BY <3>1, Zenon DEF HasPicture
    <3>2. W \in Nat \ {0} /\ H \in Nat \ {0}
      BY <2>1 DEF WidthOf, HeightOf
    <3> HIDE DEF W, H, P
    <3>3. P(d).w = W /\ P(d).h = H
      BY <3>1, <3>2 DEF Larger, NoPhoto
    <3> QED  BY <3>1, <3>3, <3>4 DEF PhotoOK
  <2> HIDE DEF P, I, W, H
  <2>8. ASSUME NEW at \in Grid(W, H)
        PROVE  P(dm).px[at] = MaskedPixels(P(dl).px, P(dr).px, m)[at]
    <3>1. PICK x \in 0 .. W - 1, y \in 0 .. H - 1 : at = <<x, y>>
      BY <2>8 DEF Grid
    <3> DEFINE i == I(x, y)
               L(k) == dl[At(3, i, k)]  R(k) == dr[At(3, i, k)]
    <3>2. /\ i \in 0 .. w * h - 1
          /\ P(dm).px[at] = Pixel(dm, 3, i)
          /\ P(dl).px[at] = Pixel(dl, 3, i) /\ P(dr).px[at] = Pixel(dr, 3, i)
      BY <2>1, <2>3, <2>7, <3>1
    <3>3. \A k \in 1 .. 3 : dm[At(3, i, k)] = Masked(L(k), R(k), m[k + 1])
      <4> SUFFICES ASSUME NEW k \in 1 .. 3
                   PROVE  dm[At(3, i, k)] = Masked(L(k), R(k), m[k + 1])
        OBVIOUS
      <4>1. w * h \in Nat
        BY <2>1
      <4>2. At(3, i, k) \in 0 .. 3 * (w * h) - 1
        BY <3>2, <4>1, InData
      <4>3. At(3, i, k) \in DOMAIN dl
        BY <2>1, <4>2 DEF DataOf
      <4>4. i \in Nat
        BY <3>2, <4>1
      <4> HIDE DEF i
      <4>5. (At(3, i, k) % 3) + 2 = k + 1
        BY <4>4, ChannelAt
      <4> QED  BY <4>3, <4>5 DEF dm, MaskedBytes
    <3>4. Masked(255, 255, m[1]) = 255
      <4>1. m[1] \in 0 .. 255
        BY ImagesAssumption
      <4> QED  BY <4>1, MaskedOpaque
    <3>5. P(dm).px[at] = <<Masked(L(1), R(1), m[2]), Masked(L(2), R(2), m[3]),
                           Masked(L(3), R(3), m[4]), 255>>
      BY <3>2, <3>3 DEF Pixel
    <3>6. at \in DOMAIN P(dl).px
      BY <2>1, <2>7, <2>8
    <3>7. MaskedPixels(P(dl).px, P(dr).px, m)[at] =
            <<Masked(L(1), R(1), m[2]), Masked(L(2), R(2), m[3]),
              Masked(L(3), R(3), m[4]), Masked(255, 255, m[1])>>
      BY <3>2, <3>6 DEF MaskedPixels, Pixel
    <3> QED  BY <3>4, <3>5, <3>7
  <2>9. /\ P(dm).px = [at \in Grid(W, H) |-> P(dm).px[at]]
        /\ MaskedPixels(P(dl).px, P(dr).px, m) =
             [at \in Grid(W, H) |->
                MaskedPixels(P(dl).px, P(dr).px, m)[at]]
    BY <2>1, <2>3, <2>7 DEF MaskedPixels
  <2>10. P(dm).px = MaskedPixels(P(dl).px, P(dr).px, m)
    BY <2>8, <2>9
  <2> QED  BY <2>10 DEF P, b, dm, dl, dr
<1> QED  BY <1>1, ImagesInvariant, PTL
=============================================================================
