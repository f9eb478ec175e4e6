------------------------------ MODULE AviWriter ------------------------------
(***************************************************************************)
(* The AVI files tcluvc records (tcluvc.c: StartRecording, WriteFrame,     *)
(* CloseAVISegment, WriteAVIHeader, FinishRecording): chunks of frames in  *)
(* segments of limited size, headers that are written first and corrected  *)
(* once the sizes are known, and an index of the first segment.            *)
(*                                                                         *)
(* A file is what a reader finds at which position, relative to pos0:      *)
(* the chunks, the AVIX headers by position, the first header, the index.  *)
(* A write that extends the file may come out short, and so may the        *)
(* correction of an AVIX header; seeks, the headers StartRecording writes  *)
(* and the rewriting of the first header succeed.  The mutex of the        *)
(* recording (module TcluvcCapture) makes each operation one step; a frame *)
(* that is not due changes none of this.                                   *)
(*                                                                         *)
(* A definition named X_Y is the definition X with a slip Y in it: the     *)
(* properties are tried on those too.  Next does not use them.             *)
(***************************************************************************)
EXTENDS Integers, Sequences, FiniteSets

CONSTANTS
  Sizes,       \* data_bytes of the frames offered
  SegLimit,    \* 0x7F000000: a segment that grows beyond it is closed
  HdrSize,     \* bytes of AVI_HDR, AVI_HDR_VIDEO and AVI_HDR_ODML
  IdxGrow,     \* 512: entries the index grows by
  MaxFrames    \* bound: frames in a recording

ASSUME AviAssumption ==
  /\ Sizes \subseteq Nat /\ SegLimit \in Nat /\ MaxFrames \in Nat
  /\ HdrSize \in Nat \ {0} /\ IdxGrow \in Nat \ {0}

VARIABLES
  rchan,   \* "none", or what the channel records: "avi", "mjpeg" (-boundary)
  error,   \* rstate = REC_ERROR
  avi,     \* counts and sizes of the writer, and its index in memory
  file,    \* what the channel's file holds
  done     \* history: the file the last step closed, or NoFile

vars == <<rchan, error, avi, file, done>>

CHUNK_HDR == 8      \* sizeof(struct CHUNK_HDR)
AVIX_HDR  == 24     \* sizeof(struct AVIX_HDR)
AVI_DATA  == 12     \* sizeof(struct AVI_DATA)
AVI_IDX   == 16     \* sizeof(struct AVI_IDX)

Aligned(size)    == ((size + 3) \div 4) * 4
ChunkBytes(size) == CHUNK_HDR + Aligned(size)

NullIdx == [present |-> FALSE, entries |-> <<>>]

\* memset(&tuvc->avi, 0, ...)
ZeroAvi == [nframes |-> 0, nframes0 |-> 0, totsize |-> 0, segsize |-> 0,
            segsize0 |-> 0, segstart |-> 0, idx_off |-> 0, num_idx |-> 0,
            idx |-> NullIdx]

ZeroHead == [riff |-> 0, data |-> 0, nframes |-> 0, total |-> 0,
             indexed |-> FALSE]

NoFile == [len |-> 0, chunks |-> <<>>, avix |-> <<>>, head |-> ZeroHead,
           idx1 |-> <<>>, idxAt |-> 0, torn |-> FALSE, gap |-> FALSE]

Init ==
  /\ rchan = "none" /\ error = FALSE
  /\ avi = ZeroAvi /\ file = NoFile /\ done = NoFile
-----------------------------------------------------------------------------
(* The first header, with the sizes and counts the writer has now.         *)
HeadOf_LastSegment(a, idxBytes, indexed) ==
  [riff |-> HdrSize + a.segsize + idxBytes, data |-> a.segsize + 4,
   nframes |-> a.nframes0, total |-> a.nframes, indexed |-> indexed]

HeadOf(a, idxBytes, indexed) ==
  [riff |-> HdrSize + a.segsize0 + idxBytes, data |-> a.segsize0 + 4,
   nframes |-> a.nframes0, total |-> a.nframes, indexed |-> indexed]

\* WriteAVIHeader(tuvc, 0)
HeaderWritten(a, f) == [f EXCEPT !.head = HeadOf(a, 0, FALSE)]

\* WriteAVIHeader(tuvc, 1): the index goes to the end; nobody looks at
\* whether it could be written.
FinalHeader(a, f, whole) ==
  IF ~a.idx.present THEN HeaderWritten(a, f)
  ELSE LET size == CHUNK_HDR + AVI_IDX * Len(a.idx.entries)
       IN  [f EXCEPT !.head  = HeadOf(a, size, TRUE),
                     !.idxAt = f.len,
                     !.idx1  = IF whole THEN a.idx.entries ELSE <<>>,
                     !.len   = IF whole THEN f.len + size ELSE f.len,
                     !.torn  = f.torn \/ ~whole]

AvixAt(f, pos, riff, data) ==
  [p \in DOMAIN f.avix \cup {pos} |->
     IF p = pos THEN [riff |-> riff, data |-> data] ELSE f.avix[p]]

(* CloseAVISegment.  bad says which write comes out short: "none", that of *)
(* the sizes into the header of this segment, or that of the next header.  *)
(* err is the state the recording has when it is called.                   *)
LaterSegment(a) == a.totsize > a.segsize

SizesInto(a, f, bad) ==
  IF bad = "sizes" THEN [f EXCEPT !.torn = TRUE]
  ELSE [f EXCEPT !.avix = AvixAt(f, a.segstart, a.segsize + 16, a.segsize + 4)]

NextHeader(f, bad) ==
  IF bad = "next" THEN [f EXCEPT !.torn = TRUE]
  ELSE [f EXCEPT !.avix = AvixAt(f, f.len, 0, 0), !.len = f.len + AVIX_HDR]

CloseAVISegment(a, f, err, end, bad) ==
  LET first  == ~LaterSegment(a)
      counts == [a EXCEPT !.nframes0 = a.nframes, !.segsize0 = a.segsize]
      b      == IF first THEN counts ELSE a
      closed == IF first THEN HeaderWritten(b, f) ELSE SizesInto(a, f, bad)
      opens  == ~end /\ (first \/ bad # "sizes")
  IN  IF first /\ err
      THEN [avi |-> b, file |-> closed, error |-> err]
      ELSE [avi   |-> [b EXCEPT !.segsize = 0, !.segstart = f.len],
            file  |-> IF opens THEN NextHeader(closed, bad) ELSE closed,
            error |-> err \/ (~first /\ bad = "sizes")
                          \/ (opens /\ bad = "next")]

(* The index entry of a frame in the first segment.  When the table cannot *)
(* grow it is dropped, and neither its length nor idx_off moves on.        *)
Indexed_DataOnly(a, size, grown) ==
  LET full  == Len(a.idx.entries) >= a.num_idx
      entry == [offset |-> a.idx_off, size |-> Aligned(size)]
  IN  IF full /\ ~grown
      THEN [a EXCEPT !.num_idx = 0, !.idx = NullIdx]
      ELSE [a EXCEPT
              !.num_idx = IF full THEN @ + IdxGrow ELSE @,
              !.idx     = [present |-> TRUE,
                           entries |-> Append(a.idx.entries, entry)],
              !.idx_off = @ + Aligned(size)]

Indexed(a, size, grown) ==
  LET full  == Len(a.idx.entries) >= a.num_idx
      entry == [offset |-> a.idx_off, size |-> Aligned(size)]
  IN  IF full /\ ~grown
      THEN [a EXCEPT !.num_idx = 0, !.idx = NullIdx]
      ELSE [a EXCEPT
              !.num_idx = IF full THEN @ + IdxGrow ELSE @,
              !.idx     = [present |-> TRUE,
                           entries |-> Append(a.idx.entries, entry)],
              !.idx_off = @ + ChunkBytes(size)]
-----------------------------------------------------------------------------
(* FinishRecording: the state and the file it leaves.                      *)
Finished(err, bad, whole) ==
  LET closing == CloseAVISegment(avi, file, err, TRUE, bad)
  IN  IF rchan = "avi"
      THEN [file  |-> FinalHeader(closing.avi, closing.file, whole),
            error |-> closing.error]
      ELSE [file |-> NoFile, error |-> err]

\* record stop resets the state first; a change of the conversion, or the
\* end of the device, does not.
FinishRecording(stop) ==
  /\ rchan # "none"
  /\ \E bad \in {"none", "sizes"}, whole \in BOOLEAN :
       LET fin == Finished(error /\ ~stop, bad, whole)
       IN  error' = fin.error /\ done' = fin.file
  /\ rchan' = "none" /\ avi' = ZeroAvi /\ file' = NoFile

(* StartRecording: the recording before is finished first.  The writer     *)
(* counts on that, or on the device being new, for its zeroes.             *)
StartRecording(kind) ==
  /\ IF rchan = "none" THEN done' = NoFile
     ELSE \E bad \in {"none", "sizes"}, whole \in BOOLEAN :
            done' = Finished(error, bad, whole).file
  /\ LET a == [ZeroAvi EXCEPT !.segsize0 = 4, !.idx_off = 4]
         f == [NoFile EXCEPT !.len = HdrSize + AVI_DATA]
     IN  IF kind = "avi"
         THEN avi' = a /\ file' = HeaderWritten(a, f)
         ELSE avi' = ZeroAvi /\ file' = NoFile
  /\ rchan' = kind /\ error' = FALSE

(* WriteFrame without a channel, or after an error, writes nothing.        *)
FrameRefused ==
  /\ rchan = "none" \/ error
  /\ error' = TRUE /\ done' = NoFile
  /\ UNCHANGED <<rchan, avi, file>>

(* WriteFrame when the conversion to JPEG fails, or, with a boundary, when *)
(* the header or the data comes out short.                                 *)
FrameFails ==
  /\ rchan # "none" /\ ~error
  /\ error' = TRUE /\ done' = NoFile
  /\ UNCHANGED <<rchan, avi, file>>

\* The bytes of the chunk that reach the file: all, or too few.
Reach(size) == {0, CHUNK_HDR, CHUNK_HDR + size, ChunkBytes(size)}

SegmentFull(a) == a.segsize > SegLimit

(* WriteFrame to an AVI file.  The counts grow whatever was written; what  *)
(* follows needs the data complete, not the padding.                       *)
WriteFrame(size, n, grown, bad) ==
  /\ rchan = "avi" /\ ~error
  /\ size > 0 /\ Len(file.chunks) < MaxFrames
  /\ LET short == n < ChunkBytes(size)
         chunk == [at |-> file.len, size |-> Aligned(size), whole |-> ~short]
         a == [avi EXCEPT !.nframes = @ + 1,
                          !.totsize = @ + ChunkBytes(size),
                          !.segsize = @ + ChunkBytes(size)]
         f == [file EXCEPT !.chunks = Append(@, chunk), !.len = @ + n]
         next == CloseAVISegment(a, f, FALSE, FALSE, bad)
         same == IF LaterSegment(a) THEN a ELSE Indexed(a, size, grown)
     IN  IF n < CHUNK_HDR + size
         THEN avi' = a /\ file' = f /\ error' = TRUE
         ELSE IF SegmentFull(a)
         THEN /\ avi'   = [next.avi EXCEPT !.num_idx = 0, !.idx = NullIdx]
              /\ file'  = next.file
              /\ error' = (next.error \/ short)
         ELSE /\ avi'   = same
              /\ file'  = [f EXCEPT !.gap = @ \/ (~LaterSegment(a)
                                                   /\ ~same.idx.present)]
              /\ error' = short
  /\ done' = NoFile /\ UNCHANGED rchan

Next ==
  \/ \E kind \in {"avi", "mjpeg"} : StartRecording(kind)
  \/ \E size \in Sizes, grown \in BOOLEAN, bad \in {"none", "sizes", "next"} :
       \E n \in Reach(size) : WriteFrame(size, n, grown, bad)
  \/ FrameFails
  \/ FrameRefused
  \/ \E stop \in BOOLEAN : FinishRecording(stop)

Spec == Init /\ [][Next]_vars
-----------------------------------------------------------------------------
Chunk == [at : Nat, size : Nat, whole : BOOLEAN]
Entry == [offset : Nat, size : Nat]

FileOK(f) ==
  /\ f.len \in Nat /\ f.idxAt \in Nat
  /\ f.torn \in BOOLEAN /\ f.gap \in BOOLEAN
  /\ f.chunks \in Seq(Chunk) /\ f.idx1 \in Seq(Entry)
  /\ f.avix \in [DOMAIN f.avix -> [riff : Nat, data : Nat]]
  /\ f.head \in [riff : Nat, data : Nat, nframes : Nat, total : Nat,
                 indexed : BOOLEAN]

\* The writer's counts fit what it wrote: a segment in progress is no longer
\* than the recording, an index no longer than its table, and it is there
\* only while the first segment is being written.
TypeOK ==
  /\ rchan \in {"none", "avi", "mjpeg"} /\ error \in BOOLEAN
  /\ FileOK(file) /\ FileOK(done)
  /\ avi.nframes = Len(file.chunks)
  /\ avi.segsize <= avi.totsize
  /\ Len(avi.idx.entries) <= avi.num_idx
  /\ avi.idx.present => ~LaterSegment(avi)

(* What a reader makes of a file: a segment is where its chunks begin, and *)
(* where they end if its header says so.                                   *)
FirstMovi(f) == [start |-> HdrSize + AVI_DATA,
                 end   |-> HdrSize + 8 + f.head.data]

Segments(f) ==
  {FirstMovi(f)} \cup
  {[start |-> p + AVIX_HDR, end |-> p + 20 + f.avix[p].data] :
     p \in DOMAIN f.avix}

ChunkEnd(c) == c.at + CHUNK_HDR + c.size

Holds(seg, c) == seg.start <= c.at /\ ChunkEnd(c) <= seg.end

ChunksIn(f, seg) == {i \in DOMAIN f.chunks : Holds(seg, f.chunks[i])}

AllWhole(f) == \A i \in DOMAIN f.chunks : f.chunks[i].whole

\* The chunks of a segment follow each other from its start to its end.
Tiled(f, seg) ==
  LET ends == {ChunkEnd(f.chunks[i]) : i \in ChunksIn(f, seg)}
  IN  /\ seg.end \in ends \cup {seg.start}
      /\ \A i \in ChunksIn(f, seg) :
            f.chunks[i].at \in ends \cup {seg.start}

\* A finished file whose headers could be written is read back as it was
\* recorded: each complete frame lies in exactly one segment; and if all are
\* complete, the segments are filled with them, one segment begins where the
\* last one ends, the sizes of an AVIX header agree, and the first header
\* counts the frames of the first segment and of the recording.  (The RIFF
\* size of the first header is left out: WriteAVIHeader puts 4 less.)
SegmentsTile ==
  done # NoFile /\ ~done.torn =>
    /\ \A i \in DOMAIN done.chunks :
         done.chunks[i].whole =>
           Cardinality({seg \in Segments(done) :
                          Holds(seg, done.chunks[i])}) = 1
    /\ AllWhole(done) =>
         /\ \A seg \in Segments(done) : Tiled(done, seg)
         /\ \A p \in DOMAIN done.avix :
              /\ \E seg \in Segments(done) : seg.end = p
              /\ done.avix[p].riff = done.avix[p].data + 12
         /\ done.head.nframes = Cardinality(ChunksIn(done, FirstMovi(done)))
         /\ done.head.total = Len(done.chunks)

\* Entry i of the index of a finished file points at frame i, from the word
\* "movi" on, with its size; a file of one segment whose frames are complete
\* has an entry for each of them, and the index follows the segment.  This
\* is of files whose index could grow each time: after a failure
\* (WriteFrame) the new table begins with a later frame at an offset of an
\* earlier one.
IndexPointsAtFrames ==
  done.head.indexed /\ ~done.torn /\ ~done.gap =>
    /\ DOMAIN done.avix = {}
    /\ \A i \in DOMAIN done.idx1 :
         /\ HdrSize + 8 + done.idx1[i].offset = done.chunks[i].at
         /\ done.idx1[i].size = done.chunks[i].size
    /\ AllWhole(done) => /\ Len(done.idx1) = Len(done.chunks)
                         /\ done.idxAt = FirstMovi(done).end
=============================================================================
