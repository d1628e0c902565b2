------------------------------ MODULE MemLifo ------------------------------
(* memlifo.c: the LIFO pool every thread keeps for temporary memory.  It       *)
(* takes chunks from a heap, carves blocks and marks out of the newest chunk, *)
(* gives a request that does not fit a block of its own when much of the      *)
(* chunk is still unused, and restores its state when a mark is popped.       *)
(*                                                                            *)
(* The lists of chunks and of big blocks that marks share through lc_prev are *)
(* sequences, oldest first, of which the previous mark holds a prefix.        *)
(* Memory is counted in units of ALIGNMENT and named by its chunk and offset. *)
(* The code computes sizes in DWORDs and compares some of them as ints.       *)
EXTENDS Integers, Sequences, SequencesExt, FiniteSets

CONSTANTS Chunks,        \* what the heap can hand out, by name
          ChunkSize,     \* lifo_chunk_size
          HeaderSize,    \* ROUNDUP(sizeof(MemLifoChunk))
          MarkSize,      \* ROUNDUP(sizeof(MemLifoMark))
          MaxAlloc,      \* MEMLIFO_MAX_ALLOC, the largest int, rounded down
          Sizes,         \* what users ask for, rounded up
          MaxMarks, MaxBlocks    \* bounds on what users hold

\* 2^32 bytes: a request above the last multiple of ALIGNMENT is rounded to 0.
Word == 2 * (MaxAlloc + 1)

ASSUME SizesAssumption ==
  /\ ChunkSize \in Nat /\ HeaderSize \in Nat /\ MarkSize \in Nat /\ MaxAlloc \in Nat
  /\ HeaderSize + MarkSize < ChunkSize
  /\ HeaderSize + ChunkSize <= MaxAlloc
  /\ Sizes \subseteq 0 .. Word
  /\ "none" \notin Chunks      \* the name NoBlock has for its chunk

VARIABLES
  heap,      \* the size of each chunk taken from the heap, 0 when it is not
  marks,     \* the marks of the pool, from lifo_bot_mark to lifo_top_mark
  frames,    \* what users hold: the blocks given out since each mark
  skipped,   \* a mark has been popped while another was above it
  excess     \* a block has been resized beyond what the arithmetic can express

lifoVars == <<heap, marks, frames, skipped, excess>>

(***************************************************************************)
(* Structures.                                                             *)
(***************************************************************************)
NoBlock == [chunk |-> "none", from |-> 0, size |-> 0]

\* lm_last_alloc and the size known of it.
Blocks == [chunk : Chunks, from : Nat, size : Nat]

\* lm_chunks and lm_big_blocks, lm_freeptr, lm_last_alloc, where the mark is.
Marks == [chunks : Seq(Chunks), big : Seq(Chunks), free : Nat,
          last : Blocks \cup {NoBlock}, at : Blocks]

Top == Last(marks)
Closed == marks = <<>>

Unused(h) == {c \in Chunks : h[c] = 0}

\* lm_chunks->lc_end - lm_freeptr.
Room(h, m) == h[Last(m.chunks)] - m.free

IsBig(m) == m.big # <<>> /\ m.last.chunk = Last(m.big)

\* What a DWORD keeps of a sum of two, and an int of a DWORD.
Dword(n) == IF n < Word THEN n ELSE n - Word
Int32(n) == IF n > MaxAlloc THEN n - Word ELSE n

(***************************************************************************)
(* MemLifoAlloc, as the set of its outcomes: the mark and the heap after   *)
(* it and the block it returns.  The set is empty when the request is too  *)
(* large or the heap has no memory left.                                   *)
(***************************************************************************)
\* A request is compared with MEMLIFO_MAX_ALLOC before it is rounded up.
TooLarge(sz) == sz > MaxAlloc + 1

\* A slip: the free pointer moves by what was asked, not by what was given.
BugAllocHere(m, h, sz, whole) ==
  LET b == [chunk |-> Last(m.chunks), from |-> m.free,
            size |-> IF whole THEN Room(h, m) ELSE sz]
  IN {[heap |-> h, block |-> b, mark |-> [m EXCEPT !.free = @ + sz, !.last = b]]}

\* From the current chunk; all that is left of it if the user can take it.
AllocHere(m, h, sz, whole) ==
  LET b == [chunk |-> Last(m.chunks), from |-> m.free,
            size |-> IF whole THEN Room(h, m) ELSE sz]
  IN {[heap |-> h, block |-> b,
       mark |-> [m EXCEPT !.free = @ + b.size, !.last = b]]}

NewChunkSize(sz) ==
  HeaderSize + IF sz > ChunkSize \div 2 THEN sz + ChunkSize ELSE ChunkSize

AllocNewChunk(m, h, sz) ==
  {LET b == [chunk |-> c, from |-> HeaderSize, size |-> sz] IN
   [heap |-> [h EXCEPT ![c] = NewChunkSize(sz)], block |-> b,
    mark |-> [m EXCEPT !.chunks = Append(@, c), !.free = HeaderSize + sz,
                       !.last = b]] : c \in Unused(h)}

AllocBig(m, h, sz) ==
  {LET b == [chunk |-> c, from |-> HeaderSize, size |-> sz] IN
   [heap |-> [h EXCEPT ![c] = HeaderSize + sz], block |-> b,
    mark |-> [m EXCEPT !.big = Append(@, c), !.last = b]] : c \in Unused(h)}

Allocated(m, h, sz, whole) ==
  IF TooLarge(sz) THEN {}
  ELSE IF sz <= Room(h, m) THEN AllocHere(m, h, sz, whole)
  ELSE IF Int32(Room(h, m)) < ChunkSize \div 8 THEN AllocNewChunk(m, h, sz)
  ELSE AllocBig(m, h, sz)

(***************************************************************************)
(* MemLifoPushMark, as the set of its outcomes: the new mark and the heap. *)
(***************************************************************************)
\* A slip: the new mark gives out the memory it is in.
BugNewMark(m, c, from) ==
  [chunks |-> IF c = Last(m.chunks) THEN m.chunks ELSE Append(m.chunks, c),
   big |-> m.big, free |-> from, last |-> NoBlock,
   at |-> [chunk |-> c, from |-> from, size |-> MarkSize]]

NewMark(m, c, from) ==
  [chunks |-> IF c = Last(m.chunks) THEN m.chunks ELSE Append(m.chunks, c),
   big |-> m.big, free |-> from + MarkSize, last |-> NoBlock,
   at |-> [chunk |-> c, from |-> from, size |-> MarkSize]]

Pushed(m, h) ==
  IF MarkSize <= Room(h, m)
  THEN {[heap |-> h, mark |-> NewMark(m, Last(m.chunks), m.free)]}
  ELSE {[heap |-> [h EXCEPT ![c] = ChunkSize], mark |-> NewMark(m, c, HeaderSize)]
          : c \in Unused(h)}

\* MemLifoPushFrame: the mark and the block at once when both fit, else one
\* after the other, with the request rounded already; a mark whose block cannot be
\* had is popped again.
PushedFrame(m, h, sz, whole) ==
  IF TooLarge(sz) THEN {}
  ELSE IF sz + MarkSize <= Room(h, m)
  THEN LET n == NewMark(m, Last(m.chunks), m.free) IN AllocHere(n, h, sz, whole)
  ELSE IF sz > MaxAlloc THEN {}
  ELSE UNION {Allocated(p.mark, p.heap, sz, whole) : p \in Pushed(m, h)}

(***************************************************************************)
(* MemLifoPopMark and MemLifoExpandLast.                                   *)
(***************************************************************************)
\* What a list holds beyond the part the previous mark shares.
Beyond(s, t) == ToSet(SubSeq(s, Len(t) + 1, Len(s)))

Without(h, cs) == [c \in Chunks |-> IF c \in cs THEN 0 ELSE h[c]]

\* The chunks MemLifoPopMark frees: those of the mark it is given.
FreedBy(m, n) == Beyond(m.big, n.big) \cup Beyond(m.chunks, n.chunks)

\* The size MemLifoExpandLast and MemLifoResizeLast take the last block for.
LastSize(m, h) ==
  IF IsBig(m) THEN h[Last(m.big)] - HeaderSize ELSE m.free - m.last.from

GrowHere(m, h, incr) ==
  LET b == [m.last EXCEPT !.size = LastSize(m, h) + incr] IN
  {[heap |-> h, block |-> b, mark |-> [m EXCEPT !.free = @ + incr, !.last = b]]}

\* Another big block takes the place of the last one, which is freed.
GrowBig(m, h, sz) ==
  {LET b == [chunk |-> c, from |-> HeaderSize, size |-> sz] IN
   [heap |-> [h EXCEPT ![c] = HeaderSize + sz, ![Last(m.big)] = 0], block |-> b,
    mark |-> [m EXCEPT !.big = Append(Front(@), c), !.last = b]]
      : c \in Unused(h)}

\* The room in the chunk is compared as an int, before any limit is; a size that
\* is none as an int fits always.
Expanded(m, h, asked, fix) ==
  LET incr == Dword(asked)
      sz == Dword(LastSize(m, h) + incr)
  IN  IF ~IsBig(m) /\ Int32(incr) <= Int32(Room(h, m)) THEN GrowHere(m, h, incr)
      ELSE IF fix \/ sz > MaxAlloc THEN {}
      ELSE IF IsBig(m) THEN GrowBig(m, h, sz)
      ELSE Allocated(m, h, sz, FALSE)

\* MemLifoShrinkLast: a big block, or more than there is, is left alone.
Shrunk(m, h, decr) ==
  IF IsBig(m) \/ decr > LastSize(m, h) THEN {[heap |-> h, block |-> m.last, mark |-> m]}
  ELSE LET b == [m.last EXCEPT !.size = LastSize(m, h) - decr] IN
       {[heap |-> h, block |-> b, mark |-> [m EXCEPT !.free = @ - decr, !.last = b]]}

\* MemLifoResizeLast.
Resized(m, h, asked, fix) ==
  LET sz == Dword(asked) IN
  IF sz <= LastSize(m, h) THEN Shrunk(m, h, LastSize(m, h) - sz)
  ELSE Expanded(m, h, sz - LastSize(m, h), fix)

\* More is wanted in all than a DWORD can say, or in addition than an int can.
Excessive(m, h, want) == want >= Word \/ want > LastSize(m, h) + MaxAlloc

(***************************************************************************)
(* The operations.  One that finds no memory returns NULL and changes      *)
(* nothing.  When a resize that is excessive has been granted, its user    *)
(* writes past the block: what comes after that has no meaning.            *)
(***************************************************************************)
Held == FoldSeq(LAMBDA f, n : n + Len(f), 0, frames)

Replace(s, x) == Append(Front(s), x)

LifoInit ==
  \E c \in Chunks :
    /\ heap = [d \in Chunks |-> IF d = c THEN ChunkSize ELSE 0]
    /\ marks = << [chunks |-> <<c>>, big |-> <<>>, free |-> HeaderSize + MarkSize,
                   last |-> NoBlock,
                   at |-> [chunk |-> c, from |-> HeaderSize, size |-> MarkSize]] >>
    /\ frames = << <<>> >>
    /\ skipped = FALSE /\ excess = FALSE

\* The topmost mark after an operation on it, and the heap.
TopBecomes(r) == marks' = Replace(marks, r.mark) /\ heap' = r.heap

Alloc ==
  \E sz \in Sizes, whole \in BOOLEAN :
    /\ ~Closed /\ Held < MaxBlocks
    /\ \E r \in Allocated(Top, heap, sz, whole) :
         /\ TopBecomes(r)
         /\ frames' = Replace(frames, Append(Last(frames), r.block))
    /\ UNCHANGED <<skipped, excess>>

PushMark ==
  /\ ~Closed /\ Len(marks) < MaxMarks
  /\ \E r \in Pushed(Top, heap) :
       /\ marks' = Append(marks, r.mark)
       /\ heap' = r.heap
  /\ frames' = Append(frames, <<>>)
  /\ UNCHANGED <<skipped, excess>>

PushFrame ==
  \E sz \in Sizes, whole \in BOOLEAN :
    /\ ~Closed /\ Len(marks) < MaxMarks /\ Held < MaxBlocks
    /\ \E r \in PushedFrame(Top, heap, sz, whole) :
         /\ marks' = Append(marks, r.mark)
         /\ heap' = r.heap
         /\ frames' = Append(frames, << r.block >>)
    /\ UNCHANGED <<skipped, excess>>

\* The previous mark becomes the topmost, whichever mark is popped.  Nothing
\* comes of popping the bottom mark, which is its own previous one.
PopMark(i) ==
  /\ heap' = Without(heap, FreedBy(marks[i], marks[i - 1]))
  /\ marks' = SubSeq(marks, 1, i - 1)
  /\ frames' = SubSeq(frames, 1, i - 1)
  /\ skipped' = (skipped \/ i < Len(marks))
  /\ UNCHANGED excess

\* The block given out last becomes another one, of the size that is wanted.
LastBecomes(r, want) ==
  /\ TopBecomes(r)
  /\ frames' = Replace(frames, Replace(Last(frames), r.block))
  /\ excess' = Excessive(Top, heap, want)
  /\ UNCHANGED skipped

ExpandLast ==
  /\ ~Closed
  /\ \E incr \in Sizes, fix \in BOOLEAN :
      \/ /\ Top.last = NoBlock /\ Held < MaxBlocks
         /\ \E r \in Allocated(Top, heap, incr, FALSE) :
              /\ TopBecomes(r)
              /\ frames' = Replace(frames, Append(Last(frames), r.block))
              /\ UNCHANGED <<skipped, excess>>
      \/ /\ Top.last # NoBlock
         /\ \E r \in Expanded(Top, heap, incr, fix) :
              LastBecomes(r, LastSize(Top, heap) + incr)

ShrinkLast ==
  /\ ~Closed /\ Top.last # NoBlock
  /\ \E decr \in Sizes : \E r \in Shrunk(Top, heap, decr) : LastBecomes(r, r.block.size)

ResizeLast ==
  /\ ~Closed /\ Top.last # NoBlock
  /\ \E sz \in Sizes, fix \in BOOLEAN :
       \E r \in Resized(Top, heap, sz, fix) : LastBecomes(r, sz)

\* MemLifoClose: pops the bottom mark, which is its own previous mark, and
\* then frees the chunk that mark takes memory from.
CloseLifo ==
  /\ ~Closed
  /\ heap' = Without(heap, {Last(marks[1].chunks)})
  /\ marks' = <<>> /\ frames' = <<>>
  /\ UNCHANGED <<skipped, excess>>

LifoNext ==
  /\ ~excess
  /\ \/ Alloc \/ PushMark \/ PushFrame
     \/ \E i \in 2..Len(marks) : PopMark(i)
     \/ ExpandLast \/ ShrinkLast \/ ResizeLast \/ CloseLifo

LifoSpec == LifoInit /\ [][LifoNext]_lifoVars

(***************************************************************************)
(* Properties.                                                             *)
(***************************************************************************)
\* Every field stays in its range: lm_freeptr never runs below its chunk, the
\* lists only name chunks, and every mark has a frame.
LifoTypes ==
  /\ heap \in [Chunks -> Nat]
  /\ marks \in Seq(Marks) /\ Len(marks) = Len(frames)
  /\ frames \in Seq(Seq(Blocks))
  /\ skipped \in BOOLEAN

InChunk(b) == HeaderSize <= b.from /\ b.from + b.size <= heap[b.chunk]

Promise == INSTANCE LifoFrames

\* Every field keeps its range; what users and marks of the pool point to is
\* memory taken from the heap, behind the header of its chunk; and no mark is
\* inside a block a user writes or over another mark: popping reads lm_prev out
\* of such memory.  An excessive resize that is granted breaks it: the comparison
\* as ints of memlifo.c:518 lets the free pointer run out of the chunk, which
\* memlifo.h:236 "the size of the block is guaranteed to be increased" rules out.
MemoryIsHeld ==
  /\ LifoTypes
  /\ \A b \in Promise!Live(FALSE) : InChunk(b)
  /\ \A i \in DOMAIN marks :
       /\ InChunk(marks[i].at)
       /\ \A b \in Promise!Live(FALSE) : Promise!Apart(b, marks[i].at)
       /\ \A j \in DOMAIN marks \ {i} : Promise!Apart(marks[j].at, marks[i].at)

\* As long as marks are popped in reverse order, what the pool holds of the
\* heap is what the topmost mark can reach, each chunk by one list only:
\* nothing leaks, nothing is freed twice, however blocks were moved and resized.
NothingLeaks ==
  ~Closed /\ ~skipped =>
    /\ {c \in Chunks : heap[c] # 0} = ToSet(Top.chunks) \cup ToSet(Top.big)
    /\ IsInjective(Top.chunks \o Top.big)

\* The pool has the memory its frames need, no less and no more, until a resize
\* that is excessive is granted.
MemoryIsExact ==
  /\ excess \in BOOLEAN
  /\ ~excess => MemoryIsHeld /\ NothingLeaks

\* The pool keeps the promise of memlifo.h: a block is never given out of
\* memory another live block uses, growing a block moves it or leaves it where
\* it is and harms no other, and a pop drops exactly the frames above; until a
\* resize that is excessive is granted.
KeepsFrames == Promise!Init /\ [][excess' \/ Promise!Next]_frames

\* memlifo.h:97 "Frees up various resources allocated for a LIFO memory
\* pool": nothing the pool took from the heap outlives MemLifoClose.
CloseFreesAll == Closed => \A c \in Chunks : heap[c] = 0

\* memlifo.h:194 "popping a mark automatically pops all marks created after
\* it", and "Memory allocated from the pool between the push and this pop is
\* freed up": whichever mark is popped, no chunk is left behind.
PopFreesAll ==
  ~Closed => {c \in Chunks : heap[c] # 0} = ToSet(Top.chunks) \cup ToSet(Top.big)
=============================================================================
