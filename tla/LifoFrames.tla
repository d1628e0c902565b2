----------------------------- MODULE LifoFrames -----------------------------
(* What memlifo.h promises the users of a LIFO pool, whatever the chunks the  *)
(* pool takes from the heap: a stack of frames of blocks.  A block is given   *)
(* out of memory no live block uses, only the topmost frame changes, only its *)
(* last block is resized, and popping a mark drops the frame of the mark and  *)
(* the frames above it.  MemLifo implements it.                               *)
EXTENDS Naturals, Sequences, SequencesExt

VARIABLE frames    \* the blocks of each mark, from the bottom mark to the top

\* A block is a record of its chunk, where it starts and its size.
Apart(b, d) ==
  \/ b.chunk # d.chunk
  \/ b.from + b.size <= d.from
  \/ d.from + d.size <= b.from

\* The blocks of all the frames, without the last of the topmost if skip is set.
Live(skip) ==
  UNION {{frames[k][i] : i \in DOMAIN frames[k] \ IF skip /\ k = Len(frames)
                                                  THEN {Len(frames[k])} ELSE {}}
           : k \in DOMAIN frames}

Fresh(b) == \A d \in Live(FALSE) : Apart(b, d)

\* The blocks of the topmost frame after a step.
TopAfter == IF frames' = <<>> THEN {} ELSE ToSet(Last(frames'))

Init == frames = << <<>> >>

Alloc ==
  \E b \in TopAfter :
    /\ Fresh(b)
    /\ frames' = [frames EXCEPT ![Len(frames)] = Append(@, b)]

Push == frames' = Append(frames, <<>>)

PushFrame ==
  \E b \in TopAfter :
    /\ Fresh(b)
    /\ frames' = Append(frames, <<b>>)

\* The block stays where it is or moves to memory nobody uses.
Resize ==
  /\ Last(frames) # <<>>
  /\ \E b \in TopAfter :
       LET old == Last(Last(frames)) IN
       /\ \A d \in Live(TRUE) : Apart(b, d)
       /\ Apart(b, old) \/ (b.chunk = old.chunk /\ b.from = old.from)
       /\ frames' = [frames EXCEPT ![Len(frames)] = Append(Front(@), b)]

Pop == \E k \in 2..Len(frames) : frames' = SubSeq(frames, 1, k - 1)

Close == frames' = <<>>

Next ==
  /\ frames # <<>>
  /\ Alloc \/ Push \/ PushFrame \/ Resize \/ Pop \/ Close

Spec == Init /\ [][Next]_frames
=============================================================================
