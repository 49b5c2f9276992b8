---------------------------- MODULE FrameBuffer -----------------------------
(***************************************************************************)
(* The ring buffer of received frames in the client library                *)
(* (Clients/ClientLib/src/FrameBuffer.cpp).                                *)
(*                                                                         *)
(* ActionSender pushes the spheres of a frame one by one and starts a new  *)
(* frame when the server's frame counter has grown; the viewer paints the  *)
(* frame at readIndex and then pops it.  Both indices run around the ring: *)
(* an unpopped frame is overwritten when the buffer is full, and the last  *)
(* frame is never popped.  The buffer tells the client how full it is.     *)
(*                                                                         *)
(* Every method is one action; all of them run in the client's main        *)
(* thread.  The pointers currentReadFrame and currentWriteFrame always     *)
(* point to frame number readIndex and writeIndex and are left out.        *)
(***************************************************************************)
EXTENDS Integers, Sequences

CONSTANTS
  BufferSize,      \* frames in the ring (30 in ActionSender)
  Elements,        \* spheres
  Blank,           \* T(), what fresh memory and an exhausted frame hold
  InitialCounts,   \* elements per frame the buffer is constructed with
  Counts           \* elements per frame it is changed to

\* updatePercentageLevel() divides by bufferSize-2.
ASSUME FrameBufferAssumption ==
  /\ BufferSize \in Nat
  /\ BufferSize > 2
  /\ Blank \notin Elements
  /\ InitialCounts \subseteq Nat
  /\ Counts \subseteq Nat

VARIABLES
  frames,                 \* the ring: one function per frame
  elementsPerFrame,
  readIndex,              \* "Index of the currently read frame."
  writeIndex,             \* "Index of the currently written frame."
  elementReadIndex,       \* "Index of the currently read element."
  elementWriteIndex,      \* "Index of the currently written element."
  lastFrameBufferAction,  \* "Storage of the last push or pop action."
  percentageLevel,        \* the level of the last frameBufferPercentageLevelUpdate
  greatLevel,             \* the level of the last greatFrameBuffer...Update
  popped                  \* what popElement() returned last

indexVars == <<readIndex, writeIndex>>
levelVars == <<lastFrameBufferAction, percentageLevel, greatLevel>>
vars == <<frames, elementsPerFrame, readIndex, writeIndex, elementReadIndex,
          elementWriteIndex, lastFrameBufferAction, percentageLevel,
          greatLevel, popped>>

Indices == 0 .. BufferSize - 1
Contents == Elements \union {Blank}

TypeOK ==
  /\ elementsPerFrame \in InitialCounts \union Counts
  /\ frames \in [Indices -> [0 .. elementsPerFrame - 1 -> Contents]]
  /\ readIndex \in Indices
  /\ writeIndex \in Indices
  /\ elementReadIndex \in Nat
  /\ elementWriteIndex \in Nat
  /\ lastFrameBufferAction \in {"push", "pop"}
  /\ percentageLevel \in 0 .. 255
  /\ greatLevel \in 0 .. 255
  /\ popped \in Contents

FreshFrames(n) == [i \in Indices |-> [j \in 0 .. n - 1 |-> Blank]]

Init ==
  /\ elementsPerFrame \in InitialCounts
  /\ frames = FreshFrames(elementsPerFrame)
  /\ readIndex = 0
  /\ writeIndex = 0
  /\ elementReadIndex = 0
  /\ elementWriteIndex = 0
  /\ lastFrameBufferAction = "pop"
  /\ percentageLevel = 0
  /\ greatLevel = 0
  /\ popped = Blank

-----------------------------------------------------------------------------
NextIndex(i) == (i + 1) % BufferSize

\* getFrameCount() for the indices r and w.
CountBetween(r, w) == IF w < r THEN w - r + BufferSize ELSE w - r

FrameCount == CountBetween(readIndex, writeIndex)

\* One frame is 0%, a full ring (bufferSize-1 frames) is 100%; unsigned char.
Percentage(count) == (((count - 1) * 100) \div (BufferSize - 2)) % 256

\* updatePercentageLevel(lastFrameBufferAction == action), then the assignment to
\* lastFrameBufferAction.
UpdateLevel(action) ==
  /\ percentageLevel' = Percentage(CountBetween(readIndex', writeIndex'))
  /\ greatLevel' = IF lastFrameBufferAction = action
                   THEN percentageLevel' ELSE greatLevel
  /\ lastFrameBufferAction' = action

-----------------------------------------------------------------------------
UpdateElementsPerFrameKeepsMemory(n) ==
  /\ n # elementsPerFrame
  /\ elementsPerFrame' = n
  /\ readIndex' = 0
  /\ writeIndex' = 0
  /\ UNCHANGED <<frames, elementReadIndex, elementWriteIndex, levelVars, popped>>

\* Nothing happens when the number stays the same.
UpdateElementsPerFrame(n) ==
  /\ n # elementsPerFrame
  /\ elementsPerFrame' = n
  /\ frames' = FreshFrames(n)
  /\ readIndex' = 0
  /\ writeIndex' = 0
  /\ UNCHANGED <<elementReadIndex, elementWriteIndex, levelVars, popped>>

\* An element too many is ignored.
PushElement(e) ==
  /\ elementWriteIndex < elementsPerFrame
  /\ frames' = [frames EXCEPT ![writeIndex][elementWriteIndex] = e]
  /\ elementWriteIndex' = elementWriteIndex + 1
  /\ UNCHANGED <<elementsPerFrame, indexVars, elementReadIndex, levelVars,
                 popped>>

PushFrameKeepsPlace ==
  /\ readIndex' = IF readIndex = NextIndex(writeIndex)
                  THEN NextIndex(readIndex) ELSE readIndex
  /\ writeIndex' = NextIndex(writeIndex)
  /\ UpdateLevel("push")
  /\ UNCHANGED <<frames, elementsPerFrame, elementReadIndex,
                 elementWriteIndex, popped>>

\* The reader gives way when the ring is full.
PushFrame ==
  /\ elementWriteIndex' = 0
  /\ readIndex' = IF readIndex = NextIndex(writeIndex)
                  THEN NextIndex(readIndex) ELSE readIndex
  /\ writeIndex' = NextIndex(writeIndex)
  /\ UpdateLevel("push")
  /\ UNCHANGED <<frames, elementsPerFrame, elementReadIndex, popped>>

PopElement ==
  /\ IF elementReadIndex < elementsPerFrame
     THEN /\ popped' = frames[readIndex][elementReadIndex]
          /\ elementReadIndex' = elementReadIndex + 1
     ELSE /\ popped' = Blank
          /\ UNCHANGED elementReadIndex
  /\ UNCHANGED <<frames, elementsPerFrame, indexVars, elementWriteIndex,
                 levelVars>>

PopFrameToTheWriter ==
  /\ IF writeIndex # readIndex
     THEN /\ readIndex' = NextIndex(readIndex)
          /\ UNCHANGED writeIndex
          /\ UpdateLevel("pop")
     ELSE UNCHANGED <<indexVars, levelVars>>
  /\ elementReadIndex' = 0
  /\ UNCHANGED <<frames, elementsPerFrame, elementWriteIndex, popped>>

PopFrameForgetsLevel ==
  /\ readIndex' = IF writeIndex \notin {readIndex, NextIndex(readIndex)}
                  THEN NextIndex(readIndex) ELSE readIndex
  /\ elementReadIndex' = 0
  /\ UNCHANGED <<frames, elementsPerFrame, writeIndex, elementWriteIndex,
                 levelVars, popped>>

\* Neither an empty buffer nor the last frame is popped.
PopFrame ==
  /\ IF writeIndex \notin {readIndex, NextIndex(readIndex)}
     THEN /\ readIndex' = NextIndex(readIndex)
          /\ UNCHANGED writeIndex
          /\ UpdateLevel("pop")
     ELSE UNCHANGED <<indexVars, levelVars>>
  /\ elementReadIndex' = 0
  /\ UNCHANGED <<frames, elementsPerFrame, elementWriteIndex, popped>>

Next ==
  \/ \E n \in Counts : UpdateElementsPerFrame(n)
  \/ \E e \in Elements : PushElement(e)
  \/ PushFrame
  \/ PopElement
  \/ PopFrame

Spec == Init /\ [][Next]_vars

-----------------------------------------------------------------------------
(* Safety *)

\* Once a frame was pushed, the painter's frame is never the one that is being
\* filled, however pushes and pops alternate: pushFrame makes the reader give
\* way, popFrame stops before the writer.  Only new frames of another size start
\* again from an empty buffer.
ReaderStaysBehindWriter ==
  [][readIndex # writeIndex /\ elementsPerFrame' = elementsPerFrame
       => readIndex' # writeIndex']_vars

\* The level the client was told last (frameBufferPercentageLevelUpdate, which
\* controls the viewer's frame rate) is the level of the buffer as it is now,
\* between 0 (one frame) and 100 (bufferSize-1 frames).
LevelIsCurrent ==
  readIndex # writeIndex =>
    /\ percentageLevel = Percentage(FrameCount)
    /\ percentageLevel \in 0 .. 100

\* "Percentage level of FrameBuffer changed greatly." (ActionSender.hpp:231): a
\* listener of greatFrameBufferPercentageLevelUpdate only knows a level that
\* differs from the present one by more than a frame after it was told so.
GreatLevelFollows ==
  readIndex # writeIndex =>
    \E count \in FrameCount - 1 .. FrameCount + 1 :
      count \in 1 .. BufferSize - 1 /\ greatLevel = Percentage(count)

-----------------------------------------------------------------------------
(* Refinement *)

Smaller(m, n) == IF m < n THEN m ELSE n

BF == INSTANCE BoundedFrames WITH
        Capacity <- BufferSize - 1,
        Counts <- InitialCounts \union Counts,
        length <- elementsPerFrame,
        whole <- [i \in 1 .. FrameCount |->
                    frames[(readIndex + i - 1) % BufferSize]],
        filling <- [i \in 1 .. Smaller(elementWriteIndex, elementsPerFrame) |->
                      frames[writeIndex][i - 1]],
        position <- elementReadIndex

\* The ring with its four indices is a bounded queue of whole frames that drops
\* the oldest, keeps the last, and never shows a frame that is being filled.
ImplementsBoundedFrames == BF!Spec
=============================================================================
