------------------------- MODULE FrameBufferProofs --------------------------
(***************************************************************************)
(* The ring buffer of frames and the stream that fills it are right for    *)
(* every size of the ring and every number of spheres, frames and lost     *)
(* messages.                                                               *)
(*                                                                         *)
(* The ring: the indices stay in it, the painter never reads the frame     *)
(* that is being filled, the percentage level that controls the viewer is  *)
(* current and between 0 and 100, and the ring is a bounded queue of       *)
(* frames.                                                                 *)
(*                                                                         *)
(* The stream: every step of it is a step of the ring or leaves it alone   *)
(* (StreamUsesTheRing), so what is proved of the ring holds of it; and a   *)
(* lost sphere damages its own frame only. The last needs to know what is  *)
(* still under way (StreamInv): since a resize the ring is either          *)
(* untouched, or the images that are missing of the frame being filled are *)
(* in the channel, in order, before the next resize and before every newer *)
(* frame.                                                                  *)
(***************************************************************************)
EXTENDS FrameStream, SequenceTheorems, TLAPS

\* The successor of a position of the ring is a position of the ring.
LEMMA NextIndexInRing ==
  ASSUME NEW i \in Indices
  PROVE  /\ NextIndex(i) \in Indices
         /\ NextIndex(i) = IF i = BufferSize - 1 THEN 0 ELSE i + 1
  BY FrameBufferAssumption, SMT DEF Indices, NextIndex

\* The number of frames between two positions is 1 to bufferSize-1, unless they
\* are the same.
LEMMA CountInRange ==
  ASSUME NEW r \in Indices, NEW w \in Indices, r # w
  PROVE  CountBetween(r, w) \in 1 .. BufferSize - 1
  BY FrameBufferAssumption, SMT DEF Indices, CountBetween

\* Division does not exceed 100 when the dividend is at most 100 times the divisor.
LEMMA AtMostHundred ==
  ASSUME NEW a \in Nat, NEW b \in Nat, b > 0, a <= 100 * b
  PROVE  a \div b \in 0 .. 100
  BY SMT

\* Division by a positive number gives an integer.
LEMMA DivisionTyped ==
  ASSUME NEW a \in Int, NEW b \in Nat, b > 0
  PROVE  a \div b \in Int
  BY SMT

\* The unsigned char always has a value.
LEMMA PercentageTyped ==
  ASSUME NEW count \in Int
  PROVE  Percentage(count) \in 0 .. 255
<1> DEFINE a == (count - 1) * 100
           b == BufferSize - 2
<1>1. a \in Int /\ b \in Nat /\ b > 0
  BY FrameBufferAssumption
<1>2. a \div b \in Int
  <2> HIDE DEF a, b
  <2> QED BY <1>1, DivisionTyped
<1>3. Percentage(count) = (a \div b) % 256
  BY DEF Percentage
<1> QED
  <2> HIDE DEF a, b
  <2> QED BY <1>2, <1>3

\* A buffer with 1 to bufferSize-1 frames is 0 to 100 percent full: the
\* conversion to unsigned char cuts nothing off.
LEMMA PercentageInRange ==
  ASSUME NEW count \in 1 .. BufferSize - 1
  PROVE  Percentage(count) \in 0 .. 100
<1> DEFINE a == (count - 1) * 100
           b == BufferSize - 2
<1>1. a \in Nat /\ b \in Nat /\ b > 0 /\ a <= 100 * b
  BY FrameBufferAssumption
<1>2. a \div b \in 0 .. 100
  <2> HIDE DEF a, b
  <2> QED BY <1>1, AtMostHundred
<1>3. Percentage(count) = (a \div b) % 256
  BY DEF Percentage
<1> QED
  <2> HIDE DEF a, b
  <2> QED BY <1>2, <1>3

\* What pushFrame() does to the number of frames: it grows up to bufferSize-1.
LEMMA PushCount ==
  ASSUME NEW r \in Indices, NEW w \in Indices, NEW q,
         q = IF r = NextIndex(w) THEN NextIndex(r) ELSE r
  PROVE  /\ q \in Indices
         /\ q # NextIndex(w)
         /\ CountBetween(q, NextIndex(w)) =
              IF r = w THEN 1
              ELSE IF CountBetween(r, w) = BufferSize - 1 THEN BufferSize - 1
              ELSE CountBetween(r, w) + 1
<1>1. /\ NextIndex(w) \in Indices
      /\ NextIndex(w) = IF w = BufferSize - 1 THEN 0 ELSE w + 1
      /\ NextIndex(r) \in Indices
      /\ NextIndex(r) = IF r = BufferSize - 1 THEN 0 ELSE r + 1
  BY NextIndexInRing
<1> QED
  BY <1>1, FrameBufferAssumption DEF Indices, CountBetween

\* What popFrame() does to it: one less, but never none.
LEMMA PopCount ==
  ASSUME NEW r \in Indices, NEW w \in Indices, w \notin {r, NextIndex(r)}
  PROVE  /\ NextIndex(r) \in Indices
         /\ NextIndex(r) # w
         /\ CountBetween(r, w) > 1
         /\ CountBetween(NextIndex(r), w) = CountBetween(r, w) - 1
<1>1. /\ NextIndex(r) \in Indices
      /\ NextIndex(r) = IF r = BufferSize - 1 THEN 0 ELSE r + 1
  BY NextIndexInRing
<1> QED
  BY <1>1, FrameBufferAssumption DEF Indices, CountBetween

-----------------------------------------------------------------------------
\* Every variable keeps its type: the indices stay in the ring and every frame
\* has elementsPerFrame elements, so that no access leaves the allocated memory.
THEOREM TypeCorrect == Spec => []TypeOK
<1>1. Init => TypeOK
  BY FrameBufferAssumption
  DEF Init, TypeOK, FreshFrames, Indices, Contents
<1>2. TypeOK /\ [Next]_vars => TypeOK'
  <2> SUFFICES ASSUME TypeOK, [Next]_vars
               PROVE  TypeOK'
    OBVIOUS
  <2> USE DEF TypeOK, indexVars, levelVars
  <2>1. ASSUME NEW n \in Counts, UpdateElementsPerFrame(n)
        PROVE  TypeOK'
    BY <2>1, FrameBufferAssumption
    DEF UpdateElementsPerFrame, FreshFrames, Indices, Contents
  <2>2. ASSUME NEW e \in Elements, PushElement(e)
        PROVE  TypeOK'
    <3>1. elementsPerFrame \in Nat /\ e \in Contents
      BY FrameBufferAssumption DEF Contents
    <3>2. elementWriteIndex \in 0 .. elementsPerFrame - 1
      BY <2>2, <3>1 DEF PushElement
    <3>3. frames' \in [Indices -> [0 .. elementsPerFrame - 1 -> Contents]]
      <4>1. frames' = [frames EXCEPT ![writeIndex] =
                         [frames[writeIndex] EXCEPT ![elementWriteIndex] = e]]
        BY <2>2 DEF PushElement
      <4>2. [frames[writeIndex] EXCEPT ![elementWriteIndex] = e]
              \in [0 .. elementsPerFrame - 1 -> Contents]
        BY <3>1, <3>2
      <4> QED
        BY <4>1, <4>2
    <3> QED
      BY <2>2, <3>3 DEF PushElement
  <2>3. CASE PushFrame
    <3>1. readIndex' \in Indices /\ writeIndex' \in Indices
      BY <2>3, NextIndexInRing DEF PushFrame
    <3>2. percentageLevel' \in 0 .. 255
      <4>1. CountBetween(readIndex', writeIndex') \in Int
        BY <3>1, FrameBufferAssumption DEF CountBetween, Indices
      <4> QED
        BY <2>3, <4>1, PercentageTyped DEF PushFrame, UpdateLevel
    <3> QED
      BY <2>3, <3>1, <3>2 DEF PushFrame, UpdateLevel
  <2>4. CASE PopElement
    <3>1. CASE elementReadIndex < elementsPerFrame
      <4>1. elementReadIndex \in 0 .. elementsPerFrame - 1
        BY <3>1, FrameBufferAssumption
      <4>2. frames[readIndex] \in [0 .. elementsPerFrame - 1 -> Contents]
        OBVIOUS
      <4>3. frames[readIndex][elementReadIndex] \in Contents
        BY <4>1, <4>2
      <4>4. popped' = frames[readIndex][elementReadIndex]
        BY <2>4, <3>1 DEF PopElement
      <4>5. popped' \in Contents
        BY <4>3, <4>4
      <4>6. elementReadIndex' \in Nat
        BY <2>4, <3>1 DEF PopElement
      <4>7. UNCHANGED <<frames, elementsPerFrame, readIndex, writeIndex,
                        elementWriteIndex, lastFrameBufferAction,
                        percentageLevel, greatLevel>>
        BY <2>4 DEF PopElement
      <4> QED
        BY <4>5, <4>6, <4>7
    <3>2. CASE ~(elementReadIndex < elementsPerFrame)
      BY <2>4, <3>2 DEF PopElement, Contents
    <3> QED
      BY <3>1, <3>2
  <2>5. CASE PopFrame
    <3>1. CASE writeIndex \notin {readIndex, NextIndex(readIndex)}
      <4>1. readIndex' \in Indices /\ writeIndex' \in Indices
        BY <2>5, <3>1, NextIndexInRing DEF PopFrame
      <4>2. percentageLevel' \in 0 .. 255
        <5>1. CountBetween(readIndex', writeIndex') \in Int
          BY <4>1, FrameBufferAssumption DEF CountBetween, Indices
        <5> QED
          BY <2>5, <3>1, <5>1, PercentageTyped DEF PopFrame, UpdateLevel
      <4> QED
        BY <2>5, <3>1, <4>1, <4>2 DEF PopFrame, UpdateLevel
    <3>2. CASE writeIndex \in {readIndex, NextIndex(readIndex)}
      BY <2>5, <3>2 DEF PopFrame
    <3> QED
      BY <3>1, <3>2
  <2>6. CASE UNCHANGED vars
    BY <2>6 DEF vars
  <2> QED
    BY <2>1, <2>2, <2>3, <2>4, <2>5, <2>6 DEF Next
<1> QED
  BY <1>1, <1>2, PTL DEF Spec

-----------------------------------------------------------------------------
\* pushFrame() and popFrame() keep the reader away from the frame that is being
\* filled, for every buffer size and every alternation of the two.
THEOREM ReaderBehindWriter == Spec => ReaderStaysBehindWriter
<1> DEFINE Apart == readIndex # writeIndex /\ elementsPerFrame' = elementsPerFrame
                      => readIndex' # writeIndex'
<1>1. TypeOK /\ [Next]_vars => Apart
  <2> SUFFICES ASSUME TypeOK, [Next]_vars
               PROVE  Apart
    OBVIOUS
  <2> USE DEF indexVars
  <2>1. readIndex \in Indices /\ writeIndex \in Indices
    BY DEF TypeOK
  <2>2. ASSUME NEW n \in Counts, UpdateElementsPerFrame(n)
        PROVE  Apart
    BY <2>2 DEF UpdateElementsPerFrame
  <2>3. ASSUME NEW e \in Elements, PushElement(e)
        PROVE  Apart
    BY <2>3 DEF PushElement
  <2>4. CASE PushFrame
    BY <2>1, <2>4, PushCount DEF PushFrame
  <2>5. CASE PopElement
    BY <2>5 DEF PopElement
  <2>6. CASE PopFrame
    BY <2>1, <2>6, PopCount DEF PopFrame
  <2>7. CASE UNCHANGED vars
    BY <2>7 DEF vars
  <2> QED
    BY <2>2, <2>3, <2>4, <2>5, <2>6, <2>7 DEF Next
<1> QED
  BY <1>1, TypeCorrect, PTL DEF Spec, ReaderStaysBehindWriter

\* The inductive half of LevelIsCurrent.
LevelInv == readIndex # writeIndex => percentageLevel = Percentage(FrameCount)

\* The client is always told how full the buffer is, in percent, and no value
\* is cut off by the unsigned char.
THEOREM LevelCorrect == Spec => []LevelIsCurrent
<1>1. Init => LevelInv
  BY DEF Init, LevelInv
<1>2. TypeOK /\ LevelInv /\ [Next]_vars => LevelInv'
  <2> SUFFICES ASSUME TypeOK, LevelInv, [Next]_vars
               PROVE  LevelInv'
    OBVIOUS
  <2> USE DEF LevelInv, FrameCount, indexVars, levelVars
  <2>1. ASSUME NEW n \in Counts, UpdateElementsPerFrame(n)
        PROVE  LevelInv'
    BY <2>1 DEF UpdateElementsPerFrame
  <2>2. ASSUME NEW e \in Elements, PushElement(e)
        PROVE  LevelInv'
    BY <2>2 DEF PushElement
  <2>3. CASE PushFrame
    BY <2>3 DEF PushFrame, UpdateLevel
  <2>4. CASE PopElement
    BY <2>4 DEF PopElement
  <2>5. CASE PopFrame
    BY <2>5 DEF PopFrame, UpdateLevel
  <2>6. CASE UNCHANGED vars
    BY <2>6 DEF vars
  <2> QED
    BY <2>1, <2>2, <2>3, <2>4, <2>5, <2>6 DEF Next
<1>3. TypeOK /\ LevelInv => LevelIsCurrent
  <2> SUFFICES ASSUME TypeOK, LevelInv, readIndex # writeIndex
               PROVE  /\ percentageLevel = Percentage(FrameCount)
                      /\ percentageLevel \in 0 .. 100
    BY DEF LevelIsCurrent
  <2>1. FrameCount \in 1 .. BufferSize - 1
    BY CountInRange DEF TypeOK, FrameCount
  <2> QED
    BY <2>1, PercentageInRange DEF LevelInv
<1> QED
  BY <1>1, <1>2, <1>3, TypeCorrect, PTL DEF Spec

\* What the listeners of greatFrameBufferPercentageLevelUpdate know, as an
\* inductive invariant: after a push they know the present level or the one
\* before the push, after a pop the present level or the one before the pop.
GreatInv ==
  /\ readIndex = writeIndex =>
       lastFrameBufferAction = "pop" /\ greatLevel = Percentage(1)
  /\ readIndex # writeIndex /\ lastFrameBufferAction = "push" =>
       \/ greatLevel = Percentage(FrameCount)
       \/ FrameCount > 1 /\ greatLevel = Percentage(FrameCount - 1)
  /\ readIndex # writeIndex /\ lastFrameBufferAction = "pop" =>
       /\ FrameCount < BufferSize - 1
       /\ greatLevel \in {Percentage(FrameCount), Percentage(FrameCount + 1)}

\* As long as the number of elements per frame stays the same, the listeners of
\* the great changes know the level up to one frame.  (The run
\* frame_resize_level shows that they lose track when it changes.)
THEOREM GreatLevelCorrect ==
  ASSUME Counts = {}
  PROVE  Spec => []GreatLevelFollows
<1>1. Init => GreatInv
  <2>1. 0 \div (BufferSize - 2) = 0
    BY FrameBufferAssumption
  <2>2. Percentage(1) = 0
    BY <2>1 DEF Percentage
  <2> QED
    BY <2>2 DEF Init, GreatInv
<1>2. TypeOK /\ GreatInv /\ [Next]_vars => GreatInv'
  <2> SUFFICES ASSUME TypeOK, GreatInv, [Next]_vars
               PROVE  GreatInv'
    OBVIOUS
  <2> USE DEF FrameCount, indexVars, levelVars
  <2>1. /\ readIndex \in Indices
        /\ writeIndex \in Indices
        /\ lastFrameBufferAction \in {"push", "pop"}
        /\ readIndex # writeIndex => FrameCount \in 1 .. BufferSize - 1
    BY CountInRange DEF TypeOK
  <2>2. ASSUME NEW e \in Elements, PushElement(e)
        PROVE  GreatInv'
    BY <2>2 DEF PushElement, GreatInv
  <2>3. CASE PushFrame
    <3>1. /\ readIndex' # writeIndex'
          /\ lastFrameBufferAction' = "push"
          /\ FrameCount' =
               IF readIndex = writeIndex THEN 1
               ELSE IF FrameCount = BufferSize - 1 THEN BufferSize - 1
               ELSE FrameCount + 1
      BY <2>1, <2>3, PushCount DEF PushFrame, UpdateLevel
    <3>2. CASE lastFrameBufferAction = "push"
      <4>1. greatLevel' = Percentage(FrameCount')
        BY <2>3, <3>2 DEF PushFrame, UpdateLevel
      <4> QED
        BY <3>1, <4>1 DEF GreatInv
    <3>3. CASE lastFrameBufferAction = "pop"
      <4>1. greatLevel' = greatLevel
        BY <2>3, <3>3 DEF PushFrame, UpdateLevel
      <4>2. CASE readIndex = writeIndex
        BY <3>1, <4>1, <4>2 DEF GreatInv
      <4>3. CASE readIndex # writeIndex
        <5>1. FrameCount' = FrameCount + 1 /\ FrameCount \in 1 .. BufferSize - 2
          BY <2>1, <3>1, <3>3, <4>3, FrameBufferAssumption DEF GreatInv
        <5>2. \/ greatLevel' = Percentage(FrameCount')
              \/ greatLevel' = Percentage(FrameCount' - 1)
          <6> HIDE DEF FrameCount
          <6> QED BY <3>3, <4>1, <4>3, <5>1 DEF GreatInv
        <5> QED
          BY <3>1, <5>1, <5>2 DEF GreatInv
      <4> QED
        BY <4>2, <4>3
    <3> QED
      BY <2>1, <3>2, <3>3
  <2>4. CASE PopElement
    BY <2>4 DEF PopElement, GreatInv
  <2>5. CASE PopFrame
    <3>1. CASE writeIndex \in {readIndex, NextIndex(readIndex)}
      BY <2>5, <3>1 DEF PopFrame, GreatInv
    <3>2. CASE writeIndex \notin {readIndex, NextIndex(readIndex)}
      <4>1. /\ readIndex' # writeIndex'
            /\ lastFrameBufferAction' = "pop"
            /\ FrameCount > 1
            /\ FrameCount' = FrameCount - 1
        BY <2>1, <2>5, <3>2, PopCount DEF PopFrame, UpdateLevel
      <4>2. FrameCount' \in 1 .. BufferSize - 2
        BY <2>1, <3>2, <4>1, FrameBufferAssumption
      <4>3. greatLevel' \in {Percentage(FrameCount'), Percentage(FrameCount' + 1)}
        <5>1. CASE lastFrameBufferAction = "pop"
          BY <2>5, <3>2, <5>1 DEF PopFrame, UpdateLevel
        <5>2. CASE lastFrameBufferAction = "push"
          <6>1. greatLevel' = greatLevel
            BY <2>5, <3>2, <5>2 DEF PopFrame, UpdateLevel
          <6>2. \/ greatLevel = Percentage(FrameCount)
                \/ greatLevel = Percentage(FrameCount - 1)
            BY <3>2, <5>2 DEF GreatInv
          <6>3. FrameCount = FrameCount' + 1
            BY <4>1, <4>2, <2>1, <3>2
          <6> HIDE DEF FrameCount
          <6> QED BY <4>1, <6>1, <6>2, <6>3
        <5> QED
          BY <2>1, <5>1, <5>2
      <4> QED
        BY <4>1, <4>2, <4>3, FrameBufferAssumption DEF GreatInv
    <3> QED
      BY <3>1, <3>2
  <2>6. CASE UNCHANGED vars
    BY <2>6 DEF vars, GreatInv
  <2> QED
    BY <2>2, <2>3, <2>4, <2>5, <2>6 DEF Next
<1>3. TypeOK /\ GreatInv => GreatLevelFollows
  <2> SUFFICES ASSUME TypeOK, GreatInv, readIndex # writeIndex
               PROVE  \E count \in FrameCount - 1 .. FrameCount + 1 :
                        /\ count \in 1 .. BufferSize - 1
                        /\ greatLevel = Percentage(count)
    BY DEF GreatLevelFollows
  <2>1. FrameCount \in 1 .. BufferSize - 1
    BY CountInRange DEF TypeOK, FrameCount
  <2>2. lastFrameBufferAction \in {"push", "pop"}
    BY DEF TypeOK
  <2>3. CASE lastFrameBufferAction = "push"
    BY <2>1, <2>3, FrameBufferAssumption DEF GreatInv
  <2>4. CASE lastFrameBufferAction = "pop"
    BY <2>1, <2>4, FrameBufferAssumption DEF GreatInv
  <2> QED
    BY <2>2, <2>3, <2>4
<1> QED
  BY <1>1, <1>2, <1>3, TypeCorrect, PTL DEF Spec

-----------------------------------------------------------------------------
(* The ring as a queue of frames *)

\* A function on 1 to n is a list of n elements.
LEMMA ListOf ==
  ASSUME NEW S, NEW n \in Nat, NEW f \in [1 .. n -> S]
  PROVE  f \in Seq(S) /\ Len(f) = n /\ f = [i \in 1 .. n |-> f[i]]
OBVIOUS

\* The place in the ring of the i-th whole frame from position r on.
Slot(r, i) == (r + i - 1) % BufferSize

\* The slots of the whole frames: in the ring, none of them the written one.
LEMMA SlotFacts ==
  ASSUME NEW r \in Indices, NEW w \in Indices
  PROVE  /\ CountBetween(r, w) \in 0 .. BufferSize - 1
         /\ \A i \in 1 .. CountBetween(r, w) : Slot(r, i) \in Indices /\ Slot(r, i) # w
         /\ Slot(r, 1) = r
         /\ Slot(r, CountBetween(r, w) + 1) = w
         /\ \A i \in 1 .. BufferSize : Slot(NextIndex(r), i) = Slot(r, i + 1)
         /\ CountBetween(r, w) = 0 <=> r = w
         /\ CountBetween(r, w) = 1 <=> w = NextIndex(r)
         /\ CountBetween(r, w) = BufferSize - 1 <=> r = NextIndex(w)
<1> DEFINE b == BufferSize
<1>1. b \in Nat /\ b > 2 /\ r \in 0 .. b - 1 /\ w \in 0 .. b - 1
  BY FrameBufferAssumption DEF Indices
<1>2. \A k \in 0 .. 2 * b - 1 : k % b = IF k < b THEN k ELSE k - b
  <2> HIDE DEF b
  <2> SUFFICES ASSUME NEW k \in 0 .. 2 * b - 1 PROVE k % b = IF k < b THEN k ELSE k - b
    OBVIOUS
  <2>1. CASE k < b
    BY <1>1, <2>1
  <2>2. CASE ~(k < b)
    <3>1. k - b \in 0 .. b - 1 /\ k = (k - b) + b
      BY <1>1, <2>2
    <3>2. (k - b) % b = k - b
      BY <1>1, <3>1
    <3>3. ((k - b) + b) % b = (k - b) % b
      BY <1>1, <3>1
    <3> QED
      BY <2>2, <3>1, <3>2, <3>3
  <2> QED
    BY <2>1, <2>2
<1> DEFINE count == CountBetween(r, w)
<1>3. count = (IF w < r THEN w - r + b ELSE w - r) /\ count \in 0 .. b - 1
  BY <1>1 DEF CountBetween
<1>4. /\ NextIndex(r) = (IF r = b - 1 THEN 0 ELSE r + 1)
      /\ NextIndex(w) = (IF w = b - 1 THEN 0 ELSE w + 1)
  BY NextIndexInRing
<1>5. ASSUME NEW i \in 1 .. b + 1, NEW k \in 0 .. b - 1, k + i - 1 < 2 * b
      PROVE  Slot(k, i) = IF k + i - 1 < b THEN k + i - 1 ELSE k + i - 1 - b
  <2> HIDE DEF b
  <2>1. k + i - 1 \in 0 .. 2 * b - 1 /\ b \in Nat /\ k \in Nat /\ i \in Nat
    BY <1>1, <1>5
  <2>2. Slot(k, i) = (k + i - 1) % b
    BY DEF Slot, b
  <2>3. PICK m \in 0 .. 2 * b - 1 : m = k + i - 1
    BY <2>1
  <2>4. m % b = IF m < b THEN m ELSE m - b
    BY <1>2
  <2>5. Slot(k, i) = m % b
    BY <2>2, <2>3
  <2> QED
    BY <2>1, <2>3, <2>4, <2>5
<1> HIDE DEF b, count
<1>6. ASSUME NEW i \in 1 .. count
      PROVE  Slot(r, i) \in 0 .. b - 1 /\ Slot(r, i) # w
  <2>1. i \in 1 .. b + 1 /\ r + i - 1 < 2 * b
    BY <1>1, <1>3, <1>6
  <2>2. Slot(r, i) = IF r + i - 1 < b THEN r + i - 1 ELSE r + i - 1 - b
    BY <1>1, <1>5, <2>1
  <2> QED
    BY <1>1, <1>3, <1>6, <2>2
<1>7. Slot(r, 1) = r
  <2>1. 1 \in 1 .. b + 1 /\ r + 1 - 1 < 2 * b
    BY <1>1
  <2> QED
    BY <1>1, <1>5, <2>1
<1>8. Slot(r, count + 1) = w
  <2>1. count + 1 \in 1 .. b + 1 /\ r + (count + 1) - 1 < 2 * b
    BY <1>1, <1>3
  <2>2. Slot(r, count + 1) = IF r + (count + 1) - 1 < b THEN r + (count + 1) - 1
                             ELSE r + (count + 1) - 1 - b
    BY <1>1, <1>5, <2>1
  <2> QED
    BY <1>1, <1>3, <2>2
<1>9. ASSUME NEW i \in 1 .. b
      PROVE  Slot(NextIndex(r), i) = Slot(r, i + 1)
  <2> DEFINE k == NextIndex(r)
  <2>1. /\ k \in 0 .. b - 1 /\ i \in 1 .. b + 1 /\ k + i - 1 < 2 * b
        /\ i + 1 \in 1 .. b + 1 /\ r + (i + 1) - 1 < 2 * b
    BY <1>1, <1>4
  <2>2. k = IF r = b - 1 THEN 0 ELSE r + 1
    BY <1>4
  <2> HIDE DEF k
  <2>3. Slot(k, i) = IF k + i - 1 < b THEN k + i - 1 ELSE k + i - 1 - b
    BY <1>5, <2>1
  <2>4. Slot(r, i + 1) = IF r + (i + 1) - 1 < b THEN r + (i + 1) - 1
                         ELSE r + (i + 1) - 1 - b
    BY <1>1, <1>5, <2>1
  <2>5. Slot(k, i) = Slot(r, i + 1)
    BY <1>1, <2>2, <2>3, <2>4
  <2> QED
    BY <2>5 DEF k
<1>10. /\ count = 0 <=> r = w
       /\ count = 1 <=> w = NextIndex(r)
       /\ count = b - 1 <=> r = NextIndex(w)
  BY <1>1, <1>3, <1>4
<1> QED
  BY <1>3, <1>6, <1>7, <1>8, <1>9, <1>10 DEF b, count, Indices

\* The whole frames of a ring, from position r to before position w.
Waiting(ring, r, w) == [i \in 1 .. CountBetween(r, w) |-> ring[Slot(r, i)]]

\* The k elements of n that a frame was filled with.
Begun(frame, k, n) == [i \in 1 .. Smaller(k, n) |-> frame[i - 1]]

\* A list that holds the n frames of a ring from position r on.
Holds(list, S, ring, r, n) ==
  /\ list \in Seq(S) /\ Len(list) = n
  /\ n \in 0 .. BufferSize - 1
  /\ \A i \in 1 .. n : list[i] = ring[Slot(r, i)]

\* A list that holds the first n elements of a frame.
Filled(list, S, frame, n) ==
  list \in Seq(S) /\ Len(list) = n /\ \A i \in 1 .. n : list[i] = frame[i - 1]

\* They are a list.
LEMMA WaitingIsAList ==
  ASSUME NEW S, NEW ring \in [Indices -> S], NEW r \in Indices, NEW w \in Indices
  PROVE  Holds(Waiting(ring, r, w), S, ring, r, CountBetween(r, w))
<1>1. /\ CountBetween(r, w) \in 0 .. BufferSize - 1
      /\ \A i \in 1 .. CountBetween(r, w) : Slot(r, i) \in Indices
  BY SlotFacts
<1> DEFINE list == Waiting(ring, r, w)
           n == CountBetween(r, w)
<1>2. list \in [1 .. n -> S] /\ \A i \in 1 .. n : list[i] = ring[Slot(r, i)]
  BY <1>1 DEF Waiting
<1>3. n \in Nat
  BY <1>1, FrameBufferAssumption
<1> HIDE DEF list, n
<1>4. list \in Seq(S) /\ Len(list) = n
  BY <1>2, <1>3, ListOf
<1> QED
  BY <1>1, <1>2, <1>4 DEF Holds, list, n

\* And so are these.
LEMMA BegunIsAList ==
  ASSUME NEW S, NEW n \in Nat, NEW frame \in [0 .. n - 1 -> S], NEW k \in Nat
  PROVE  Filled(Begun(frame, k, n), S, frame, Smaller(k, n))
<1> DEFINE list == Begun(frame, k, n)
           m == Smaller(k, n)
<1>1. m \in 0 .. n /\ m \in Nat
  BY DEF Smaller
<1> HIDE DEF m
<1>2. \A i \in 1 .. m : i - 1 \in 0 .. n - 1
  BY <1>1
<1>3. list \in [1 .. m -> S] /\ \A i \in 1 .. m : list[i] = frame[i - 1]
  BY <1>2 DEF Begun, m
<1> HIDE DEF list
<1>4. list \in Seq(S) /\ Len(list) = m
  BY <1>1, <1>3, ListOf
<1> QED
  BY <1>3, <1>4 DEF Filled, list, m

\* pushFrame(): the frame that was filled is whole; a full ring forgets the oldest.
LEMMA WaitingPushed ==
  ASSUME NEW S, NEW ring \in [Indices -> S], NEW r \in Indices, NEW w \in Indices
  PROVE  LET list == Waiting(ring, r, w)
         IN  IF r = NextIndex(w)
             THEN /\ Len(list) = BufferSize - 1
                  /\ Waiting(ring, NextIndex(r), NextIndex(w)) = Append(Tail(list), ring[w])
             ELSE /\ Len(list) # BufferSize - 1
                  /\ Waiting(ring, r, NextIndex(w)) = Append(list, ring[w])
<1> DEFINE list == Waiting(ring, r, w)
           n == CountBetween(r, w)
           q == IF r = NextIndex(w) THEN NextIndex(r) ELSE r
           longer == Waiting(ring, q, NextIndex(w))
           m == CountBetween(q, NextIndex(w))
<1>1. /\ list \in Seq(S) /\ Len(list) = n /\ n \in Nat /\ n <= BufferSize - 1
      /\ \A i \in 1 .. n : list[i] = ring[Slot(r, i)]
      /\ ring[w] \in S
  <2>1. Holds(list, S, ring, r, n)
    BY WaitingIsAList
  <2> HIDE DEF list, n
  <2> QED
    BY <2>1, FrameBufferAssumption DEF Holds
<1>2. q \in Indices /\ NextIndex(w) \in Indices
  BY NextIndexInRing
<1>3. longer \in Seq(S) /\ Len(longer) = m /\ \A i \in 1 .. m : longer[i] = ring[Slot(q, i)]
  <2> HIDE DEF q
  <2>1. Holds(longer, S, ring, q, m)
    BY <1>2, WaitingIsAList
  <2> HIDE DEF longer, m
  <2> QED
    BY <2>1 DEF Holds
<1>4. n = BufferSize - 1 <=> r = NextIndex(w)
  BY SlotFacts
<1>5. m = IF n = BufferSize - 1 THEN n ELSE n + 1
  <2>1. m = IF r = w THEN 1 ELSE IF n = BufferSize - 1 THEN BufferSize - 1 ELSE n + 1
    BY PushCount
  <2>2. r = w => n = 0
    BY SlotFacts
  <2> HIDE DEF m, n
  <2> QED
    BY <1>1, <2>1, <2>2, FrameBufferAssumption
<1>6. Slot(r, n + 1) = w
  BY SlotFacts
<1>7. CASE r = NextIndex(w)
  <2>1. \A i \in 1 .. BufferSize : Slot(q, i) = Slot(r, i + 1)
    BY <1>7, SlotFacts
  <2> HIDE DEF m, n, q, longer, list
  <2>2. n = BufferSize - 1 /\ m = n /\ n > 1
    BY <1>4, <1>5, <1>7, FrameBufferAssumption
  <2>3. list # <<>>
    BY <1>1, <2>2, EmptySeq
  <2> DEFINE rest == Tail(list)
             more == Append(rest, ring[w])
  <2>4. /\ rest \in Seq(S) /\ Len(rest) = n - 1
        /\ \A i \in 1 .. n - 1 : rest[i] = list[i + 1]
    BY <1>1, <2>3, HeadTailProperties
  <2> HIDE DEF rest
  <2>5. /\ more \in Seq(S) /\ Len(more) = (n - 1) + 1 /\ more[(n - 1) + 1] = ring[w]
        /\ \A i \in 1 .. n - 1 : more[i] = rest[i]
    BY <1>1, <2>4, AppendProperties
  <2> HIDE DEF more
  <2>6. ASSUME NEW i \in 1 .. n PROVE longer[i] = more[i]
    <3>1. longer[i] = ring[Slot(r, i + 1)]
      <4>1. i \in 1 .. m /\ i \in 1 .. BufferSize
        BY <1>1, <2>2, FrameBufferAssumption
      <4>2. longer[i] = ring[Slot(q, i)]
        BY <1>3, <4>1
      <4>3. Slot(q, i) = Slot(r, i + 1)
        BY <2>1, <4>1
      <4> QED
        BY <4>2, <4>3
    <3>2. CASE i = n
      BY <1>1, <1>6, <2>5, <3>1, <3>2
    <3>3. CASE i # n
      <4>1. i \in 1 .. n - 1 /\ i + 1 \in 1 .. n
        BY <1>1, <3>3
      <4> QED
        BY <1>1, <2>4, <2>5, <3>1, <4>1
    <3> QED
      BY <3>2, <3>3
  <2>7. Len(more) = n /\ Len(longer) = n
    BY <1>1, <1>3, <2>2, <2>5
  <2>8. longer = more
    BY <1>3, <2>5, <2>6, <2>7, SeqEqual
  <2> QED
    BY <1>1, <1>7, <2>2, <2>8 DEF more, rest, longer, q, list
<1>8. CASE r # NextIndex(w)
  <2>1. q = r
    BY <1>8
  <2> HIDE DEF m, n, q, longer, list
  <2>2. n # BufferSize - 1 /\ m = n + 1
    BY <1>4, <1>5, <1>8
  <2> DEFINE more == Append(list, ring[w])
  <2>3. /\ more \in Seq(S) /\ Len(more) = n + 1 /\ more[n + 1] = ring[w]
        /\ \A i \in 1 .. n : more[i] = list[i]
    BY <1>1, AppendProperties
  <2> HIDE DEF more
  <2>4. ASSUME NEW i \in 1 .. n + 1 PROVE longer[i] = more[i]
    <3>1. longer[i] = ring[Slot(r, i)]
      BY <1>3, <2>1, <2>2
    <3>2. i \in 1 .. n \/ i = n + 1
      BY <1>1
    <3> QED
      BY <1>1, <1>6, <2>3, <3>1, <3>2
  <2>5. longer = more
    BY <1>3, <2>2, <2>3, <2>4, SeqEqual
  <2> QED
    BY <1>1, <1>8, <2>2, <2>5 DEF more, longer, q, list
<1> QED
  BY <1>7, <1>8

\* popFrame(): the oldest frame leaves.
LEMMA WaitingPopped ==
  ASSUME NEW S, NEW ring \in [Indices -> S], NEW r \in Indices, NEW w \in Indices,
         w \notin {r, NextIndex(r)}
  PROVE  /\ Len(Waiting(ring, r, w)) > 1
         /\ Waiting(ring, NextIndex(r), w) = Tail(Waiting(ring, r, w))
<1> DEFINE list == Waiting(ring, r, w)
           n == CountBetween(r, w)
           rest == Waiting(ring, NextIndex(r), w)
           m == CountBetween(NextIndex(r), w)
<1>1. /\ list \in Seq(S) /\ Len(list) = n /\ n \in Nat /\ n <= BufferSize - 1
      /\ \A i \in 1 .. n : list[i] = ring[Slot(r, i)]
  <2>1. Holds(list, S, ring, r, n)
    BY WaitingIsAList
  <2> HIDE DEF list, n
  <2> QED
    BY <2>1, FrameBufferAssumption DEF Holds
<1>2. NextIndex(r) \in Indices
  BY NextIndexInRing
<1>3. rest \in Seq(S) /\ Len(rest) = m /\ \A i \in 1 .. m : rest[i] = ring[Slot(NextIndex(r), i)]
  <2>1. Holds(rest, S, ring, NextIndex(r), m)
    BY <1>2, WaitingIsAList
  <2> HIDE DEF rest, m
  <2> QED
    BY <2>1 DEF Holds
<1>4. n > 1 /\ m = n - 1
  BY PopCount
<1>5. \A i \in 1 .. BufferSize : Slot(NextIndex(r), i) = Slot(r, i + 1)
  BY SlotFacts
<1> HIDE DEF list, n, rest, m
<1>6. list # <<>>
  BY <1>1, <1>4, EmptySeq
<1>7. /\ Tail(list) \in Seq(S) /\ Len(Tail(list)) = n - 1
      /\ \A i \in 1 .. n - 1 : Tail(list)[i] = list[i + 1]
  BY <1>1, <1>6, HeadTailProperties
<1>8. ASSUME NEW i \in 1 .. n - 1 PROVE rest[i] = Tail(list)[i]
  <2>1. i \in 1 .. BufferSize /\ i + 1 \in 1 .. n
    BY <1>1, FrameBufferAssumption
  <2> QED
    BY <1>1, <1>3, <1>4, <1>5, <1>7, <2>1
<1>9. rest = Tail(list)
  BY <1>3, <1>4, <1>7, <1>8, SeqEqual
<1> QED
  BY <1>1, <1>4, <1>9 DEF list, n, rest

\* A write outside these frames leaves them alone.
LEMMA WaitingKept ==
  ASSUME NEW ring, NEW other, NEW r \in Indices, NEW w \in Indices,
         \A i \in Indices : i # w => other[i] = ring[i]
  PROVE  Waiting(other, r, w) = Waiting(ring, r, w)
<1>1. \A i \in 1 .. CountBetween(r, w) : Slot(r, i) \in Indices /\ Slot(r, i) # w
  BY SlotFacts
<1> QED
  BY <1>1 DEF Waiting

\* No frame is whole in an empty ring, no element is there before the first.
LEMMA NothingYet ==
  /\ \A ring, r : r \in Indices => Waiting(ring, r, r) = <<>>
  /\ \A frame, n : n \in Nat => Begun(frame, 0, n) = <<>>
<1>1. ASSUME NEW ring, NEW r \in Indices PROVE Waiting(ring, r, r) = <<>>
  <2>1. 1 .. CountBetween(r, r) = {}
    BY <1>1, FrameBufferAssumption DEF CountBetween, Indices
  <2> QED
    BY <2>1 DEF Waiting
<1>2. ASSUME NEW frame, NEW n \in Nat PROVE Begun(frame, 0, n) = <<>>
  <2>1. 1 .. Smaller(0, n) = {}
    BY DEF Smaller
  <2> QED
    BY <2>1 DEF Begun
<1> QED
  BY <1>1, <1>2

\* Element k of a frame, its next one, becomes e.
OneMore(frame, k, n, e) ==
  /\ Len(Begun(frame, k, n)) < n
  /\ Begun([frame EXCEPT ![k] = e], k + 1, n) = Append(Begun(frame, k, n), e)

\* pushElement() adds to the elements of the frame that is being filled.
LEMMA BegunMore ==
  ASSUME NEW S, NEW n \in Nat, NEW frame \in [0 .. n - 1 -> S], NEW k \in 0 .. n - 1,
         NEW e \in S
  PROVE  OneMore(frame, k, n, e)
<1> DEFINE new == [frame EXCEPT ![k] = e]
           list == Begun(frame, k, n)
           longer == Begun(new, k + 1, n)
           more == Append(list, e)
<1>1. Smaller(k, n) = k /\ Smaller(k + 1, n) = k + 1 /\ k \in Nat /\ k + 1 \in Nat
  BY DEF Smaller
<1>2. new \in [0 .. n - 1 -> S] /\ new[k] = e /\ \A i \in 0 .. n - 1 : i # k => new[i] = frame[i]
  OBVIOUS
<1>3. /\ list \in Seq(S) /\ Len(list) = k /\ \A i \in 1 .. k : list[i] = frame[i - 1]
  <2>1. Filled(list, S, frame, k)
    BY <1>1, BegunIsAList
  <2> HIDE DEF list
  <2> QED
    BY <2>1 DEF Filled
<1> HIDE DEF new
<1>4. /\ longer \in Seq(S) /\ Len(longer) = k + 1
      /\ \A i \in 1 .. k + 1 : longer[i] = new[i - 1]
  <2>1. Filled(longer, S, new, k + 1)
    BY <1>1, <1>2, BegunIsAList
  <2> HIDE DEF longer
  <2> QED
    BY <2>1 DEF Filled
<1> HIDE DEF list, longer
<1>5. /\ more \in Seq(S) /\ Len(more) = k + 1 /\ more[k + 1] = e
      /\ \A i \in 1 .. k : more[i] = list[i]
  BY <1>3, AppendProperties
<1> HIDE DEF more
<1>6. ASSUME NEW i \in 1 .. k + 1 PROVE longer[i] = more[i]
  <2>1. CASE i = k + 1
    BY <1>1, <1>2, <1>4, <1>5, <2>1
  <2>2. CASE i # k + 1
    <3>1. i \in 1 .. k /\ i - 1 \in 0 .. n - 1 /\ i - 1 # k
      BY <2>2
    <3> QED
      BY <1>2, <1>3, <1>4, <1>5, <3>1
  <2> QED
    BY <2>1, <2>2
<1>7. longer = more
  BY <1>4, <1>5, <1>6, SeqEqual
<1>8. Len(list) < n
  BY <1>3
<1> QED
  BY <1>7, <1>8 DEF OneMore, list, longer, more, new

WholeFrames == Waiting(frames, readIndex, writeIndex)
NewFrame == Begun(frames[writeIndex], elementWriteIndex, elementsPerFrame)

\* Every step of the ring is a step of a bounded queue of frames, or nobody sees it.
LEMMA RingRefines ==
  ASSUME TypeOK, TypeOK', [Next]_vars
  PROVE  [BF!Next]_(BF!framesVars)
<1> USE DEF indexVars
<1> DEFINE n == elementsPerFrame
           S == [0 .. n - 1 -> Contents]
           w == writeIndex
           r == readIndex
<1>1. /\ frames \in [Indices -> S] /\ r \in Indices /\ w \in Indices /\ n \in Nat
      /\ elementReadIndex \in Nat /\ elementWriteIndex \in Nat
      /\ frames[w] \in S /\ frames[r] \in S
  BY FrameBufferAssumption DEF TypeOK
<1>2. /\ WholeFrames \in Seq(S) /\ Len(WholeFrames) = CountBetween(r, w)
      /\ CountBetween(r, w) \in 0 .. BufferSize - 1
      /\ \A i \in 1 .. CountBetween(r, w) : WholeFrames[i] = frames[Slot(r, i)]
  <2>1. Holds(WholeFrames, S, frames, r, CountBetween(r, w))
    BY <1>1, WaitingIsAList DEF WholeFrames
  <2> HIDE DEF S
  <2> QED
    BY <2>1 DEF Holds
<1>3. CASE PushFrame
  <2>1. /\ UNCHANGED <<frames, elementsPerFrame, elementReadIndex, popped>>
        /\ elementWriteIndex' = 0 /\ w' = NextIndex(w)
        /\ r' = IF r = NextIndex(w) THEN NextIndex(r) ELSE r
    BY <1>3 DEF PushFrame
  <2>2. WholeFrames' = IF Len(WholeFrames) = BufferSize - 1
                       THEN Append(Tail(WholeFrames), frames[w])
                       ELSE Append(WholeFrames, frames[w])
    BY <1>1, <2>1, WaitingPushed DEF WholeFrames
  <2>3. NewFrame' = <<>>
    BY <1>1, <2>1, NothingYet DEF NewFrame
  <2>4. \A i \in 1 .. Len(NewFrame) : frames[w][i - 1] = NewFrame[i]
    <3>1. Filled(NewFrame, Contents, frames[w], Smaller(elementWriteIndex, n))
      BY <1>1, BegunIsAList DEF NewFrame
    <3> QED
      BY <3>1 DEF Filled
  <2>5. frames[w] \in BF!FramesOf(n)
    BY <1>1 DEF BF!FramesOf, BF!Contents, Contents
  <2>6. BF!Complete
    BY <2>1, <2>2, <2>3, <2>4, <2>5
       DEF BF!Complete, WholeFrames, NewFrame, Waiting, Begun, Slot, FrameCount
  <2> QED
    BY <2>6 DEF BF!Next
<1>4. ASSUME NEW e \in Elements, PushElement(e) PROVE BF!Next
  <2>1. /\ UNCHANGED <<elementsPerFrame, readIndex, writeIndex, elementReadIndex, popped>>
        /\ elementWriteIndex \in 0 .. n - 1 /\ elementWriteIndex' = elementWriteIndex + 1
        /\ frames' = [frames EXCEPT ![w] = [frames[w] EXCEPT ![elementWriteIndex] = e]]
    BY <1>1, <1>4 DEF PushElement
  <2>2. WholeFrames' = WholeFrames
    <3> PICK new : new = frames'
      OBVIOUS
    <3>1. \A i \in Indices : i # w => new[i] = frames[i]
      BY <1>1, <2>1
    <3>2. Waiting(new, r, w) = Waiting(frames, r, w)
      BY <1>1, <3>1, WaitingKept
    <3> QED
      BY <2>1, <3>2 DEF WholeFrames
  <2>3. NewFrame' = Append(NewFrame, e) /\ Len(NewFrame) < n
    <3>1. frames'[w] = [frames[w] EXCEPT ![elementWriteIndex] = e]
      BY <1>1, <2>1
    <3>2. e \in Contents
      BY DEF Contents
    <3> DEFINE old == frames[w]
               k == elementWriteIndex
    <3>3. old \in [0 .. n - 1 -> Contents] /\ k \in 0 .. n - 1
      BY <1>1, <2>1
    <3>4. NewFrame = Begun(old, k, n) /\ NewFrame' = Begun([old EXCEPT ![k] = e], k + 1, n)
      BY <2>1, <3>1 DEF NewFrame
    <3> HIDE DEF old, k, w
    <3>5. OneMore(old, k, n, e)
      BY <1>1, <3>2, <3>3, BegunMore
    <3> QED
      BY <3>4, <3>5 DEF OneMore
  <2>4. BF!Fill(e)
    BY <2>1, <2>2, <2>3
       DEF BF!Fill, WholeFrames, NewFrame, Waiting, Begun, Slot, FrameCount
  <2> QED
    BY <2>4 DEF BF!Next
<1>5. CASE PopElement
  <2>1. /\ UNCHANGED <<frames, elementsPerFrame, readIndex, writeIndex, elementWriteIndex>>
    BY <1>5 DEF PopElement
  <2>2. CASE elementReadIndex < n
    <3>1. popped' = frames[r][elementReadIndex] /\ elementReadIndex' = elementReadIndex + 1
      BY <1>5, <2>2 DEF PopElement
    <3>2. popped' \in BF!Contents
      BY <1>1, <2>2, <3>1 DEF BF!Contents, Contents
    <3>3. ASSUME WholeFrames # <<>> PROVE popped' = Head(WholeFrames)[elementReadIndex]
      <4>1. CountBetween(r, w) # 0 /\ Head(WholeFrames) = WholeFrames[1]
        BY <1>2, <3>3, EmptySeq
      <4>2. 1 \in 1 .. CountBetween(r, w)
        BY <1>2, <4>1, FrameBufferAssumption
      <4>3. Slot(r, 1) = r
        BY <1>1, SlotFacts
      <4> QED
        BY <1>2, <3>1, <4>1, <4>2, <4>3
    <3>4. BF!Read
      BY <2>1, <2>2, <3>1, <3>2, <3>3
         DEF BF!Read, WholeFrames, Waiting, Slot, FrameCount
    <3> QED
      BY <3>4 DEF BF!Next
  <2>3. CASE ~(elementReadIndex < n)
    <3>1. popped' = Blank /\ UNCHANGED elementReadIndex /\ elementReadIndex >= n
      BY <1>1, <1>5, <2>3 DEF PopElement
    <3>2. BF!ReadPastTheEnd
      BY <2>1, <3>1 DEF BF!ReadPastTheEnd, FrameCount
    <3> QED
      BY <3>2 DEF BF!Next
  <2> QED
    BY <2>2, <2>3
<1>6. CASE PopFrame
  <2>1. /\ UNCHANGED <<frames, elementsPerFrame, writeIndex, elementWriteIndex, popped>>
        /\ elementReadIndex' = 0
        /\ r' = IF w \notin {r, NextIndex(r)} THEN NextIndex(r) ELSE r
    BY <1>6 DEF PopFrame
  <2>2. WholeFrames' = IF Len(WholeFrames) > 1 THEN Tail(WholeFrames) ELSE WholeFrames
    <3>1. CASE w \notin {r, NextIndex(r)}
      BY <1>1, <2>1, <3>1, WaitingPopped DEF WholeFrames
    <3>2. CASE w \in {r, NextIndex(r)}
      <4>1. CountBetween(r, w) = 0 \/ CountBetween(r, w) = 1
        BY <1>1, <3>2, SlotFacts
      <4>2. ~(Len(WholeFrames) > 1)
        BY <1>2, <4>1
      <4>3. WholeFrames' = WholeFrames
        BY <2>1, <3>2 DEF WholeFrames
      <4> QED
        BY <4>2, <4>3
    <3> QED
      BY <3>1, <3>2
  <2>3. NewFrame' = NewFrame
    BY <2>1 DEF NewFrame
  <2>4. BF!NextFrame
    BY <2>1, <2>2, <2>3
       DEF BF!NextFrame, WholeFrames, NewFrame, Waiting, Begun, Slot, FrameCount
  <2> QED
    BY <2>4 DEF BF!Next
<1>7. ASSUME NEW m \in Counts, UpdateElementsPerFrame(m) PROVE BF!Next
  <2>1. /\ UNCHANGED <<elementReadIndex, elementWriteIndex, popped>>
        /\ elementsPerFrame' = m /\ frames' = FreshFrames(m) /\ r' = 0 /\ w' = 0
        /\ 0 \in Indices /\ m \in Nat
    BY <1>7, FrameBufferAssumption DEF UpdateElementsPerFrame, Indices
  <2>2. WholeFrames' = <<>>
    BY <2>1, NothingYet DEF WholeFrames
  <2> DEFINE k == Smaller(elementWriteIndex, m)
  <2>3. k \in 0 .. m
    BY <1>1, <2>1 DEF Smaller
  <2>4. NewFrame' = [i \in 1 .. k |-> Blank]
    <3>1. frames'[0] = [j \in 0 .. m - 1 |-> Blank]
      BY <2>1 DEF FreshFrames
    <3>2. NewFrame' = [i \in 1 .. k |-> frames'[0][i - 1]]
      BY <2>1 DEF NewFrame, Begun
    <3>3. \A i \in 1 .. k : i - 1 \in 0 .. m - 1
      BY <2>1, <2>3
    <3> HIDE DEF k
    <3> QED
      BY <3>1, <3>2, <3>3
  <2> HIDE DEF k
  <2>5. BF!Resize(m)
    BY <2>1, <2>2, <2>3, <2>4
       DEF BF!Resize, WholeFrames, NewFrame, Waiting, Begun, Slot, FrameCount
  <2>6. m \in InitialCounts \union Counts
    OBVIOUS
  <2> QED
    BY <2>5, <2>6 DEF BF!Next
<1>8. CASE UNCHANGED vars
  BY <1>8 DEF vars, BF!framesVars, FrameCount
<1> QED
  BY <1>3, <1>4, <1>5, <1>6, <1>7, <1>8 DEF Next

\* The ring with its four indices is a bounded queue of whole frames: it drops the
\* oldest, keeps the last and never shows a frame that is being filled, for every
\* size of the ring and of the frames (FrameBuffer.cpp, all five methods).
THEOREM RingIsBoundedFrames == Spec => ImplementsBoundedFrames
<1>1. Init => BF!Init
  <2> SUFFICES ASSUME Init PROVE BF!Init
    OBVIOUS
  <2>1. /\ elementsPerFrame \in InitialCounts \union Counts /\ elementReadIndex = 0
        /\ popped = Blank /\ readIndex = 0 /\ writeIndex = 0 /\ elementWriteIndex = 0
        /\ elementsPerFrame \in Nat /\ 0 \in Indices
    BY FrameBufferAssumption DEF Init, Indices
  <2>2. WholeFrames = <<>> /\ NewFrame = <<>>
    BY <2>1, NothingYet DEF WholeFrames, NewFrame
  <2> QED
    BY <2>1, <2>2
       DEF BF!Init, WholeFrames, NewFrame, Waiting, Begun, Slot, FrameCount
<1> QED
  BY <1>1, TypeCorrect, RingRefines, PTL DEF Spec, ImplementsBoundedFrames, BF!Spec

-----------------------------------------------------------------------------
(* The stream of frames *)

Messages == FrameMessages \union CountMessages

\* The ring can be filled with the images of the stream and resized to its counts.
RingSuitsStream ==
  /\ SphereImages \subseteq Elements
  /\ 0 .. MaxSpheres \subseteq Counts

\* What the channel carries, and the numbers the messages are made of.
ChannelTyped ==
  /\ spheres \in 0 .. MaxSpheres
  /\ serverFrame \in 0 .. MaxFrames
  /\ toClient \in Seq(Messages)

\* The two kinds of messages and what they contain.
LEMMA MessageFacts ==
  ASSUME NEW m \in Messages
  PROVE  /\ m.kind = "sendFrame" => m \in FrameMessages /\ m.image \in SphereImages
                                      /\ m = FrameMessage(m.image)
         /\ m.kind # "sendFrame" => m \in CountMessages /\ m.count \in 0 .. MaxSpheres
                                      /\ m.kind = "sphereCount"
BY DEF Messages, FrameMessages, CountMessages, FrameMessage, CountMessage

\* The head and the rest of a channel that is not empty.
LEMMA HeadFacts ==
  ASSUME NEW c \in Seq(Messages), c # <<>>
  PROVE  /\ Len(c) \in Nat /\ Len(c) > 0 /\ Head(c) = c[1] /\ Head(c) \in Messages
         /\ Tail(c) \in Seq(Messages) /\ Len(Tail(c)) = Len(c) - 1
         /\ \A i \in 1 .. Len(c) - 1 : Tail(c)[i] = c[i + 1]
<1>1. Len(c) \in Nat \ {0}
  BY EmptySeq
<1>2. /\ Head(c) \in Messages /\ Tail(c) \in Seq(Messages) /\ Len(Tail(c)) = Len(c) - 1
      /\ \A i \in 1 .. Len(Tail(c)) : Tail(c)[i] = c[i + 1]
  BY HeadTailProperties
<1> QED
  BY <1>1, <1>2

\* A new frame is a list of messages, one per sphere.
LEMMA ImagesFacts ==
  ASSUME ChannelTyped, serverFrame < MaxFrames
  PROVE  /\ ImagesOf(serverFrame) \in Seq(Messages)
         /\ Len(ImagesOf(serverFrame)) = spheres
         /\ \A i \in 1 .. spheres : ImagesOf(serverFrame)[i] = FrameMessage(<<serverFrame, i - 1>>)
<1> DEFINE list == ImagesOf(serverFrame)
<1>1. spheres \in Nat /\ serverFrame \in 0 .. MaxFrames - 1 /\ MaxFrames \in Nat
      /\ MaxSpheres \in Nat /\ spheres <= MaxSpheres
  BY FrameStreamAssumption DEF ChannelTyped
<1>2. ASSUME NEW i \in 1 .. spheres
      PROVE  FrameMessage(<<serverFrame, i - 1>>) \in Messages
  <2>1. i - 1 \in 0 .. MaxSpheres - 1
    BY <1>1
  <2> QED
    BY <1>1, <2>1 DEF Messages, FrameMessages, SphereImages
<1>3. /\ list \in [1 .. spheres -> Messages]
      /\ \A i \in 1 .. spheres : list[i] = FrameMessage(<<serverFrame, i - 1>>)
  BY <1>2 DEF ImagesOf
<1> HIDE DEF list
<1>4. list \in Seq(Messages) /\ Len(list) = spheres
  BY <1>1, <1>3, ListOf
<1> QED
  BY <1>3, <1>4 DEF list

\* A channel without its i-th message.
Without(c, i) == SubSeq(c, 1, i - 1) \o SubSeq(c, i + 1, Len(c))

\* What is left keeps its order.
LEMMA WithoutFacts ==
  ASSUME NEW S, NEW c \in Seq(S), NEW i \in 1 .. Len(c)
  PROVE  /\ Without(c, i) \in Seq(S)
         /\ Len(Without(c, i)) = Len(c) - 1
         /\ \A p \in 1 .. Len(c) - 1 : Without(c, i)[p] = IF p < i THEN c[p] ELSE c[p + 1]
<1> DEFINE n == Len(c)
           front == SubSeq(c, 1, i - 1)
           back == SubSeq(c, i + 1, n)
           all == front \o back
<1>1. n \in Nat /\ i \in 1 .. n /\ \A p \in 1 .. n : c[p] \in S
  BY LenProperties, ElementOfSeq
<1> HIDE DEF n
<1>2. front \in Seq(S) /\ Len(front) = i - 1 /\ \A p \in 1 .. i - 1 : front[p] = c[p]
  <2>1. 1 \in Int /\ i - 1 \in Int /\ (\A p \in 1 .. i - 1 : c[p] \in S)
    BY <1>1
  <2>2. /\ front \in Seq(S)
        /\ Len(front) = IF 1 <= i - 1 THEN i - 1 - 1 + 1 ELSE 0
        /\ \A p \in 1 .. i - 1 - 1 + 1 : front[p] = c[1 + p - 1]
    BY <2>1, SubSeqProperties
  <2> HIDE DEF front
  <2> QED
    BY <1>1, <2>2
<1>3. back \in Seq(S) /\ Len(back) = n - i /\ \A p \in 1 .. n - i : back[p] = c[i + p]
  <2>1. i + 1 \in Int /\ n \in Int /\ (\A p \in i + 1 .. n : c[p] \in S)
    BY <1>1
  <2>2. /\ back \in Seq(S)
        /\ Len(back) = IF i + 1 <= n THEN n - (i + 1) + 1 ELSE 0
        /\ \A p \in 1 .. n - (i + 1) + 1 : back[p] = c[i + 1 + p - 1]
    BY <2>1, SubSeqProperties
  <2> HIDE DEF back
  <2> QED
    BY <1>1, <2>2
<1> HIDE DEF front, back
<1>4. /\ all \in Seq(S) /\ Len(all) = (i - 1) + (n - i)
      /\ \A p \in 1 .. (i - 1) + (n - i) :
           all[p] = IF p <= i - 1 THEN front[p] ELSE back[p - (i - 1)]
  <2>1. /\ all \in Seq(S) /\ Len(all) = Len(front) + Len(back)
        /\ \A p \in 1 .. Len(front) + Len(back) :
             all[p] = IF p <= Len(front) THEN front[p] ELSE back[p - Len(front)]
    BY <1>2, <1>3, ConcatProperties
  <2> HIDE DEF all
  <2> QED
    BY <1>2, <1>3, <2>1
<1> HIDE DEF all
<1>5. ASSUME NEW p \in 1 .. n - 1 PROVE all[p] = IF p < i THEN c[p] ELSE c[p + 1]
  <2>1. p \in 1 .. (i - 1) + (n - i)
    BY <1>1
  <2>2. CASE p < i
    BY <1>1, <1>2, <1>4, <2>1, <2>2
  <2>3. CASE ~(p < i)
    <3>1. p - (i - 1) \in 1 .. n - i /\ ~(p <= i - 1) /\ i + (p - (i - 1)) = p + 1
      BY <1>1, <2>3
    <3> QED
      BY <1>3, <1>4, <2>1, <2>3, <3>1
  <2> QED
    BY <2>2, <2>3
<1>6. Without(c, i) = all
  BY DEF Without, all, front, back, n
<1> QED
  BY <1>1, <1>4, <1>5, <1>6 DEF n

\* Sending, losing and receiving keep the channel typed.
LEMMA ChannelStep ==
  ASSUME ChannelTyped, [StreamNext]_streamVars
  PROVE  ChannelTyped'
<1> USE DEF ChannelTyped
<1>1. MaxFrames \in Nat /\ MaxSpheres \in Nat
  BY FrameStreamAssumption
<1>2. CASE PrepareFrame
  <2>1. /\ ImagesOf(serverFrame) \in Seq(Messages)
        /\ serverFrame' = serverFrame + 1 /\ serverFrame < MaxFrames
        /\ toClient' = toClient \o ImagesOf(serverFrame) /\ spheres' = spheres
    BY <1>2, ImagesFacts DEF PrepareFrame
  <2>2. toClient' \in Seq(Messages)
    BY <2>1, ConcatProperties
  <2> QED
    BY <1>1, <2>1, <2>2
<1>3. ASSUME NEW n \in 0 .. MaxSpheres, UpdateSphereCount(n) PROVE ChannelTyped'
  <2>1. CountMessage(n) \in Messages
    BY DEF Messages, CountMessages
  <2>2. toClient' = Append(toClient, CountMessage(n)) /\ spheres' = n /\ UNCHANGED serverFrame
    BY <1>3 DEF UpdateSphereCount
  <2>3. toClient' \in Seq(Messages)
    BY <2>1, <2>2, AppendProperties
  <2> QED
    BY <2>2, <2>3
<1>4. CASE Lose
  <2>1. PICK i \in DOMAIN toClient : toClient' = Without(toClient, i)
    BY <1>4 DEF Lose, Without
  <2>2. i \in 1 .. Len(toClient)
    BY <2>1, LenProperties
  <2>3. Without(toClient, i) \in Seq(Messages)
    BY <2>2, WithoutFacts
  <2>4. UNCHANGED <<spheres, serverFrame>>
    BY <1>4 DEF Lose, serverVars
  <2> QED
    BY <2>1, <2>3, <2>4
<1>5. CASE ReceiveSphere \/ ReceiveSphereCount
  <2>1. toClient' = Tail(toClient) /\ UNCHANGED <<spheres, serverFrame>>
    BY <1>5 DEF ReceiveSphere, ReceiveSphereCount, serverVars
  <2>2. toClient # <<>> => Tail(toClient) \in Seq(Messages)
    BY HeadFacts
  <2>3. Tail(<<>>) = <<>>
    OBVIOUS
  <2> QED
    BY <2>1, <2>2, <2>3
<1>6. CASE UNCHANGED <<spheres, serverFrame, toClient>>
  BY <1>6
<1>7. CASE BeginFrame \/ StartAnimation \/ StopAnimation \/ TimerUpdate \/ Expose
           \/ PaintSphere \/ EndPainting \/ UNCHANGED streamVars
  BY <1>6, <1>7
  DEF BeginFrame, StartAnimation, StopAnimation, TimerUpdate, Expose, BeginPainting,
      PictureRests, PaintSphere, EndPainting, streamVars, serverVars
<1> QED
  BY <1>2, <1>3, <1>4, <1>5, <1>7 DEF StreamNext

\* processReply() in the middle of a frame: the message is there.
NewFrameHasMessage ==
  main = "newFrame" => toClient # <<>> /\ Head(toClient).kind = "sendFrame"

\* Nothing takes this message away before it is processed.
LEMMA NewFrameStep ==
  ASSUME ChannelTyped, NewFrameHasMessage, [StreamNext]_streamVars
  PROVE  NewFrameHasMessage'
<1> USE DEF NewFrameHasMessage
<1>1. Len(toClient) \in Nat /\ toClient \in Seq(Messages)
      /\ (toClient # <<>> => Len(toClient) > 0 /\ Head(toClient) = toClient[1])
  BY LenProperties, HeadFacts DEF ChannelTyped
<1>2. ASSUME NEW new \in Seq(Messages), toClient' = new, main' = main,
             Len(new) > 0, new[1] = toClient[1]
      PROVE  NewFrameHasMessage'
  <2>1. new # <<>> /\ Head(new) = new[1]
    BY <1>2, HeadFacts
  <2> QED
    BY <1>1, <1>2, <2>1
<1>3. CASE main # "newFrame" /\ main' = main
  BY <1>3
<1>4. CASE PrepareFrame /\ main = "newFrame"
  <2>1. /\ ImagesOf(serverFrame) \in Seq(Messages)
        /\ toClient' = toClient \o ImagesOf(serverFrame) /\ main' = main
    BY <1>4, ImagesFacts DEF PrepareFrame, ClientRests
  <2> DEFINE new == toClient \o ImagesOf(serverFrame)
  <2>2. /\ new \in Seq(Messages)
        /\ Len(new) = Len(toClient) + Len(ImagesOf(serverFrame))
        /\ \A i \in 1 .. Len(toClient) + Len(ImagesOf(serverFrame)) :
             new[i] = IF i <= Len(toClient) THEN toClient[i]
                      ELSE ImagesOf(serverFrame)[i - Len(toClient)]
    BY <1>1, <2>1, ConcatProperties
  <2>3. Len(ImagesOf(serverFrame)) \in Nat
    BY <2>1, LenProperties
  <2> HIDE DEF new
  <2>4. Len(new) > 0 /\ new[1] = toClient[1]
    BY <1>1, <1>4, <2>2, <2>3
  <2>5. toClient' = new
    BY <2>1 DEF new
  <2> QED
    BY <1>2, <2>1, <2>2, <2>4, <2>5
<1>5. ASSUME NEW n \in 0 .. MaxSpheres, UpdateSphereCount(n), main = "newFrame"
      PROVE  NewFrameHasMessage'
  <2>1. CountMessage(n) \in Messages
    BY DEF Messages, CountMessages
  <2> DEFINE new == Append(toClient, CountMessage(n))
  <2>2. toClient' = new /\ main' = main
    BY <1>5 DEF UpdateSphereCount, ClientRests
  <2>3. /\ new \in Seq(Messages) /\ Len(new) = Len(toClient) + 1
        /\ \A i \in 1 .. Len(toClient) : new[i] = toClient[i]
    BY <1>1, <2>1, AppendProperties
  <2> HIDE DEF new
  <2>4. Len(new) > 0 /\ new[1] = toClient[1]
    BY <1>1, <1>5, <2>3
  <2> QED
    BY <1>2, <2>2, <2>3, <2>4
<1>6. CASE Lose /\ main = "newFrame"
  <2>1. PICK i \in DOMAIN toClient : i > 1 /\ toClient' = Without(toClient, i)
    BY <1>6 DEF Lose, Without
  <2>2. i \in 1 .. Len(toClient) /\ main' = main
    BY <1>1, <1>6, <2>1, LenProperties DEF Lose, ClientRests
  <2>3. /\ Without(toClient, i) \in Seq(Messages)
        /\ Len(Without(toClient, i)) = Len(toClient) - 1
        /\ \A p \in 1 .. Len(toClient) - 1 :
             Without(toClient, i)[p] = IF p < i THEN toClient[p] ELSE toClient[p + 1]
    BY <1>1, <2>2, WithoutFacts
  <2> DEFINE new == Without(toClient, i)
  <2>4. Len(new) > 0 /\ new[1] = toClient[1]
    <3> HIDE DEF new
    <3>1. Len(new) = Len(toClient) - 1
          /\ \A p \in 1 .. Len(toClient) - 1 : new[p] = IF p < i THEN toClient[p] ELSE toClient[p + 1]
      BY <2>3 DEF new
    <3> QED
      BY <1>1, <2>1, <2>2, <3>1
  <2> HIDE DEF new
  <2>5. toClient' = new /\ new \in Seq(Messages)
    BY <2>1, <2>3 DEF new
  <2> QED
    BY <1>2, <2>2, <2>4, <2>5
<1>7. CASE main' \in {"loop", "painting"}
  BY <1>7
<1>8. CASE BeginFrame
  BY <1>8 DEF BeginFrame, Arrived
<1>9. CASE UNCHANGED streamVars
  BY <1>9 DEF streamVars
<1> QED
  BY <1>3, <1>4, <1>5, <1>6, <1>7, <1>8, <1>9
  DEF StreamNext, PrepareFrame, UpdateSphereCount, Lose, ClientRests, ReceiveSphere,
      ReceiveSphereCount, StartAnimation, StopAnimation, TimerUpdate, Expose, BeginPainting,
      PaintSphere, EndPainting

\* What the stream does to the ring are calls of its methods.
LEMMA StreamStepIsRingStep ==
  ASSUME RingSuitsStream, ChannelTyped, NewFrameHasMessage, [StreamNext]_streamVars
  PROVE  [Next]_vars
<1>1. CASE UNCHANGED vars
  BY <1>1
<1>2. CASE PrepareFrame \/ (\E n \in 0 .. MaxSpheres : UpdateSphereCount(n)) \/ Lose
           \/ StartAnimation \/ StopAnimation \/ TimerUpdate \/ Expose
           \/ UNCHANGED streamVars
  BY <1>1, <1>2
  DEF PrepareFrame, UpdateSphereCount, Lose, ClientRests, StartAnimation, StopAnimation,
      TimerUpdate, Expose, BeginPainting, PictureRests, streamVars
<1>3. CASE BeginFrame \/ PaintSphere \/ EndPainting
  BY <1>3 DEF BeginFrame, PaintSphere, EndPainting, Next
<1>4. CASE ReceiveSphere
  <2>1. toClient # <<>> /\ Head(toClient).kind = "sendFrame"
    BY <1>4 DEF ReceiveSphere, Arrived, NewFrameHasMessage
  <2>2. Head(toClient).image \in Elements
    BY <2>1, HeadFacts, MessageFacts DEF ChannelTyped, RingSuitsStream
  <2>3. PushElement(Head(toClient).image) \/ UNCHANGED vars
    BY <1>4 DEF ReceiveSphere
  <2> QED
    BY <2>2, <2>3 DEF Next
<1>5. CASE ReceiveSphereCount
  <2>1. toClient # <<>> /\ Head(toClient).kind = "sphereCount"
    BY <1>5 DEF ReceiveSphereCount, Arrived
  <2>2. Head(toClient).count \in Counts
    BY <2>1, HeadFacts, MessageFacts DEF ChannelTyped, RingSuitsStream
  <2> QED
    BY <1>5, <2>2 DEF ReceiveSphereCount, Next
<1> QED
  BY <1>2, <1>3, <1>4, <1>5 DEF StreamNext

\* The client's ring is only touched through its methods, so that all that was
\* proved about the ring holds of the stream (ActionSender::processReply,
\* GLWidget::paintGL).
THEOREM StreamUsesTheRing ==
  ASSUME RingSuitsStream
  PROVE  /\ StreamSpec => [](ChannelTyped /\ NewFrameHasMessage)
         /\ StreamSpec => Spec
<1>1. StreamInit => Init /\ ChannelTyped /\ NewFrameHasMessage
  BY FrameStreamAssumption DEF StreamInit, ChannelTyped, NewFrameHasMessage
<1>2. ChannelTyped /\ NewFrameHasMessage /\ [StreamNext]_streamVars
        => ChannelTyped' /\ NewFrameHasMessage'
  BY ChannelStep, NewFrameStep
<1>3. ChannelTyped /\ NewFrameHasMessage /\ [StreamNext]_streamVars => [Next]_vars
  BY StreamStepIsRingStep
<1>4. StreamSpec => [](ChannelTyped /\ NewFrameHasMessage)
  BY <1>1, <1>2, PTL DEF StreamSpec
<1>5. StreamSpec => Spec
  BY <1>1, <1>3, <1>4, PTL DEF StreamSpec, Spec
<1> QED
  BY <1>4, <1>5

\* The ring of the running stream keeps its promises: the level that controls the
\* viewer is current, the painter stays behind the writer, and painter and
\* receiver see a bounded queue of whole frames.
THEOREM StreamRingCorrect ==
  ASSUME RingSuitsStream
  PROVE  StreamSpec => []LevelIsCurrent /\ ReaderStaysBehindWriter /\ ImplementsBoundedFrames
BY StreamUsesTheRing, LevelCorrect, ReaderBehindWriter, RingIsBoundedFrames, PTL

\* Every variable of the stream keeps its type, the channel included: no message
\* is read that is not there.
THEOREM StreamTypeCorrect ==
  ASSUME RingSuitsStream
  PROVE  StreamSpec => []StreamTypeOK
<1>1. StreamInit /\ TypeOK => StreamTypeOK
  <2>1. <<>> \in Seq(FrameMessages \union CountMessages) /\ <<>> \in Seq(Contents)
    BY EmptySeq
  <2>2. /\ MaxFrames \in Nat /\ MaxSpheres \in Nat /\ MaxResizes \in Nat /\ MaxLost \in Nat
    BY FrameStreamAssumption
  <2> SUFFICES ASSUME StreamInit, TypeOK PROVE StreamTypeOK
    OBVIOUS
  <2>3. /\ toClient \in Seq(FrameMessages \union CountMessages)
        /\ painting \in Seq(Contents) /\ screen \in Seq(Contents)
    BY <2>1 DEF StreamInit
  <2>4. /\ spheres \in 0 .. MaxSpheres /\ resizes \in 0 .. MaxResizes
        /\ serverFrame \in 0 .. MaxFrames /\ frameCounter \in 0 .. MaxFrames
        /\ lost \in 0 .. MaxLost /\ damaged \subseteq 0 .. MaxFrames - 1
    BY <2>2 DEF StreamInit
  <2>5. main \in {"loop", "newFrame", "painting"} /\ animating \in BOOLEAN /\ timerArmed \in BOOLEAN
    BY DEF StreamInit
  <2> QED
    BY <2>3, <2>4, <2>5 DEF StreamTypeOK
<1>2. ASSUME StreamTypeOK, TypeOK', ChannelTyped', ChannelTyped, [StreamNext]_streamVars
      PROVE  StreamTypeOK'
  <2>1. /\ toClient' \in Seq(FrameMessages \union CountMessages)
        /\ spheres' \in 0 .. MaxSpheres /\ serverFrame' \in 0 .. MaxFrames
    BY <1>2 DEF ChannelTyped, Messages
  <2>2. resizes' \in 0 .. MaxResizes
    BY <1>2, FrameStreamAssumption, SMTT(30)
    DEF StreamTypeOK, StreamNext, PrepareFrame, UpdateSphereCount, Lose, BeginFrame,
        ReceiveSphere, ReceiveSphereCount, StartAnimation, StopAnimation, TimerUpdate, Expose,
        BeginPainting, PictureRests, PaintSphere, EndPainting, streamVars, serverVars
  <2>3. lost' \in 0 .. MaxLost /\ damaged' \subseteq 0 .. MaxFrames - 1
    <3>1. CASE Lose
      <4>1. PICK i \in DOMAIN toClient :
              toClient[i].kind = "sendFrame" /\ damaged' = damaged \union {toClient[i].image[1]}
        BY <3>1 DEF Lose
      <4>2. toClient[i] \in Messages
        BY <1>2, <4>1, LenProperties, ElementOfSeq DEF ChannelTyped
      <4>3. toClient[i].image \in SphereImages
        BY <4>1, <4>2, MessageFacts
      <4>4. toClient[i].image[1] \in 0 .. MaxFrames - 1
        BY <4>3 DEF SphereImages
      <4> QED
        <5>1. lost \in 0 .. MaxLost /\ damaged \subseteq 0 .. MaxFrames - 1
          BY <1>2 DEF StreamTypeOK
        <5>2. lost < MaxLost /\ lost' = lost + 1 /\ MaxLost \in Nat
          BY <3>1, FrameStreamAssumption DEF Lose
        <5>3. damaged' \subseteq 0 .. MaxFrames - 1
          BY <4>1, <4>4, <5>1
        <5> QED
          BY <5>1, <5>2, <5>3
    <3>2. CASE UNCHANGED faultVars
      BY <1>2, <3>2 DEF StreamTypeOK, faultVars
    <3> QED
      BY <1>2, <3>1, <3>2
      DEF StreamNext, PrepareFrame, UpdateSphereCount, BeginFrame,
          ReceiveSphere, ReceiveSphereCount, StartAnimation, StopAnimation, TimerUpdate, Expose,
          BeginPainting, PictureRests, PaintSphere, EndPainting, streamVars
  <2>4. frameCounter' \in 0 .. MaxFrames
    <3>1. CASE BeginFrame
      <4>1. toClient # <<>> /\ Head(toClient).kind = "sendFrame"
            /\ frameCounter' = Head(toClient).image[1]
        BY <3>1 DEF BeginFrame, Arrived
      <4>2. Head(toClient).image \in SphereImages
        BY <1>2, <4>1, HeadFacts, MessageFacts DEF ChannelTyped
      <4> QED
        BY <4>1, <4>2, FrameStreamAssumption DEF SphereImages
    <3>2. CASE UNCHANGED frameCounter
      BY <1>2, <3>2 DEF StreamTypeOK
    <3> QED
      BY <1>2, <3>1, <3>2
      DEF StreamNext, PrepareFrame, UpdateSphereCount, Lose, ClientRests,
          ReceiveSphere, ReceiveSphereCount, StartAnimation, StopAnimation, TimerUpdate, Expose,
          BeginPainting, PictureRests, PaintSphere, EndPainting, streamVars
  <2>5. main' \in {"loop", "newFrame", "painting"} /\ animating' \in BOOLEAN
        /\ timerArmed' \in BOOLEAN
    BY <1>2
    DEF StreamTypeOK, StreamNext, PrepareFrame, UpdateSphereCount, Lose, ClientRests, BeginFrame,
        ReceiveSphere, ReceiveSphereCount, StartAnimation, StopAnimation, TimerUpdate, Expose,
        BeginPainting, PictureRests, PaintSphere, EndPainting, streamVars, viewerVars
  <2>6. painting' \in Seq(Contents) /\ screen' \in Seq(Contents)
    <3>1. popped' \in Contents /\ painting \in Seq(Contents) /\ screen \in Seq(Contents)
      BY <1>2 DEF TypeOK, StreamTypeOK
    <3>2. <<>> \in Seq(Contents) /\ Append(painting, popped') \in Seq(Contents)
      BY <3>1, EmptySeq, AppendProperties
    <3> QED
      BY <1>2, <3>1, <3>2
      DEF StreamNext, PrepareFrame, UpdateSphereCount, Lose, ClientRests, BeginFrame,
          ReceiveSphere, ReceiveSphereCount, StartAnimation, StopAnimation, TimerUpdate, Expose,
          BeginPainting, PictureRests, PaintSphere, EndPainting, streamVars, viewerVars
  <2> QED
    BY <1>2, <2>1, <2>2, <2>3, <2>4, <2>5, <2>6 DEF StreamTypeOK
<1> QED
  BY <1>1, <1>2, StreamUsesTheRing, TypeCorrect, PTL DEF StreamSpec

-----------------------------------------------------------------------------
(* Loss stays in its frame *)

\* The p-th message of channel c is the image of a sphere.
Sends(c, p) == c[p].kind = "sendFrame"

Carries(c, image) == \E p \in 1 .. Len(c) : Sends(c, p) /\ c[p].image = image

\* size[p] is the number of elements per frame when the p-th message was processed.
Sized(c, size, first, last) ==
  /\ size \in [0 .. Len(c) -> 0 .. MaxSpheres]
  /\ size[0] = first /\ size[Len(c)] = last
  /\ \A p \in 1 .. Len(c) :
       IF Sends(c, p) THEN size[p] = size[p - 1] /\ c[p].image[2] < size[p]
       ELSE size[p] = c[p].count

\* Images are in the order of frames and spheres; no resize comes into a frame.
InOrder(c) ==
  \A p, q \in 1 .. Len(c) : p < q /\ Sends(c, p) /\ Sends(c, q) =>
    \/ c[p].image[1] < c[q].image[1]
    \/ /\ c[p].image[1] = c[q].image[1] /\ c[p].image[2] < c[q].image[2]
       /\ \A x \in p .. q : Sends(c, x)

NumbersWithin(c, low, high) ==
  \A p \in 1 .. Len(c) : Sends(c, p) => low <= c[p].image[1] /\ c[p].image[1] < high

\* Frames that lost nothing are complete, but those of which some images arrived.
Intact(c, size, but, dam) ==
  \A p \in 1 .. Len(c) : Sends(c, p) /\ c[p].image[1] \notin but \union dam =>
    \A j \in 0 .. size[p] - 1 : Carries(c, <<c[p].image[1], j>>)

\* All of this, for a ring of frames with n elements.
Orderly(c, size, n, last, low, high) ==
  /\ c \in Seq(Messages)
  /\ n \in 0 .. MaxSpheres /\ last \in 0 .. MaxSpheres
  /\ low \in Nat /\ high \in 0 .. MaxFrames
  /\ Sized(c, size, n, last) /\ InOrder(c) /\ NumbersWithin(c, low, high)

\* The messages of a channel and its length.
LEMMA ChannelFacts ==
  ASSUME NEW c \in Seq(Messages)
  PROVE  /\ Len(c) \in Nat
         /\ \A p \in 1 .. Len(c) :
              /\ c[p] \in Messages
              /\ Sends(c, p) => /\ c[p].image \in SphereImages
                                /\ c[p].image[1] \in 0 .. MaxFrames - 1
                                /\ c[p].image[2] \in 0 .. MaxSpheres - 1
                                /\ c[p].image = <<c[p].image[1], c[p].image[2]>>
              /\ ~Sends(c, p) => c[p].count \in 0 .. MaxSpheres
<1>1. Len(c) \in Nat
  BY LenProperties
<1>2. ASSUME NEW p \in 1 .. Len(c) PROVE c[p] \in Messages
  BY ElementOfSeq
<1>3. ASSUME NEW p \in 1 .. Len(c), Sends(c, p)
      PROVE  c[p].image \in SphereImages
  BY <1>2, <1>3, MessageFacts DEF Sends
<1>4. ASSUME NEW p \in 1 .. Len(c), Sends(c, p)
      PROVE  /\ c[p].image[1] \in 0 .. MaxFrames - 1 /\ c[p].image[2] \in 0 .. MaxSpheres - 1
             /\ c[p].image = <<c[p].image[1], c[p].image[2]>>
  BY <1>3, <1>4 DEF SphereImages
<1>5. ASSUME NEW p \in 1 .. Len(c), ~Sends(c, p)
      PROVE  c[p].count \in 0 .. MaxSpheres
  BY <1>2, <1>5, MessageFacts DEF Sends
<1> QED
  BY <1>1, <1>2, <1>3, <1>4, <1>5

\* A message is the image of a sphere or a count.
LEMMA KindFacts ==
  /\ \A image : FrameMessage(image).kind = "sendFrame" /\ FrameMessage(image).image = image
  /\ \A n : CountMessage(n).kind # "sendFrame" /\ CountMessage(n).count = n
BY DEF FrameMessage, CountMessage

\* Another frame is sent.
LEMMA FrameSent ==
  ASSUME NEW c, NEW size, NEW n, NEW last, NEW low, NEW high, NEW but, NEW dam,
         Orderly(c, size, n, last, low, high), Intact(c, size, but, dam),
         low <= high, high < MaxFrames,
         NEW list \in Seq(Messages), Len(list) = last,
         \A i \in 1 .. last : list[i] = FrameMessage(<<high, i - 1>>)
  PROVE  /\ \E bigger : /\ Orderly(c \o list, bigger, n, last, low, high + 1)
                        /\ Intact(c \o list, bigger, but, dam)
         /\ Len(c) \in Nat /\ Len(c \o list) = Len(c) + last /\ last \in Nat
         /\ \A p \in 1 .. Len(c) : (c \o list)[p] = c[p]
         /\ \A p \in Len(c) + 1 .. Len(c) + last :
              (c \o list)[p] = FrameMessage(<<high, p - Len(c) - 1>>)
<1> DEFINE new == c \o list
           len == Len(c)
           bigger == [p \in 0 .. len + last |-> IF p <= len THEN size[p] ELSE last]
<1>1. /\ c \in Seq(Messages) /\ n \in 0 .. MaxSpheres /\ last \in 0 .. MaxSpheres
      /\ low \in Nat /\ high \in 0 .. MaxFrames
      /\ Sized(c, size, n, last) /\ InOrder(c) /\ NumbersWithin(c, low, high)
      /\ MaxSpheres \in Nat /\ MaxFrames \in Nat
  BY FrameStreamAssumption DEF Orderly
<1>2. /\ len \in Nat
      /\ \A p \in 1 .. len :
              /\ c[p] \in Messages
              /\ Sends(c, p) => /\ c[p].image[1] \in 0 .. MaxFrames - 1
                                /\ c[p].image[2] \in 0 .. MaxSpheres - 1
                                /\ c[p].image = <<c[p].image[1], c[p].image[2]>>
  BY <1>1, ChannelFacts
<1> HIDE DEF len
<1>3. /\ new \in Seq(Messages) /\ Len(new) = len + last
      /\ \A p \in 1 .. len + last : new[p] = IF p <= len THEN c[p] ELSE list[p - len]
  BY <1>1, ConcatProperties DEF len
<1> HIDE DEF new
<1>4. \A p \in 1 .. len : new[p] = c[p]
  BY <1>1, <1>2, <1>3
<1>5. ASSUME NEW p \in len + 1 .. len + last
      PROVE  /\ new[p] = FrameMessage(<<high, p - len - 1>>)
             /\ Sends(new, p) /\ new[p].image = <<high, p - len - 1>>
             /\ new[p].image[1] = high /\ new[p].image[2] = p - len - 1
  <2>1. p \in 1 .. len + last /\ ~(p <= len) /\ p - len \in 1 .. last
    BY <1>1, <1>2
  <2>2. new[p] = FrameMessage(<<high, p - len - 1>>)
    BY <1>3, <2>1
  <2> QED
    BY <2>2, KindFacts DEF Sends
<1>6. ASSUME NEW p \in 1 .. len
      PROVE  Sends(new, p) <=> Sends(c, p)
  BY <1>4 DEF Sends
<1>7. \A p \in 1 .. len + last : p \in 1 .. len \/ p \in len + 1 .. len + last
  BY <1>1, <1>2
<1>8. Sized(new, bigger, n, last)
  <2>1. /\ size \in [0 .. len -> 0 .. MaxSpheres] /\ size[0] = n /\ size[len] = last
        /\ \A p \in 1 .. len :
             IF Sends(c, p) THEN size[p] = size[p - 1] /\ c[p].image[2] < size[p]
             ELSE size[p] = c[p].count
    BY <1>1 DEF Sized, len
  <2>2. \A p \in 0 .. len + last : bigger[p] = IF p <= len THEN size[p] ELSE last
    OBVIOUS
  <2>3. bigger \in [0 .. len + last -> 0 .. MaxSpheres]
    <3>1. \A p \in 0 .. len + last : p <= len => p \in 0 .. len
      BY <1>2
    <3> QED
      BY <1>1, <2>1, <3>1
  <2> HIDE DEF bigger
  <2>4. bigger[0] = n /\ bigger[len + last] = last
    <3>1. 0 \in 0 .. len + last /\ len + last \in 0 .. len + last /\ 0 <= len
      BY <1>1, <1>2
    <3>2. bigger[0] = size[0]
      BY <2>2, <3>1
    <3>3. bigger[len + last] = IF len + last <= len THEN size[len + last] ELSE last
      BY <2>2, <3>1
    <3>4. len + last <= len => len + last = len
      BY <1>1, <1>2
    <3> QED
      BY <2>1, <3>2, <3>3, <3>4
  <2>5. ASSUME NEW p \in 1 .. len
        PROVE  IF Sends(new, p) THEN bigger[p] = bigger[p - 1] /\ new[p].image[2] < bigger[p]
               ELSE bigger[p] = new[p].count
    <3>1. bigger[p] = size[p] /\ bigger[p - 1] = size[p - 1]
      BY <1>1, <1>2, <2>2
    <3> QED
      BY <1>4, <1>6, <2>1, <3>1
  <2>6. ASSUME NEW p \in len + 1 .. len + last
        PROVE  Sends(new, p) /\ bigger[p] = bigger[p - 1] /\ new[p].image[2] < bigger[p]
    <3>1. bigger[p] = last /\ bigger[p - 1] = last
      <4>1. /\ p \in 0 .. len + last /\ p - 1 \in 0 .. len + last /\ ~(p <= len)
            /\ (p - 1 <= len => p - 1 = len)
        BY <1>1, <1>2
      <4> QED
        BY <2>1, <2>2, <4>1
    <3>2. p - len - 1 < last
      BY <1>1, <1>2
    <3> QED
      BY <1>5, <3>1, <3>2
  <2> QED
    BY <1>3, <1>7, <2>3, <2>4, <2>5, <2>6 DEF Sized
<1>9. InOrder(new)
  <2> SUFFICES ASSUME NEW p \in 1 .. len + last, NEW q \in 1 .. len + last,
                      p < q, Sends(new, p), Sends(new, q)
               PROVE  \/ new[p].image[1] < new[q].image[1]
                      \/ /\ new[p].image[1] = new[q].image[1]
                         /\ new[p].image[2] < new[q].image[2]
                         /\ \A x \in p .. q : Sends(new, x)
    BY <1>3 DEF InOrder
  <2>1. CASE q \in 1 .. len
    <3>1. p \in 1 .. len /\ \A x \in p .. q : x \in 1 .. len
      BY <1>2, <2>1
    <3>2. Sends(c, p) /\ Sends(c, q)
      BY <1>6, <2>1, <3>1
    <3>3. \/ c[p].image[1] < c[q].image[1]
          \/ /\ c[p].image[1] = c[q].image[1] /\ c[p].image[2] < c[q].image[2]
             /\ \A x \in p .. q : Sends(c, x)
      BY <1>1, <2>1, <3>1, <3>2 DEF InOrder, len
    <3> QED
      BY <1>4, <1>6, <2>1, <3>1, <3>3
  <2>2. CASE q \in len + 1 .. len + last /\ p \in 1 .. len
    <3>1. c[p].image[1] < high
      BY <1>1, <1>6, <2>2 DEF NumbersWithin, len
    <3> QED
      BY <1>4, <1>5, <2>2, <3>1
  <2>3. CASE q \in len + 1 .. len + last /\ p \in len + 1 .. len + last
    <3>1. \A x \in p .. q : x \in len + 1 .. len + last
      BY <1>1, <1>2, <2>3
    <3>2. p - len - 1 < q - len - 1
      BY <1>1, <1>2
    <3>3. /\ new[p].image[1] = high /\ new[p].image[2] = p - len - 1
          /\ new[q].image[1] = high /\ new[q].image[2] = q - len - 1
      BY <1>5, <2>3
    <3>4. \A x \in p .. q : Sends(new, x)
      BY <1>5, <3>1
    <3> QED
      BY <3>2, <3>3, <3>4
  <2> QED
    BY <1>7, <2>1, <2>2, <2>3
<1>10. NumbersWithin(new, low, high + 1)
  <2>1. ASSUME NEW p \in 1 .. len, Sends(new, p)
        PROVE  low <= new[p].image[1] /\ new[p].image[1] < high + 1
    <3>1. low <= c[p].image[1] /\ c[p].image[1] < high /\ c[p].image[1] \in 0 .. MaxFrames - 1
      BY <1>1, <1>2, <1>6, <2>1 DEF NumbersWithin, len
    <3> QED
      BY <1>1, <1>4, <3>1
  <2>2. ASSUME NEW p \in len + 1 .. len + last
        PROVE  low <= new[p].image[1] /\ new[p].image[1] < high + 1
    <3>1. new[p].image[1] = high
      BY <1>5
    <3>2. low <= high /\ high < high + 1
      BY <1>1
    <3> QED
      BY <3>1, <3>2
  <2> QED
    BY <1>3, <1>7, <2>1, <2>2 DEF NumbersWithin
<1>11. ASSUME NEW image, Carries(c, image) PROVE Carries(new, image)
  <2>1. PICK p \in 1 .. len : Sends(c, p) /\ c[p].image = image
    BY <1>11 DEF Carries, len
  <2>2. p \in 1 .. len + last
    BY <1>1, <1>2
  <2> QED
    BY <1>3, <1>4, <1>6, <2>1, <2>2 DEF Carries
<1>12. Intact(new, bigger, but, dam)
  <2>1. ASSUME NEW p \in 1 .. len, Sends(new, p), new[p].image[1] \notin but \union dam,
               NEW j \in 0 .. bigger[p] - 1
        PROVE  Carries(new, <<new[p].image[1], j>>)
    <3>1. bigger[p] = size[p]
      BY <1>1, <1>2
    <3>2. Carries(c, <<c[p].image[1], j>>)
      BY <1>4, <1>6, <2>1, <3>1 DEF Intact, len
    <3> QED
      BY <1>4, <1>11, <3>2
  <2>2. ASSUME NEW p \in len + 1 .. len + last, NEW j \in 0 .. bigger[p] - 1
        PROVE  Carries(new, <<new[p].image[1], j>>)
    <3>1. bigger[p] = last
      BY <1>1, <1>2
    <3>2. len + 1 + j \in len + 1 .. len + last /\ len + 1 + j \in 1 .. len + last
          /\ (len + 1 + j) - len - 1 = j
      BY <1>1, <1>2, <2>2, <3>1
    <3>3. Sends(new, len + 1 + j) /\ new[len + 1 + j].image = <<high, j>>
      BY <1>5, <3>2
    <3> QED
      BY <1>3, <1>5, <2>2, <3>2, <3>3 DEF Carries
  <2> HIDE DEF bigger
  <2> QED
    BY <1>3, <1>7, <2>1, <2>2 DEF Intact
<1>13. high + 1 \in 0 .. MaxFrames
  BY <1>1
<1> HIDE DEF bigger
<1>14. Orderly(new, bigger, n, last, low, high + 1)
  BY <1>1, <1>3, <1>8, <1>9, <1>10, <1>13 DEF Orderly
<1> QED
  BY <1>1, <1>2, <1>3, <1>4, <1>5, <1>12, <1>14 DEF new, len

\* The number of spheres is sent.
LEMMA CountSent ==
  ASSUME NEW c, NEW size, NEW n, NEW last, NEW low, NEW high, NEW but, NEW dam,
         Orderly(c, size, n, last, low, high), Intact(c, size, but, dam),
         NEW m \in 0 .. MaxSpheres
  PROVE  /\ \E bigger : /\ Orderly(Append(c, CountMessage(m)), bigger, n, m, low, high)
                        /\ Intact(Append(c, CountMessage(m)), bigger, but, dam)
         /\ Len(c) \in Nat /\ Len(Append(c, CountMessage(m))) = Len(c) + 1
         /\ \A p \in 1 .. Len(c) : Append(c, CountMessage(m))[p] = c[p]
         /\ Append(c, CountMessage(m))[Len(c) + 1] = CountMessage(m)
<1> DEFINE new == Append(c, CountMessage(m))
           len == Len(c)
           bigger == [p \in 0 .. len + 1 |-> IF p <= len THEN size[p] ELSE m]
<1>1. /\ c \in Seq(Messages) /\ n \in 0 .. MaxSpheres
      /\ low \in Nat /\ high \in 0 .. MaxFrames
      /\ Sized(c, size, n, last) /\ InOrder(c) /\ NumbersWithin(c, low, high)
      /\ MaxSpheres \in Nat
  BY FrameStreamAssumption DEF Orderly
<1>2. len \in Nat
  BY <1>1, ChannelFacts
<1>3. CountMessage(m) \in Messages
  BY DEF Messages, CountMessages
<1>4. /\ new \in Seq(Messages) /\ Len(new) = len + 1 /\ new[len + 1] = CountMessage(m)
      /\ \A p \in 1 .. len : new[p] = c[p]
  BY <1>1, <1>3, AppendProperties
<1> HIDE DEF new, len
<1>5. ~Sends(new, len + 1) /\ new[len + 1].count = m
  BY <1>4, KindFacts DEF Sends
<1>6. \A p \in 1 .. len : Sends(new, p) <=> Sends(c, p)
  BY <1>4 DEF Sends
<1>7. \A p \in 1 .. len + 1 : p \in 1 .. len \/ p = len + 1
  BY <1>2
<1>8. Sized(new, bigger, n, m)
  <2>1. /\ size \in [0 .. len -> 0 .. MaxSpheres] /\ size[0] = n
        /\ \A p \in 1 .. len :
             IF Sends(c, p) THEN size[p] = size[p - 1] /\ c[p].image[2] < size[p]
             ELSE size[p] = c[p].count
    BY <1>1 DEF Sized, len
  <2>2. \A p \in 0 .. len + 1 : bigger[p] = IF p <= len THEN size[p] ELSE m
    OBVIOUS
  <2>3. bigger \in [0 .. len + 1 -> 0 .. MaxSpheres]
    <3>1. \A p \in 0 .. len + 1 : p <= len => p \in 0 .. len
      BY <1>2
    <3> QED
      BY <1>1, <2>1, <3>1
  <2> HIDE DEF bigger
  <2>4. bigger[0] = n /\ bigger[len + 1] = m
    <3>1. 0 \in 0 .. len + 1 /\ len + 1 \in 0 .. len + 1 /\ 0 <= len /\ ~(len + 1 <= len)
      BY <1>2
    <3> QED
      BY <2>1, <2>2, <3>1
  <2>5. ASSUME NEW p \in 1 .. len
        PROVE  IF Sends(new, p) THEN bigger[p] = bigger[p - 1] /\ new[p].image[2] < bigger[p]
               ELSE bigger[p] = new[p].count
    <3>1. bigger[p] = size[p] /\ bigger[p - 1] = size[p - 1]
      BY <1>2, <2>2
    <3> QED
      BY <1>4, <1>6, <2>1, <3>1
  <2> QED
    BY <1>4, <1>5, <1>7, <2>3, <2>4, <2>5 DEF Sized
<1>9. InOrder(new)
  <2> SUFFICES ASSUME NEW p \in 1 .. len + 1, NEW q \in 1 .. len + 1,
                      p < q, Sends(new, p), Sends(new, q)
               PROVE  \/ new[p].image[1] < new[q].image[1]
                      \/ /\ new[p].image[1] = new[q].image[1]
                         /\ new[p].image[2] < new[q].image[2]
                         /\ \A x \in p .. q : Sends(new, x)
    BY <1>4 DEF InOrder
  <2>1. p \in 1 .. len /\ q \in 1 .. len
    BY <1>5, <1>7
  <2>2. \A x \in p .. q : x \in 1 .. len
    BY <1>2, <2>1
  <2>3. \/ c[p].image[1] < c[q].image[1]
        \/ /\ c[p].image[1] = c[q].image[1] /\ c[p].image[2] < c[q].image[2]
           /\ \A x \in p .. q : Sends(c, x)
    BY <1>1, <1>6, <2>1 DEF InOrder, len
  <2> QED
    BY <1>4, <1>6, <2>1, <2>2, <2>3
<1>10. NumbersWithin(new, low, high)
  BY <1>1, <1>4, <1>5, <1>6, <1>7 DEF NumbersWithin, len
<1>11. Intact(new, bigger, but, dam)
  <2>1. ASSUME NEW image, Carries(c, image) PROVE Carries(new, image)
    <3>1. PICK p \in 1 .. len : Sends(c, p) /\ c[p].image = image
      BY <2>1 DEF Carries, len
    <3>2. p \in 1 .. len + 1
      BY <1>2
    <3> QED
      BY <1>4, <1>6, <3>1, <3>2 DEF Carries
  <2>2. ASSUME NEW p \in 1 .. len, Sends(new, p), new[p].image[1] \notin but \union dam,
               NEW j \in 0 .. bigger[p] - 1
        PROVE  Carries(new, <<new[p].image[1], j>>)
    <3>1. bigger[p] = size[p]
      BY <1>2
    <3>2. Carries(c, <<c[p].image[1], j>>)
      BY <1>4, <1>6, <2>2, <3>1 DEF Intact, len
    <3> QED
      BY <1>4, <2>1, <3>2
  <2> HIDE DEF bigger
  <2> QED
    BY <1>4, <1>5, <1>7, <2>2 DEF Intact
<1> HIDE DEF bigger
<1>12. Orderly(new, bigger, n, m, low, high)
  BY <1>1, <1>4, <1>8, <1>9, <1>10 DEF Orderly
<1> QED
  BY <1>2, <1>4, <1>11, <1>12 DEF new, len

\* An image is lost.
LEMMA ImageLost ==
  ASSUME NEW c, NEW size, NEW n, NEW last, NEW low, NEW high, NEW but, NEW dam,
         Orderly(c, size, n, last, low, high), Intact(c, size, but, dam),
         NEW i \in 1 .. Len(c), Sends(c, i)
  PROVE  /\ \E smaller : /\ Orderly(Without(c, i), smaller, n, last, low, high)
                         /\ Intact(Without(c, i), smaller, but, dam \union {c[i].image[1]})
         /\ Len(c) \in Nat /\ Len(Without(c, i)) = Len(c) - 1
         /\ \A p \in 1 .. Len(c) - 1 : Without(c, i)[p] = IF p < i THEN c[p] ELSE c[p + 1]
         /\ \A image : Carries(c, image) /\ image[1] # c[i].image[1]
                         => Carries(Without(c, i), image)
<1> DEFINE new == Without(c, i)
           len == Len(c)
           old(p) == IF p < i THEN p ELSE p + 1
           smaller == [p \in 0 .. len - 1 |-> size[old(p)]]
<1>1. /\ c \in Seq(Messages) /\ n \in 0 .. MaxSpheres /\ last \in 0 .. MaxSpheres
      /\ low \in Nat /\ high \in 0 .. MaxFrames
      /\ Sized(c, size, n, last) /\ InOrder(c) /\ NumbersWithin(c, low, high)
  BY DEF Orderly
<1>2. len \in Nat /\ i \in 1 .. len
  BY <1>1, ChannelFacts
<1>3. /\ new \in Seq(Messages) /\ Len(new) = len - 1
      /\ \A p \in 1 .. len - 1 : new[p] = IF p < i THEN c[p] ELSE c[p + 1]
  BY <1>1, WithoutFacts
<1> HIDE DEF new, len
<1>4. \A p \in 1 .. len - 1 : new[p] = c[old(p)] /\ (Sends(new, p) <=> Sends(c, old(p)))
  BY <1>2, <1>3 DEF Sends
<1>5. /\ \A p \in 1 .. len - 1 : old(p) \in 1 .. len
      /\ \A p, q \in 1 .. len - 1 : p < q => old(p) < old(q)
  BY <1>2
<1>6. /\ size \in [0 .. len -> 0 .. MaxSpheres] /\ size[0] = n /\ size[len] = last
      /\ \A p \in 1 .. len :
           IF Sends(c, p) THEN size[p] = size[p - 1] /\ c[p].image[2] < size[p]
           ELSE size[p] = c[p].count
  BY <1>1 DEF Sized, len
<1>7. \A p \in 0 .. len - 1 : smaller[p] = size[old(p)] /\ old(p) \in 0 .. len
  BY <1>2
<1>8. Sized(new, smaller, n, last)
  <2>1. smaller \in [0 .. len - 1 -> 0 .. MaxSpheres]
    BY <1>6, <1>7
  <2> HIDE DEF smaller
  <2>2. smaller[0] = n
    BY <1>2, <1>6, <1>7
  <2>3. smaller[len - 1] = last
    <3>1. CASE i = len
      <4>1. smaller[len - 1] = size[len - 1]
        BY <1>2, <1>7, <3>1
      <4> QED
        BY <1>2, <1>6, <3>1, <4>1
    <3>2. CASE i # len
      <4>1. len - 1 \in 0 .. len - 1 /\ old(len - 1) = len
        BY <1>2, <3>2
      <4> QED
        BY <1>6, <1>7, <4>1
    <3> QED
      BY <3>1, <3>2
  <2>4. ASSUME NEW p \in 1 .. len - 1
        PROVE  IF Sends(new, p) THEN smaller[p] = smaller[p - 1] /\ new[p].image[2] < smaller[p]
               ELSE smaller[p] = new[p].count
    <3>1. smaller[p] = size[old(p)] /\ smaller[p - 1] = size[old(p - 1)]
      <4>1. p \in 0 .. len - 1 /\ p - 1 \in 0 .. len - 1
        BY <1>2
      <4> QED
        BY <1>7, <4>1
    <3>2. size[old(p - 1)] = size[old(p) - 1]
      <4>1. CASE p = i
        <5>1. old(p - 1) = i - 1 /\ old(p) - 1 = i
          BY <1>2, <4>1
        <5>2. size[i] = size[i - 1]
          BY <1>2, <1>6
        <5> QED
          BY <5>1, <5>2
      <4>2. CASE p # i
        <5>1. old(p - 1) = old(p) - 1
          BY <1>2, <4>2
        <5> QED
          BY <5>1
      <4> QED
        BY <4>1, <4>2
    <3> DEFINE x == old(p)
    <3>3. x \in 1 .. len /\ new[p] = c[x] /\ (Sends(new, p) <=> Sends(c, x))
      BY <1>4, <1>5
    <3>4. smaller[p] = size[x] /\ smaller[p - 1] = size[x - 1]
      BY <3>1, <3>2
    <3> HIDE DEF x
    <3> QED
      BY <1>6, <3>3, <3>4
  <2> QED
    BY <1>3, <2>1, <2>2, <2>3, <2>4 DEF Sized
<1>9. InOrder(new)
  <2> SUFFICES ASSUME NEW p \in 1 .. len - 1, NEW q \in 1 .. len - 1,
                      p < q, Sends(new, p), Sends(new, q)
               PROVE  \/ new[p].image[1] < new[q].image[1]
                      \/ /\ new[p].image[1] = new[q].image[1]
                         /\ new[p].image[2] < new[q].image[2]
                         /\ \A x \in p .. q : Sends(new, x)
    BY <1>3 DEF InOrder
  <2> DEFINE u == old(p)
             v == old(q)
  <2>1. u \in 1 .. len /\ v \in 1 .. len /\ u < v
    BY <1>5
  <2>2. Sends(c, u) /\ Sends(c, v) /\ new[p] = c[u] /\ new[q] = c[v]
    BY <1>4
  <2>3. ASSUME NEW x \in p .. q, \A y \in u .. v : Sends(c, y) PROVE Sends(new, x)
    <3>1. x \in 1 .. len - 1 /\ old(x) \in u .. v
      BY <1>2
    <3> QED
      BY <1>4, <2>3, <3>1
  <2> HIDE DEF u, v
  <2>4. \/ c[u].image[1] < c[v].image[1]
        \/ /\ c[u].image[1] = c[v].image[1] /\ c[u].image[2] < c[v].image[2]
           /\ \A x \in u .. v : Sends(c, x)
    BY <1>1, <2>1, <2>2 DEF InOrder, len
  <2> QED
    BY <2>2, <2>3, <2>4
<1>10. NumbersWithin(new, low, high)
  <2> SUFFICES ASSUME NEW p \in 1 .. len - 1, Sends(new, p)
               PROVE  low <= new[p].image[1] /\ new[p].image[1] < high
    BY <1>3 DEF NumbersWithin
  <2> DEFINE x == old(p)
  <2>1. x \in 1 .. len /\ Sends(c, x) /\ new[p] = c[x]
    BY <1>4, <1>5
  <2> HIDE DEF x
  <2> QED
    BY <1>1, <2>1 DEF NumbersWithin, len
<1>11. ASSUME NEW image, Carries(c, image), image[1] # c[i].image[1]
       PROVE  Carries(new, image)
  <2>1. PICK x \in 1 .. len : Sends(c, x) /\ c[x].image = image
    BY <1>11 DEF Carries, len
  <2>2. x # i
    BY <1>11, <2>1
  <2>3. PICK p \in 1 .. len - 1 : p = IF x < i THEN x ELSE x - 1
    BY <1>2, <2>2
  <2>4. old(p) = x
    BY <1>2, <2>2, <2>3
  <2>5. Sends(new, p) /\ new[p] = c[x]
    BY <1>4, <2>1, <2>4
  <2> QED
    BY <1>3, <2>1, <2>5 DEF Carries
<1>12. Intact(new, smaller, but, dam \union {c[i].image[1]})
  <2> SUFFICES ASSUME NEW p \in 1 .. len - 1, Sends(new, p),
                      new[p].image[1] \notin but \union (dam \union {c[i].image[1]}),
                      NEW j \in 0 .. smaller[p] - 1
               PROVE  Carries(new, <<new[p].image[1], j>>)
    BY <1>3 DEF Intact
  <2> DEFINE x == old(p)
  <2>1. x \in 1 .. len /\ Sends(c, x) /\ new[p] = c[x]
    BY <1>4, <1>5
  <2>2. smaller[p] = size[x]
    <3>1. p \in 0 .. len - 1
      BY <1>2
    <3> QED
      BY <1>7, <3>1
  <2> HIDE DEF x, smaller
  <2>3. Carries(c, <<c[x].image[1], j>>)
    BY <2>1, <2>2 DEF Intact, len
  <2>4. <<c[x].image[1], j>>[1] = c[x].image[1]
    OBVIOUS
  <2>5. c[x].image[1] # c[i].image[1]
    BY <2>1
  <2> QED
    BY <1>11, <2>1, <2>3, <2>4, <2>5
<1> HIDE DEF smaller
<1>13. Orderly(new, smaller, n, last, low, high)
  BY <1>1, <1>3, <1>8, <1>9, <1>10 DEF Orderly
<1> QED
  BY <1>2, <1>3, <1>11, <1>12, <1>13 DEF new, len

\* What the channel holds without its first message, if more is the set of the frame
\* whose image that is.
HeadGone(c, size, n, last, low, high, but, more, dam) ==
  /\ \E smaller : /\ Orderly(Tail(c), smaller, size[1], last, low, high)
                 /\ Intact(Tail(c), smaller, but \union more, dam)
  /\ size[1] = IF Sends(c, 1) THEN n ELSE c[1].count

\* The first message is taken.
LEMMA HeadTaken ==
  ASSUME NEW c, NEW size, NEW n, NEW last, NEW low, NEW high, NEW but, NEW dam,
         Orderly(c, size, n, last, low, high), Intact(c, size, but, dam), c # <<>>,
         NEW more, Sends(c, 1) => more = {c[1].image[1]}
  PROVE  HeadGone(c, size, n, last, low, high, but, more, dam)
<1> DEFINE new == Tail(c)
           len == Len(c)
           smaller == [p \in 0 .. len - 1 |-> size[p + 1]]
<1>1. /\ c \in Seq(Messages) /\ n \in 0 .. MaxSpheres /\ last \in 0 .. MaxSpheres
      /\ low \in Nat /\ high \in 0 .. MaxFrames
      /\ Sized(c, size, n, last) /\ InOrder(c) /\ NumbersWithin(c, low, high)
  BY DEF Orderly
<1>2. /\ len \in Nat /\ len > 0 /\ new \in Seq(Messages) /\ Len(new) = len - 1
      /\ \A p \in 1 .. len - 1 : new[p] = c[p + 1]
  BY <1>1, HeadFacts
<1> HIDE DEF new, len
<1>3. \A p \in 1 .. len - 1 : Sends(new, p) <=> Sends(c, p + 1)
  BY <1>2 DEF Sends
<1>4. /\ size \in [0 .. len -> 0 .. MaxSpheres] /\ size[0] = n /\ size[len] = last
      /\ \A p \in 1 .. len :
           IF Sends(c, p) THEN size[p] = size[p - 1] /\ c[p].image[2] < size[p]
           ELSE size[p] = c[p].count
  BY <1>1 DEF Sized, len
<1>5. 1 \in 1 .. len /\ 1 \in 0 .. len /\ len \in 1 .. len
  BY <1>2
<1>6. size[1] = (IF Sends(c, 1) THEN n ELSE c[1].count) /\ size[1] \in 0 .. MaxSpheres
  <2>1. Sends(c, 1) => size[1] = size[1 - 1]
    BY <1>4, <1>5
  <2>2. 1 - 1 = 0
    OBVIOUS
  <2> QED
    BY <1>4, <1>5, <2>1, <2>2
<1>7. Sized(new, smaller, size[1], last)
  <2>1. \A p \in 0 .. len - 1 : p + 1 \in 0 .. len /\ smaller[p] = size[p + 1]
    BY <1>2
  <2>2. smaller \in [0 .. len - 1 -> 0 .. MaxSpheres]
    BY <1>4, <2>1
  <2> HIDE DEF smaller
  <2>3. smaller[0] = size[1] /\ smaller[len - 1] = last
    BY <1>2, <1>4, <2>1
  <2>4. ASSUME NEW p \in 1 .. len - 1
        PROVE  IF Sends(new, p) THEN smaller[p] = smaller[p - 1] /\ new[p].image[2] < smaller[p]
               ELSE smaller[p] = new[p].count
    <3> DEFINE x == p + 1
    <3>1. x \in 1 .. len /\ new[p] = c[x] /\ (Sends(new, p) <=> Sends(c, x))
      BY <1>2, <1>3
    <3>2. smaller[p] = size[x] /\ smaller[p - 1] = size[x - 1]
      BY <1>2, <2>1
    <3> HIDE DEF x
    <3> QED
      BY <1>4, <3>1, <3>2
  <2> QED
    BY <1>2, <2>2, <2>3, <2>4 DEF Sized
<1>8. InOrder(new)
  <2> SUFFICES ASSUME NEW p \in 1 .. len - 1, NEW q \in 1 .. len - 1,
                      p < q, Sends(new, p), Sends(new, q)
               PROVE  \/ new[p].image[1] < new[q].image[1]
                      \/ /\ new[p].image[1] = new[q].image[1]
                         /\ new[p].image[2] < new[q].image[2]
                         /\ \A x \in p .. q : Sends(new, x)
    BY <1>2 DEF InOrder
  <2> DEFINE u == p + 1
             v == q + 1
  <2>1. u \in 1 .. len /\ v \in 1 .. len /\ u < v
    BY <1>2
  <2>2. Sends(c, u) /\ Sends(c, v) /\ new[p] = c[u] /\ new[q] = c[v]
    BY <1>2, <1>3
  <2>3. ASSUME NEW x \in p .. q, \A y \in u .. v : Sends(c, y) PROVE Sends(new, x)
    <3>1. x \in 1 .. len - 1 /\ x + 1 \in u .. v
      BY <1>2
    <3> QED
      BY <1>3, <2>3, <3>1
  <2> HIDE DEF u, v
  <2>4. \/ c[u].image[1] < c[v].image[1]
        \/ /\ c[u].image[1] = c[v].image[1] /\ c[u].image[2] < c[v].image[2]
           /\ \A x \in u .. v : Sends(c, x)
    BY <1>1, <2>1, <2>2 DEF InOrder, len
  <2> QED
    BY <2>2, <2>3, <2>4
<1>9. NumbersWithin(new, low, high)
  <2> SUFFICES ASSUME NEW p \in 1 .. len - 1, Sends(new, p)
               PROVE  low <= new[p].image[1] /\ new[p].image[1] < high
    BY <1>2 DEF NumbersWithin
  <2> DEFINE x == p + 1
  <2>1. x \in 1 .. len /\ Sends(c, x) /\ new[p] = c[x]
    BY <1>2, <1>3
  <2> HIDE DEF x
  <2> QED
    BY <1>1, <2>1 DEF NumbersWithin, len
<1>10. Intact(new, smaller, but \union more, dam)
  <2> SUFFICES ASSUME NEW p \in 1 .. len - 1, Sends(new, p),
                      new[p].image[1] \notin (but \union more) \union dam,
                      NEW j \in 0 .. smaller[p] - 1
               PROVE  Carries(new, <<new[p].image[1], j>>)
    BY <1>2 DEF Intact
  <2> DEFINE x == p + 1
             k == c[x].image[1]
  <2>1. x \in 1 .. len /\ Sends(c, x) /\ new[p] = c[x] /\ smaller[p] = size[x]
    BY <1>2, <1>3
  <2> HIDE DEF x, smaller
  <2>2. Carries(c, <<k, j>>) /\ k \notin more
    BY <2>1 DEF Intact, len
  <2>3. PICK y \in 1 .. len : Sends(c, y) /\ c[y].image = <<k, j>>
    BY <2>2 DEF Carries, len
  <2>4. y # 1
    <3>1. c[y].image[1] = k
      BY <2>3
    <3> QED
      BY <2>2, <2>3, <3>1
  <2>5. y - 1 \in 1 .. len - 1 /\ (y - 1) + 1 = y
    BY <1>2, <2>4
  <2>6. Sends(new, y - 1) /\ new[y - 1].image = <<k, j>>
    BY <1>2, <1>3, <2>3, <2>5
  <2>7. new[p].image[1] = k
    BY <2>1
  <2> QED
    BY <1>2, <2>5, <2>6, <2>7 DEF Carries
<1> HIDE DEF smaller
<1>11. Orderly(new, smaller, size[1], last, low, high)
  BY <1>1, <1>2, <1>6, <1>7, <1>8, <1>9 DEF Orderly
<1> QED
  BY <1>6, <1>10, <1>11 DEF HeadGone, new

\* What follows the element e of frame k in the channel, in frames of n elements.
Follows(c, e, n, k, dam) ==
  /\ \A p \in 1 .. Len(c) : Sends(c, p) /\ c[p].image[1] = k =>
       e <= c[p].image[2] /\ \A x \in 1 .. p : Sends(c, x)
  /\ k \notin dam => \A j \in e .. n - 1 : Carries(c, <<k, j>>)

\* The first message begins a frame: all of it follows and nothing older.
LEMMA FrameBegins ==
  ASSUME NEW c, NEW size, NEW n, NEW last, NEW low, NEW high, NEW but, NEW dam,
         Orderly(c, size, n, last, low, high), Intact(c, size, but, dam), c # <<>>,
         Sends(c, 1), but \subseteq Nat, \A b \in but : b < c[1].image[1]
  PROVE  /\ Orderly(c, size, n, last, c[1].image[1], high)
         /\ Intact(c, size, {c[1].image[1]}, dam)
         /\ Follows(c, 0, n, c[1].image[1], dam)
         /\ c[1].image[1] < high
<1> DEFINE len == Len(c)
           k == c[1].image[1]
<1>1. /\ c \in Seq(Messages) /\ n \in 0 .. MaxSpheres /\ last \in 0 .. MaxSpheres
      /\ low \in Nat /\ high \in 0 .. MaxFrames
      /\ Sized(c, size, n, last) /\ InOrder(c) /\ NumbersWithin(c, low, high)
  BY DEF Orderly
<1>2. /\ len \in Nat /\ len > 0 /\ 1 \in 1 .. len
      /\ \A p \in 1 .. len : Sends(c, p) =>
           c[p].image[1] \in 0 .. MaxFrames - 1 /\ c[p].image[2] \in 0 .. MaxSpheres - 1
  <2>1. /\ len \in Nat
        /\ \A p \in 1 .. len : Sends(c, p) =>
             c[p].image[1] \in 0 .. MaxFrames - 1 /\ c[p].image[2] \in 0 .. MaxSpheres - 1
    BY <1>1, ChannelFacts
  <2>2. len > 0
    BY <1>1, HeadFacts
  <2> QED
    BY <2>1, <2>2
<1> HIDE DEF len
<1>3. k \in Nat /\ k < high
  BY <1>1, <1>2 DEF NumbersWithin, len
<1>4. ASSUME NEW p \in 1 .. len, Sends(c, p)
      PROVE  k <= c[p].image[1] /\ (c[p].image[1] = k => \A x \in 1 .. p : Sends(c, x))
  <2>1. CASE p = 1
    BY <1>2, <1>3, <2>1
  <2>2. CASE p # 1
    <3>1. 1 < p
      BY <1>2, <2>2
    <3>2. \/ k < c[p].image[1]
          \/ k = c[p].image[1] /\ \A x \in 1 .. p : Sends(c, x)
      BY <1>1, <1>2, <1>4, <3>1 DEF InOrder, len
    <3> QED
      BY <1>2, <1>3, <1>4, <3>2
  <2> QED
    BY <2>1, <2>2
<1> HIDE DEF k
<1>5. NumbersWithin(c, k, high)
  BY <1>1, <1>4 DEF NumbersWithin, len
<1>6. Intact(c, size, {k}, dam)
  <2> SUFFICES ASSUME NEW p \in 1 .. len, Sends(c, p), c[p].image[1] \notin {k} \union dam,
                      NEW j \in 0 .. size[p] - 1
               PROVE  Carries(c, <<c[p].image[1], j>>)
    BY DEF Intact, len
  <2>1. k <= c[p].image[1] /\ c[p].image[1] \in Nat
    BY <1>2, <1>4
  <2>2. c[p].image[1] \notin but
    BY <1>3, <2>1 DEF k
  <2> QED
    BY <2>2 DEF Intact, len
<1>7. Follows(c, 0, n, k, dam)
  <2>1. size[1] = n
    <3>1. size[1] = size[1 - 1] /\ size[0] = n
      BY <1>1, <1>2 DEF Sized, len
    <3>2. 1 - 1 = 0
      OBVIOUS
    <3> QED
      BY <3>1, <3>2
  <2>2. ASSUME k \notin dam, NEW j \in 0 .. n - 1 PROVE Carries(c, <<k, j>>)
    <3>1. k \notin but
      BY <1>3 DEF k
    <3> QED
      BY <1>2, <2>1, <2>2, <3>1 DEF Intact, len, k
  <2>3. ASSUME NEW p \in 1 .. len, Sends(c, p), c[p].image[1] = k
        PROVE  0 <= c[p].image[2] /\ \A x \in 1 .. p : Sends(c, x)
    <3>1. c[p].image[2] \in 0 .. MaxSpheres - 1
      BY <1>2, <2>3
    <3> QED
      BY <1>4, <2>3, <3>1
  <2> QED
    BY <2>2, <2>3 DEF Follows, len
<1>8. Orderly(c, size, n, last, k, high)
  BY <1>1, <1>3, <1>5 DEF Orderly
<1> QED
  BY <1>3, <1>6, <1>7, <1>8 DEF k

\* The first message carries an image of frame k, if k has lost nothing its next
\* one, and is taken.
ElementTaken(c, e, n, k, dam) ==
  /\ e < n
  /\ c[1].image \in {k} \X (0 .. MaxSpheres - 1)
  /\ k \notin dam => c[1].image = <<k, e>>
  /\ Follows(Tail(c), e + 1, n, k, dam)

\* The next image of the frame arrives: of a frame that lost nothing, the next one.
LEMMA ElementArrives ==
  ASSUME NEW c, NEW size, NEW n, NEW last, NEW low, NEW high, NEW dam,
         NEW k, NEW e \in Nat,
         Orderly(c, size, n, last, low, high), Follows(c, e, n, k, dam), c # <<>>,
         Sends(c, 1), c[1].image[1] = k
  PROVE  ElementTaken(c, e, n, k, dam)
<1> DEFINE len == Len(c)
           new == Tail(c)
           i == c[1].image[2]
<1>1. /\ c \in Seq(Messages) /\ n \in 0 .. MaxSpheres /\ last \in 0 .. MaxSpheres
      /\ Sized(c, size, n, last) /\ InOrder(c)
  BY DEF Orderly
<1>2. /\ len \in Nat
      /\ \A p \in 1 .. len : Sends(c, p) =>
           /\ c[p].image[1] \in 0 .. MaxFrames - 1 /\ c[p].image[2] \in 0 .. MaxSpheres - 1
           /\ c[p].image = <<c[p].image[1], c[p].image[2]>>
  BY <1>1, ChannelFacts
<1>3. /\ len > 0 /\ Len(new) = len - 1 /\ \A p \in 1 .. len - 1 : new[p] = c[p + 1]
  BY <1>1, HeadFacts
<1> HIDE DEF len, new
<1>4. 1 \in 1 .. len /\ i \in 0 .. MaxSpheres - 1 /\ c[1].image = <<k, i>>
  BY <1>2, <1>3
<1> HIDE DEF i
<1>5. e <= i
  BY <1>4 DEF Follows, len, i
<1>6. i < n
  <2>1. size[1] = size[1 - 1] /\ size[0] = n /\ i < size[1]
    BY <1>1, <1>4 DEF Sized, len, i
  <2>2. 1 - 1 = 0
    OBVIOUS
  <2> QED
    BY <2>1, <2>2
<1>7. e < n
  BY <1>1, <1>4, <1>5, <1>6
<1>8. ASSUME NEW p \in 1 .. len, Sends(c, p), c[p].image[1] = k, p # 1
      PROVE  i < c[p].image[2]
  <2>1. 1 < p
    BY <1>2, <1>8
  <2>2. \/ c[1].image[1] < c[p].image[1]
        \/ c[1].image[1] = c[p].image[1] /\ c[1].image[2] < c[p].image[2]
    BY <1>1, <1>4, <1>8, <2>1 DEF InOrder, len
  <2>3. c[1].image[1] = c[p].image[1] /\ c[p].image[1] \in Int
    BY <1>2, <1>8
  <2> QED
    BY <2>2, <2>3 DEF i
<1>9. k \notin dam => i = e
  <2> SUFFICES ASSUME k \notin dam PROVE i = e
    OBVIOUS
  <2>1. e \in e .. n - 1
    BY <1>1, <1>7
  <2>2. PICK p \in 1 .. len : Sends(c, p) /\ c[p].image = <<k, e>>
    BY <2>1 DEF Follows, Carries, len
  <2>3. c[p].image[1] = k /\ c[p].image[2] = e
    BY <2>2
  <2>4. p = 1
    BY <1>4, <1>5, <1>8, <2>2, <2>3
  <2> QED
    BY <2>3, <2>4 DEF i
<1>10. ASSUME NEW p \in 1 .. len - 1, Sends(new, p), new[p].image[1] = k
       PROVE  e + 1 <= new[p].image[2] /\ \A x \in 1 .. p : Sends(new, x)
  <2>1. /\ p + 1 \in 1 .. len /\ p + 1 # 1 /\ new[p] = c[p + 1]
        /\ \A x \in 1 .. p : x + 1 \in 1 .. p + 1 /\ new[x] = c[x + 1]
    BY <1>2, <1>3
  <2>2. Sends(c, p + 1) /\ c[p + 1].image[1] = k
    BY <1>10, <2>1 DEF Sends
  <2>3. i < c[p + 1].image[2] /\ c[p + 1].image[2] \in Int
    BY <1>2, <1>8, <2>1, <2>2
  <2>4. \A x \in 1 .. p + 1 : Sends(c, x)
    BY <2>1, <2>2 DEF Follows, len
  <2>5. \A x \in 1 .. p : Sends(new, x)
    BY <2>1, <2>4 DEF Sends
  <2> QED
    BY <1>4, <1>5, <2>1, <2>3, <2>5
<1>11. ASSUME k \notin dam, NEW j \in e + 1 .. n - 1 PROVE Carries(new, <<k, j>>)
  <2>1. j \in e .. n - 1 /\ j # e
    BY <1>1, <1>11
  <2>2. PICK p \in 1 .. len : Sends(c, p) /\ c[p].image = <<k, j>>
    BY <1>11, <2>1 DEF Follows, Carries, len
  <2>3. p # 1
    <3>1. c[p].image[2] = j
      BY <2>2
    <3> QED
      BY <1>9, <1>11, <2>1, <3>1 DEF i
  <2>4. p - 1 \in 1 .. len - 1 /\ new[p - 1] = c[(p - 1) + 1] /\ (p - 1) + 1 = p
    BY <1>2, <1>3, <2>3
  <2>5. Sends(new, p - 1) /\ new[p - 1].image = <<k, j>>
    BY <2>2, <2>4 DEF Sends
  <2> QED
    BY <1>3, <2>4, <2>5 DEF Carries
<1>12. Follows(new, e + 1, n, k, dam)
  BY <1>3, <1>10, <1>11 DEF Follows
<1> QED
  BY <1>4, <1>7, <1>9, <1>12 DEF ElementTaken, new

\* What the channel holds without its first message, an image of frame k.
ImageTaken(c, n, last, low, high, k, dam) ==
  \E smaller : /\ Orderly(Tail(c), smaller, n, last, low, high)
              /\ Intact(Tail(c), smaller, {k}, dam)

\* An image of the frame that is being filled is taken.
LEMMA ImageLeaves ==
  ASSUME NEW c, NEW size, NEW n, NEW last, NEW low, NEW high, NEW k, NEW dam,
         Orderly(c, size, n, last, low, high), Intact(c, size, {k}, dam), c # <<>>,
         Sends(c, 1), c[1].image[1] = k
  PROVE  ImageTaken(c, n, last, low, high, k, dam)
<1> PICK but : but = {k}
  OBVIOUS
<1>1. Intact(c, size, but, dam)
  OBVIOUS
<1>2. Sends(c, 1) => but = {c[1].image[1]}
  OBVIOUS
<1>3. HeadGone(c, size, n, last, low, high, but, but, dam)
  BY <1>1, <1>2, HeadTaken
<1>4. size[1] = n /\ but \union but = {k}
  BY <1>3 DEF HeadGone
<1> QED
  BY <1>3, <1>4 DEF HeadGone, ImageTaken

\* Nothing of the frame follows a resize.
LEMMA ResizeEndsFrame ==
  ASSUME NEW c, NEW size, NEW n, NEW last, NEW high, NEW dam, NEW k, NEW e,
         Orderly(c, size, n, last, k, high), Follows(c, e, n, k, dam), c # <<>>,
         Intact(c, size, {k}, dam), ~Sends(c, 1)
  PROVE  /\ \A p \in 1 .. Len(c) : Sends(c, p) => c[p].image[1] # k
         /\ NumbersWithin(c, k + 1, high)
         /\ Intact(c, size, {}, dam)
<1>1. c \in Seq(Messages) /\ k \in Nat /\ NumbersWithin(c, k, high)
  BY DEF Orderly
<1>2. \A p \in 1 .. Len(c) : 1 \in 1 .. p /\ (Sends(c, p) => c[p].image[1] \in 0 .. MaxFrames - 1)
  BY <1>1, ChannelFacts
<1>3. ASSUME NEW p \in 1 .. Len(c), Sends(c, p) PROVE c[p].image[1] # k
  BY <1>2, <1>3 DEF Follows
<1>4. NumbersWithin(c, k + 1, high)
  BY <1>1, <1>2, <1>3 DEF NumbersWithin
<1>5. Intact(c, size, {}, dam)
  BY <1>3 DEF Intact
<1> QED
  BY <1>3, <1>4, <1>5

\* The i-th frame of a list is as the server sent it, or lost some of its spheres.
SoundAt(list, i, dam) ==
  /\ list[i][0][1] \in dam \/ IsFrame(list[i], list[i][0][1])
  /\ \A j \in 1 .. i - 1 : IsBlank(list[j]) \/ list[j][0][1] < list[i][0][1]

Sound(list, dam) ==
  \A i \in 1 .. Len(list) : IF IsBlank(list[i]) THEN i = 1 ELSE SoundAt(list, i, dam)

\* The frames of a list were sent before frame k.
Older(list, k) ==
  \A i \in 1 .. Len(list) :
    IsBlank(list[i]) \/ (list[i][0][1] \in Nat /\ list[i][0][1] < k)

\* The oldest frame leaves the list.
LEMMA SoundTail ==
  ASSUME NEW S, NEW list \in Seq(S), list # <<>>, NEW dam, NEW k
  PROVE  /\ Sound(list, dam) => Sound(Tail(list), dam)
         /\ Older(list, k) => Older(Tail(list), k)
<1> DEFINE new == Tail(list)
           len == Len(list)
<1>1. /\ len \in Nat /\ len > 0 /\ new \in Seq(S) /\ Len(new) = len - 1
      /\ \A i \in 1 .. len - 1 : new[i] = list[i + 1]
  <2>1. Len(list) \in Nat \ {0}
    BY EmptySeq
  <2>2. /\ new \in Seq(S) /\ Len(new) = len - 1 /\ \A i \in 1 .. Len(new) : new[i] = list[i + 1]
    BY HeadTailProperties
  <2> HIDE DEF new
  <2> QED
    BY <2>1, <2>2
<1> HIDE DEF new, len
<1>2. ASSUME Sound(list, dam), NEW i \in 1 .. len - 1
      PROVE  ~IsBlank(new[i]) /\ SoundAt(new, i, dam)
  <2>1. i + 1 \in 1 .. len /\ i + 1 # 1 /\ new[i] = list[i + 1]
    BY <1>1
  <2>2. ~IsBlank(list[i + 1]) /\ SoundAt(list, i + 1, dam)
    BY <1>2, <2>1 DEF Sound, len
  <2>3. ASSUME NEW j \in 1 .. i - 1
        PROVE  IsBlank(new[j]) \/ new[j][0][1] < new[i][0][1]
    <3>1. j \in 1 .. len - 1 /\ j + 1 \in 1 .. (i + 1) - 1
      BY <1>1
    <3> QED
      BY <1>1, <2>1, <2>2, <3>1 DEF SoundAt
  <2> QED
    BY <2>1, <2>2, <2>3 DEF SoundAt
<1>3. ASSUME Older(list, k), NEW i \in 1 .. len - 1
      PROVE  IsBlank(new[i]) \/ (new[i][0][1] \in Nat /\ new[i][0][1] < k)
  <2>1. i + 1 \in 1 .. len /\ new[i] = list[i + 1]
    BY <1>1
  <2> QED
    BY <1>3, <2>1 DEF Older, len
<1> QED
  BY <1>1, <1>2, <1>3 DEF Sound, Older, new

\* A frame that was filled with the images of frame k joins the list.
LEMMA SoundAppend ==
  ASSUME NEW S, NEW list \in Seq(S), NEW frame \in S, NEW dam, NEW k \in Nat,
         Sound(list, dam), Older(list, k),
         IF IsBlank(frame) THEN list = <<>>
         ELSE frame[0][1] = k /\ (k \in dam \/ IsFrame(frame, k))
  PROVE  /\ Sound(Append(list, frame), dam)
         /\ \A m \in Nat : k < m => Older(Append(list, frame), m)
<1> DEFINE new == Append(list, frame)
           len == Len(list)
<1>1. /\ len \in Nat /\ new \in Seq(S) /\ Len(new) = len + 1 /\ new[len + 1] = frame
      /\ \A i \in 1 .. len : new[i] = list[i]
      /\ list = <<>> => len = 0
  BY LenProperties, AppendProperties, EmptySeq
<1> HIDE DEF new, len
<1>2. \A i \in 1 .. len + 1 : i \in 1 .. len \/ i = len + 1
  BY <1>1
<1>3. ASSUME NEW i \in 1 .. len
      PROVE  IF IsBlank(new[i]) THEN i = 1 ELSE SoundAt(new, i, dam)
  <2>1. IF IsBlank(list[i]) THEN i = 1 ELSE SoundAt(list, i, dam)
    BY DEF Sound, len
  <2>2. new[i] = list[i] /\ \A j \in 1 .. i - 1 : new[j] = list[j]
    BY <1>1
  <2> QED
    BY <2>1, <2>2 DEF SoundAt
<1>4. IF IsBlank(new[len + 1]) THEN len + 1 = 1 ELSE SoundAt(new, len + 1, dam)
  <2>1. CASE IsBlank(frame)
    BY <1>1, <2>1
  <2>2. CASE ~IsBlank(frame)
    <3>1. frame[0][1] = k /\ (k \in dam \/ IsFrame(frame, k))
      BY <2>2
    <3>2. ASSUME NEW j \in 1 .. (len + 1) - 1
          PROVE  IsBlank(new[j]) \/ new[j][0][1] < k
      <4>1. j \in 1 .. len
        BY <1>1
      <4> QED
        BY <1>1, <4>1 DEF Older, len
    <3> QED
      BY <1>1, <2>2, <3>1, <3>2 DEF SoundAt
  <2> QED
    BY <2>1, <2>2
<1>5. ASSUME NEW m \in Nat, k < m, NEW i \in 1 .. len + 1
      PROVE  IsBlank(new[i]) \/ (new[i][0][1] \in Nat /\ new[i][0][1] < m)
  <2>1. CASE i \in 1 .. len
    <3>1. IsBlank(list[i]) \/ (list[i][0][1] \in Nat /\ list[i][0][1] < k)
      BY <2>1 DEF Older, len
    <3>2. new[i] = list[i]
      BY <1>1, <2>1
    <3>3. CASE IsBlank(list[i])
      BY <3>2, <3>3
    <3>4. CASE list[i][0][1] \in Nat /\ list[i][0][1] < k
      BY <1>5, <3>2, <3>4
    <3> QED
      BY <3>1, <3>3, <3>4
  <2>2. CASE i = len + 1
    BY <1>1, <1>5, <2>2
  <2> QED
    BY <1>2, <2>1, <2>2
<1> QED
  BY <1>1, <1>2, <1>3, <1>4, <1>5 DEF Sound, Older, new

\* A frame more that lost something does not matter, no more than no frame at all.
LEMMA SoundKept ==
  /\ \A list, dam, more : Sound(list, dam) => Sound(list, dam \union more)
  /\ \A dam, k : Sound(<<>>, dam) /\ Older(<<>>, k)
<1>1. ASSUME NEW list, NEW dam, NEW more, Sound(list, dam) PROVE Sound(list, dam \union more)
  BY <1>1 DEF Sound, SoundAt
<1>2. ASSUME NEW dam, NEW k PROVE Sound(<<>>, dam) /\ Older(<<>>, k)
  BY DEF Sound, Older
<1> QED
  BY <1>1, <1>2

-----------------------------------------------------------------------------
\* The first e elements of a frame are images of frame k, all if it lost nothing.
StartsWith(frame, e, k, dam) ==
  \A i \in 0 .. e - 1 :
    /\ frame[i] \in {k} \X (0 .. MaxSpheres - 1)
    /\ k \notin dam => frame[i] = <<k, i>>

\* What the channel holds fits the ring, but for the frames that have begun to arrive.
ChannelFits(but) ==
  \E size : /\ Orderly(toClient, size, elementsPerFrame, spheres, frameCounter, serverFrame)
            /\ Intact(toClient, size, but, damaged)

\* The ring is empty, nothing was written since it was resized, and nothing will be
\* before the next frame begins: either none has begun yet or all are newer.
Untouched ==
  /\ ChannelFits({})
  /\ main # "newFrame"
  /\ readIndex = writeIndex
  /\ IsBlank(frames[writeIndex])
  /\ \/ elementWriteIndex = 0 /\ frameCounter = 0
     \/ frameCounter < serverFrame /\ NumbersWithin(toClient, frameCounter + 1, serverFrame)

\* Frame number frameCounter is being written; what is missing of it is under way.
BeingFilled ==
  /\ ChannelFits({frameCounter})
  /\ frameCounter < serverFrame
  /\ elementWriteIndex <= elementsPerFrame
  /\ IF main = "newFrame"
     THEN elementWriteIndex = 0 /\ Sends(toClient, 1) /\ toClient[1].image[1] = frameCounter
     ELSE elementWriteIndex > 0
  /\ StartsWith(frames[writeIndex], elementWriteIndex, frameCounter, damaged)
  /\ Follows(toClient, elementWriteIndex, elementsPerFrame, frameCounter, damaged)
  /\ Older(WholeFrames, frameCounter)

StreamInv == Sound(WholeFrames, damaged) /\ (Untouched \/ BeingFilled)

\* What is added behind a frame neither belongs to it nor is older.
LEMMA Extended ==
  ASSUME NEW c \in Seq(Messages), NEW new, NEW more \in Nat, Len(new) = Len(c) + more,
         \A p \in 1 .. Len(c) : new[p] = c[p],
         NEW k \in Nat, NEW high \in Nat, NEW later \in Nat, high <= later,
         \A p \in Len(c) + 1 .. Len(c) + more :
           Sends(new, p) => k < new[p].image[1] /\ new[p].image[1] < later /\ new[p].image[1] \in Nat
  PROVE  /\ \A e, n, dam : Follows(c, e, n, k, dam) => Follows(new, e, n, k, dam)
         /\ NumbersWithin(c, k + 1, high) => NumbersWithin(new, k + 1, later)
<1> DEFINE len == Len(c)
<1>1. /\ len \in Nat
      /\ \A p \in 1 .. len : Sends(c, p) => c[p].image[1] \in 0 .. MaxFrames - 1
  BY ChannelFacts
<1> HIDE DEF len
<1>2. /\ Len(new) = len + more
      /\ \A p \in 1 .. len : new[p] = c[p] /\ (Sends(new, p) <=> Sends(c, p))
      /\ \A p \in 1 .. len + more : p \in 1 .. len \/ p \in len + 1 .. len + more
  BY <1>1 DEF Sends, len
<1>3. ASSUME NEW p \in len + 1 .. len + more, Sends(new, p)
      PROVE  k < new[p].image[1] /\ new[p].image[1] < later /\ new[p].image[1] \in Nat
  BY <1>3 DEF len
<1>4. ASSUME NEW e, NEW n, NEW dam, Follows(c, e, n, k, dam)
      PROVE  Follows(new, e, n, k, dam)
  <2>1. ASSUME NEW p \in 1 .. len + more, Sends(new, p), new[p].image[1] = k
        PROVE  e <= new[p].image[2] /\ \A x \in 1 .. p : Sends(new, x)
    <3>1. p \in 1 .. len
      BY <1>2, <1>3, <2>1
    <3>2. \A x \in 1 .. p : x \in 1 .. len
      BY <1>1, <3>1
    <3>3. e <= c[p].image[2] /\ \A x \in 1 .. p : Sends(c, x)
      BY <1>2, <1>4, <2>1, <3>1 DEF Follows, len
    <3> QED
      BY <1>2, <3>1, <3>2, <3>3
  <2>2. ASSUME k \notin dam, NEW j \in e .. n - 1 PROVE Carries(new, <<k, j>>)
    <3>1. PICK p \in 1 .. len : Sends(c, p) /\ c[p].image = <<k, j>>
      BY <1>4, <2>2 DEF Follows, Carries, len
    <3>2. p \in 1 .. len + more
      BY <1>1
    <3> QED
      BY <1>2, <3>1, <3>2 DEF Carries
  <2> QED
    BY <1>2, <2>1, <2>2 DEF Follows
<1>5. ASSUME NumbersWithin(c, k + 1, high)
      PROVE  NumbersWithin(new, k + 1, later)
  <2>1. ASSUME NEW p \in 1 .. len, Sends(new, p)
        PROVE  k + 1 <= new[p].image[1] /\ new[p].image[1] < later
    <3>1. k + 1 <= c[p].image[1] /\ c[p].image[1] < high /\ c[p].image[1] \in Int
      BY <1>1, <1>2, <1>5, <2>1 DEF NumbersWithin, len
    <3>2. new[p] = c[p]
      BY <1>2
    <3> QED
      BY <3>1, <3>2
  <2>2. ASSUME NEW p \in len + 1 .. len + more, Sends(new, p)
        PROVE  k + 1 <= new[p].image[1] /\ new[p].image[1] < later
    BY <1>3, <2>2
  <2> QED
    BY <1>2, <2>1, <2>2 DEF NumbersWithin
<1> QED
  BY <1>4, <1>5

\* Neither does what is left when a message is lost.
LEMMA Shortened ==
  ASSUME NEW c \in Seq(Messages), NEW i \in 1 .. Len(c), Sends(c, i), NEW new,
         Len(new) = Len(c) - 1,
         \A p \in 1 .. Len(c) - 1 : new[p] = IF p < i THEN c[p] ELSE c[p + 1],
         \A image : Carries(c, image) /\ image[1] # c[i].image[1] => Carries(new, image)
  PROVE  /\ \A e, n, k, dam : Follows(c, e, n, k, dam)
                                => Follows(new, e, n, k, dam \union {c[i].image[1]})
         /\ \A low, high : NumbersWithin(c, low, high) => NumbersWithin(new, low, high)
<1> DEFINE len == Len(c)
           old(p) == IF p < i THEN p ELSE p + 1
<1>1. len \in Nat /\ i \in 1 .. len /\ Len(new) = len - 1
  BY ChannelFacts
<1>2. \A p \in 1 .. len - 1 : old(p) \in 1 .. len /\ new[p] = c[old(p)]
  BY <1>1
<1> HIDE DEF len
<1>3. ASSUME NEW e, NEW n, NEW k, NEW dam, Follows(c, e, n, k, dam)
      PROVE  Follows(new, e, n, k, dam \union {c[i].image[1]})
  <2>1. ASSUME NEW p \in 1 .. len - 1, Sends(new, p), new[p].image[1] = k
        PROVE  e <= new[p].image[2] /\ \A x \in 1 .. p : Sends(new, x)
    <3> DEFINE q == old(p)
    <3>1. q \in 1 .. len /\ new[p] = c[q]
      BY <1>2
    <3>2. \A x \in 1 .. p : x \in 1 .. len - 1 /\ old(x) \in 1 .. q
      BY <1>1
    <3> HIDE DEF q
    <3>3. Sends(c, q) /\ c[q].image[1] = k
      BY <2>1, <3>1 DEF Sends
    <3>4. e <= c[q].image[2] /\ \A x \in 1 .. q : Sends(c, x)
      BY <1>3, <3>1, <3>3 DEF Follows, len
    <3>5. ASSUME NEW x \in 1 .. p PROVE Sends(new, x)
      <4>1. new[x] = c[old(x)] /\ old(x) \in 1 .. q
        BY <1>2, <3>2
      <4> QED
        BY <3>4, <4>1 DEF Sends
    <3> QED
      BY <3>1, <3>4, <3>5
  <2>2. ASSUME k \notin dam \union {c[i].image[1]}, NEW j \in e .. n - 1
        PROVE  Carries(new, <<k, j>>)
    <3>1. Carries(c, <<k, j>>)
      BY <1>3, <2>2 DEF Follows
    <3>2. <<k, j>>[1] # c[i].image[1]
      BY <2>2
    <3> QED
      BY <3>1, <3>2
  <2> QED
    BY <1>1, <2>1, <2>2 DEF Follows
<1>4. ASSUME NEW low, NEW high, NumbersWithin(c, low, high)
      PROVE  NumbersWithin(new, low, high)
  <2> SUFFICES ASSUME NEW p \in 1 .. len - 1, Sends(new, p)
               PROVE  low <= new[p].image[1] /\ new[p].image[1] < high
    BY <1>1 DEF NumbersWithin
  <2> DEFINE q == old(p)
  <2>1. q \in 1 .. len /\ new[p] = c[q]
    BY <1>2
  <2> HIDE DEF q
  <2>2. Sends(c, q)
    BY <2>1 DEF Sends
  <2> QED
    BY <1>4, <2>1, <2>2 DEF NumbersWithin, len
<1> QED
  BY <1>3, <1>4

\* A step of the channel that leaves the client alone.
ChannelMoves(new) ==
  /\ toClient' = new
  /\ UNCHANGED <<frames, readIndex, writeIndex, elementsPerFrame, elementWriteIndex,
                 frameCounter, main>>
  /\ damaged \subseteq damaged'
  /\ serverFrame <= serverFrame'
  /\ main = "newFrame" => new[1] = toClient[1]

\* It keeps the invariant if it keeps what the invariant says of the channel.
LEMMA ChannelMovesWell ==
  ASSUME StreamInv, StreamTypeOK, StreamTypeOK', NEW new, ChannelMoves(new),
         \A but : (\E size : /\ Orderly(toClient, size, elementsPerFrame, spheres,
                                        frameCounter, serverFrame)
                             /\ Intact(toClient, size, but, damaged))
                  => \E size : /\ Orderly(new, size, elementsPerFrame, spheres',
                                          frameCounter, serverFrame')
                               /\ Intact(new, size, but, damaged'),
         frameCounter < serverFrame =>
           /\ NumbersWithin(toClient, frameCounter + 1, serverFrame)
                => NumbersWithin(new, frameCounter + 1, serverFrame')
           /\ \A e, n : Follows(toClient, e, n, frameCounter, damaged)
                => Follows(new, e, n, frameCounter, damaged')
  PROVE  StreamInv'
<1>1. /\ serverFrame \in Int /\ serverFrame' \in Int /\ frameCounter \in Int
  BY DEF StreamTypeOK
<1>2. /\ toClient' = new
      /\ UNCHANGED <<frames, readIndex, writeIndex, elementsPerFrame, elementWriteIndex,
                 frameCounter, main>>
      /\ serverFrame <= serverFrame'
      /\ main = "newFrame" => new[1] = toClient[1]
  BY DEF ChannelMoves
<1>3. WholeFrames' = WholeFrames
  BY <1>2 DEF WholeFrames
<1>4. PICK more : damaged' = damaged \union more
  BY DEF ChannelMoves
<1>5. Sound(WholeFrames, damaged)'
  BY <1>3, <1>4, SoundKept DEF StreamInv
<1>6. CASE Untouched
  <2>1. ChannelFits({})'
    BY <1>2, <1>6 DEF Untouched, ChannelFits
  <2>2. \/ elementWriteIndex' = 0 /\ frameCounter' = 0
        \/ /\ frameCounter' < serverFrame'
           /\ NumbersWithin(toClient', frameCounter' + 1, serverFrame')
    BY <1>1, <1>2, <1>6 DEF Untouched
  <2>3. Untouched'
    BY <1>2, <1>6, <2>1, <2>2 DEF Untouched
  <2> QED
    BY <1>5, <2>3 DEF StreamInv
<1>7. CASE BeingFilled
  <2>1. ChannelFits({frameCounter})'
    BY <1>2, <1>7 DEF BeingFilled, ChannelFits
  <2>2. frameCounter' < serverFrame'
    BY <1>1, <1>2, <1>7 DEF BeingFilled
  <2>3. Follows(toClient', elementWriteIndex', elementsPerFrame', frameCounter', damaged')
    BY <1>2, <1>7 DEF BeingFilled
  <2>4. StartsWith(frames[writeIndex], elementWriteIndex, frameCounter, damaged)'
    BY <1>2, <1>4, <1>7 DEF BeingFilled, StartsWith
  <2>5. Older(WholeFrames, frameCounter)'
    BY <1>2, <1>3, <1>7 DEF BeingFilled
  <2>6. /\ elementWriteIndex' <= elementsPerFrame'
        /\ IF main' = "newFrame"
           THEN /\ elementWriteIndex' = 0 /\ Sends(toClient', 1)
                /\ toClient'[1].image[1] = frameCounter'
           ELSE elementWriteIndex' > 0
    BY <1>2, <1>7 DEF BeingFilled, Sends
  <2>7. BeingFilled'
    BY <2>1, <2>2, <2>3, <2>4, <2>5, <2>6 DEF BeingFilled
  <2> QED
    BY <1>5, <2>7 DEF StreamInv
<1> QED
  BY <1>6, <1>7 DEF StreamInv

\* The server's worker and the faults of the channel keep the invariant.
LEMMA ServerKeepsFrames ==
  ASSUME StreamInv, NewFrameHasMessage, ChannelTyped, StreamTypeOK, StreamTypeOK',
         PrepareFrame \/ (\E n \in 0 .. MaxSpheres : UpdateSphereCount(n)) \/ Lose
  PROVE  StreamInv'
<1> PICK c : c = toClient
  OBVIOUS
<1> PICK k : k = frameCounter
  OBVIOUS
<1> PICK high : high = serverFrame
  OBVIOUS
<1> PICK dam : dam = damaged
  OBVIOUS
<1> PICK n : n = elementsPerFrame
  OBVIOUS
<1> PICK last : last = spheres
  OBVIOUS
<1>1. /\ c \in Seq(Messages) /\ last \in 0 .. MaxSpheres /\ high \in 0 .. MaxFrames
      /\ k \in Nat /\ MaxFrames \in Nat /\ MaxSpheres \in Nat /\ Len(c) \in Nat
  BY FrameStreamAssumption, LenProperties DEF ChannelTyped, StreamTypeOK
<1>2. k <= high
  BY <1>1 DEF StreamInv, Untouched, BeingFilled
<1>3. main = "newFrame" => Len(c) > 0 /\ Sends(c, 1)
  <2>1. toClient # <<>> => Len(toClient) > 0 /\ Head(toClient) = toClient[1]
    BY <1>1, HeadFacts
  <2> QED
    BY <2>1 DEF NewFrameHasMessage, Sends
<1>4. CASE PrepareFrame
  <2> DEFINE list == ImagesOf(high)
             new == c \o list
  <2>1. /\ list \in Seq(Messages) /\ Len(list) = last /\ high < MaxFrames
        /\ \A i \in 1 .. last : list[i] = FrameMessage(<<high, i - 1>>)
    <3>1. high < MaxFrames
      BY <1>4 DEF PrepareFrame
    <3> QED
      BY <3>1, ImagesFacts
  <2>2. /\ toClient' = new /\ serverFrame' = high + 1 /\ spheres' = last /\ damaged' = dam
        /\ UNCHANGED <<frames, readIndex, writeIndex, elementsPerFrame, elementWriteIndex,
                       frameCounter, main>>
    BY <1>4 DEF PrepareFrame, ClientRests, vars, faultVars
  <2> HIDE DEF list
  <2>3. ASSUME NEW but, NEW size, Orderly(c, size, n, last, k, high), Intact(c, size, but, dam)
        PROVE  /\ \E bigger : /\ Orderly(new, bigger, n, last, k, high + 1)
                              /\ Intact(new, bigger, but, dam)
               /\ Len(new) = Len(c) + last
               /\ \A p \in 1 .. Len(c) : new[p] = c[p]
               /\ \A p \in Len(c) + 1 .. Len(c) + last :
                    new[p] = FrameMessage(<<high, p - Len(c) - 1>>)
    BY <1>2, <2>1, <2>3, FrameSent
  <2>4. PICK but, size : Orderly(c, size, n, last, k, high) /\ Intact(c, size, but, dam)
    BY DEF StreamInv, Untouched, BeingFilled, ChannelFits
  <2>5. /\ Len(new) = Len(c) + last
        /\ \A p \in 1 .. Len(c) : new[p] = c[p]
        /\ \A p \in Len(c) + 1 .. Len(c) + last :
             new[p] = FrameMessage(<<high, p - Len(c) - 1>>)
    BY <2>3, <2>4
  <2> HIDE DEF new
  <2>6. \A p \in Len(c) + 1 .. Len(c) + last : new[p].image[1] = high
    <3>1. \A p \in Len(c) + 1 .. Len(c) + last : new[p].image = <<high, p - Len(c) - 1>>
      BY <2>5, KindFacts
    <3> QED
      BY <3>1
  <2>7. k < high =>
          /\ \A e, m, d : Follows(c, e, m, k, d) => Follows(new, e, m, k, d)
          /\ NumbersWithin(c, k + 1, high) => NumbersWithin(new, k + 1, high + 1)
    <3> SUFFICES ASSUME k < high
                 PROVE  /\ \A e, m, d : Follows(c, e, m, k, d) => Follows(new, e, m, k, d)
                        /\ NumbersWithin(c, k + 1, high) => NumbersWithin(new, k + 1, high + 1)
      OBVIOUS
    <3> PICK later : later = high + 1
      OBVIOUS
    <3>1. last \in Nat /\ high \in Nat /\ later \in Nat /\ high <= later /\ high < later
      BY <1>1
    <3>2. ASSUME NEW p \in Len(c) + 1 .. Len(c) + last, Sends(new, p)
          PROVE  /\ k < new[p].image[1] /\ new[p].image[1] < later
                 /\ new[p].image[1] \in Nat
      <4>1. new[p].image[1] = high
        BY <2>6
      <4> QED
        BY <3>1, <4>1
    <3>3. /\ \A e, m, d : Follows(c, e, m, k, d) => Follows(new, e, m, k, d)
          /\ NumbersWithin(c, k + 1, high) => NumbersWithin(new, k + 1, later)
      <4>1. Len(new) = Len(c) + last /\ \A p \in 1 .. Len(c) : new[p] = c[p]
        BY <2>5
      <4>2. c \in Seq(Messages) /\ k \in Nat
        BY <1>1
      <4>3. \A p \in Len(c) + 1 .. Len(c) + last : Sends(new, p) =>
              /\ k < new[p].image[1] /\ new[p].image[1] < later
              /\ new[p].image[1] \in Nat
        BY <3>2
      <4> QED
        BY <3>1, <4>1, <4>2, <4>3, Extended, ZenonT(100)
    <3> QED
      BY <3>3
  <2>8. ChannelMoves(new)
    <3>1. main = "newFrame" => new[1] = c[1]
      BY <1>1, <1>3, <2>5
    <3> QED
      BY <1>1, <2>2, <3>1 DEF ChannelMoves
  <2> QED
    BY <2>2, <2>3, <2>7, <2>8, ChannelMovesWell
<1>5. ASSUME NEW m \in 0 .. MaxSpheres, UpdateSphereCount(m) PROVE StreamInv'
  <2> DEFINE new == Append(c, CountMessage(m))
  <2>1. /\ toClient' = new /\ serverFrame' = high /\ spheres' = m /\ damaged' = dam
        /\ UNCHANGED <<frames, readIndex, writeIndex, elementsPerFrame, elementWriteIndex,
                       frameCounter, main>>
    BY <1>5 DEF UpdateSphereCount, ClientRests, vars, faultVars
  <2>2. ASSUME NEW but, NEW size, Orderly(c, size, n, last, k, high), Intact(c, size, but, dam)
        PROVE  /\ \E bigger : /\ Orderly(new, bigger, n, m, k, high)
                              /\ Intact(new, bigger, but, dam)
               /\ Len(new) = Len(c) + 1
               /\ \A p \in 1 .. Len(c) : new[p] = c[p]
               /\ new[Len(c) + 1] = CountMessage(m)
    BY <2>2, CountSent
  <2>3. PICK but, size : Orderly(c, size, n, last, k, high) /\ Intact(c, size, but, dam)
    BY DEF StreamInv, Untouched, BeingFilled, ChannelFits
  <2>4. /\ Len(new) = Len(c) + 1
        /\ \A p \in 1 .. Len(c) : new[p] = c[p]
        /\ new[Len(c) + 1] = CountMessage(m)
    BY <2>2, <2>3
  <2> HIDE DEF new
  <2>5. k < high =>
          /\ \A e, x, d : Follows(c, e, x, k, d) => Follows(new, e, x, k, d)
          /\ NumbersWithin(c, k + 1, high) => NumbersWithin(new, k + 1, high)
    <3> SUFFICES ASSUME k < high
                 PROVE  /\ \A e, x, d : Follows(c, e, x, k, d) => Follows(new, e, x, k, d)
                        /\ NumbersWithin(c, k + 1, high) => NumbersWithin(new, k + 1, high)
      OBVIOUS
    <3>1. \A p \in Len(c) + 1 .. Len(c) + 1 : ~Sends(new, p)
      <4>1. ~Sends(new, Len(c) + 1)
        BY <2>4, KindFacts DEF Sends
      <4> QED
        BY <1>1, <4>1
    <3>2. 1 \in Nat /\ high \in Nat /\ high <= high
      BY <1>1
    <3> QED
      BY <1>1, <2>4, <3>1, <3>2, Extended, ZenonT(40)
  <2>6. ChannelMoves(new)
    <3>1. main = "newFrame" => new[1] = c[1]
      BY <1>1, <1>3, <2>4
    <3> QED
      BY <1>1, <2>1, <3>1 DEF ChannelMoves
  <2> QED
    BY <2>1, <2>2, <2>5, <2>6, ChannelMovesWell
<1>6. CASE Lose
  <2>1. PICK i \in DOMAIN c :
          /\ c[i].kind = "sendFrame" /\ (main = "newFrame" => i > 1)
          /\ damaged' = dam \union {c[i].image[1]} /\ toClient' = Without(c, i)
    BY <1>6 DEF Lose, Without
  <2>2. i \in 1 .. Len(c) /\ Sends(c, i)
    BY <1>1, <2>1, LenProperties DEF Sends
  <2>3. /\ serverFrame' = high /\ spheres' = last
        /\ UNCHANGED <<frames, readIndex, writeIndex, elementsPerFrame, elementWriteIndex,
                       frameCounter, main>>
    BY <1>6 DEF Lose, ClientRests, vars, serverVars
  <2> DEFINE new == Without(c, i)
             more == {c[i].image[1]}
  <2>4. ASSUME NEW but, NEW size, Orderly(c, size, n, last, k, high), Intact(c, size, but, dam)
        PROVE  /\ \E smaller : /\ Orderly(new, smaller, n, last, k, high)
                               /\ Intact(new, smaller, but, dam \union more)
               /\ Len(new) = Len(c) - 1
               /\ \A p \in 1 .. Len(c) - 1 : new[p] = IF p < i THEN c[p] ELSE c[p + 1]
               /\ \A image : Carries(c, image) /\ image[1] # c[i].image[1]
                               => Carries(new, image)
    BY <2>2, <2>4, ImageLost, ZenonT(40)
  <2>5. PICK but, size : Orderly(c, size, n, last, k, high) /\ Intact(c, size, but, dam)
    BY DEF StreamInv, Untouched, BeingFilled, ChannelFits
  <2>6. /\ Len(new) = Len(c) - 1
        /\ \A p \in 1 .. Len(c) - 1 : new[p] = IF p < i THEN c[p] ELSE c[p + 1]
        /\ \A image : Carries(c, image) /\ image[1] # c[i].image[1] => Carries(new, image)
    BY <2>4, <2>5
  <2>7. toClient' = new /\ damaged' = dam \union more
    BY <2>1
  <2> HIDE DEF new
  <2>8. /\ \A e, x, y, d : Follows(c, e, x, y, d) => Follows(new, e, x, y, d \union more)
        /\ \A low, up : NumbersWithin(c, low, up) => NumbersWithin(new, low, up)
    BY <1>1, <2>2, <2>6, Shortened
  <2> HIDE DEF more
  <2>9. ChannelMoves(new)
    <3>1. main = "newFrame" => new[1] = c[1]
      <4>1. main = "newFrame" => 1 \in 1 .. Len(c) - 1 /\ 1 < i
        BY <1>1, <2>1, <2>2
      <4> QED
        BY <2>6, <4>1
    <3> QED
      BY <1>1, <2>3, <2>7, <3>1 DEF ChannelMoves
  <2> QED
    BY <2>3, <2>4, <2>7, <2>8, <2>9, ChannelMovesWell
<1> QED
  BY <1>4, <1>5, <1>6

\* processReply() and the viewer's widget keep the invariant.
LEMMA ClientKeepsFrames ==
  ASSUME RingSuitsStream, StreamInv, NewFrameHasMessage, ChannelTyped, StreamTypeOK, StreamTypeOK',
         \/ BeginFrame \/ ReceiveSphere \/ ReceiveSphereCount
         \/ StartAnimation \/ StopAnimation \/ TimerUpdate \/ Expose
         \/ PaintSphere \/ EndPainting \/ UNCHANGED streamVars
  PROVE  StreamInv'
<1> PICK c : c = toClient
  OBVIOUS
<1> PICK k : k = frameCounter
  OBVIOUS
<1> PICK high : high = serverFrame
  OBVIOUS
<1> PICK dam : dam = damaged
  OBVIOUS
<1> PICK n : n = elementsPerFrame
  OBVIOUS
<1> PICK e : e = elementWriteIndex
  OBVIOUS
<1> PICK last : last = spheres
  OBVIOUS
<1> DEFINE S == [0 .. n - 1 -> Contents]
           r == readIndex
           w == writeIndex
<1>1. /\ c \in Seq(Messages) /\ last \in 0 .. MaxSpheres /\ high \in 0 .. MaxFrames
      /\ k \in Nat /\ MaxFrames \in Nat /\ MaxSpheres \in Nat /\ e \in Nat /\ n \in Nat
      /\ r \in Indices /\ w \in Indices /\ frames \in [Indices -> S] /\ frames[w] \in S
  <2>1. c \in Seq(Messages) /\ last \in 0 .. MaxSpheres /\ high \in 0 .. MaxFrames
    BY DEF ChannelTyped, StreamTypeOK
  <2>2. k \in 0 .. MaxFrames /\ MaxFrames \in Nat /\ MaxSpheres \in Nat
    BY FrameStreamAssumption DEF StreamTypeOK
  <2>3. TypeOK
    BY DEF StreamTypeOK
  <2>4. e \in Nat /\ n \in Nat
    BY <2>3, FrameBufferAssumption DEF TypeOK
  <2>5. r \in Indices /\ w \in Indices /\ frames \in [Indices -> S]
    BY <2>3 DEF TypeOK
  <2> HIDE DEF S
  <2>6. frames[w] \in S
    BY <2>5
  <2> QED
    BY <2>1, <2>2, <2>4, <2>5, <2>6
<1>2. /\ WholeFrames \in Seq(S) /\ Len(WholeFrames) = CountBetween(r, w)
      /\ CountBetween(r, w) \in Nat
      /\ r = w => WholeFrames = <<>>
  <2>1. Holds(WholeFrames, S, frames, r, CountBetween(r, w))
    BY <1>1, WaitingIsAList DEF WholeFrames
  <2>2. r = w => WholeFrames = <<>>
    BY <1>1, NothingYet DEF WholeFrames
  <2> HIDE DEF S
  <2> QED
    BY <2>1, <2>2, FrameBufferAssumption DEF Holds
<1>3. c # <<>> => Head(c) = c[1] /\ Len(c) > 0 /\ Len(c) \in Nat /\ 1 \in 1 .. Len(c)
  BY <1>1, HeadFacts
<1>4. Sound(WholeFrames, dam)
  BY DEF StreamInv
<1>5. CASE BeginFrame
  <2> DEFINE m == c[1].image[1]
  <2>1. /\ c # <<>> /\ Sends(c, 1) /\ m > k /\ main = "loop"
        /\ frameCounter' = m /\ main' = "newFrame" /\ elementWriteIndex' = 0
        /\ w' = NextIndex(w) /\ r' = (IF r = NextIndex(w) THEN NextIndex(r) ELSE r)
        /\ UNCHANGED <<frames, elementsPerFrame, spheres, serverFrame, toClient, damaged>>
    BY <1>3, <1>5 DEF BeginFrame, Arrived, PushFrame, Sends, serverVars, faultVars
  <2>2. m \in Nat
    BY <1>1, <1>3, <2>1, ChannelFacts
  <2>3. PICK but, size : /\ Orderly(c, size, n, last, k, high) /\ Intact(c, size, but, dam)
                         /\ but \subseteq Nat /\ \A b \in but : b < m
    <3>1. \A b \in {} : b < m
      OBVIOUS
    <3>2. {k} \subseteq Nat /\ \A b \in {k} : b < m
      BY <1>1, <2>1, <2>2
    <3> QED
      BY <3>1, <3>2 DEF StreamInv, Untouched, BeingFilled, ChannelFits
  <2>4. /\ Orderly(c, size, n, last, m, high) /\ Intact(c, size, {m}, dam)
        /\ Follows(c, 0, n, m, dam) /\ m < high
    BY <2>1, <2>3, FrameBegins
  <2>5. WholeFrames' = IF r = NextIndex(w)
                       THEN Append(Tail(WholeFrames), frames[w]) ELSE Append(WholeFrames, frames[w])
    <3> HIDE DEF S
    <3> QED
      BY <1>1, <2>1, WaitingPushed DEF WholeFrames
  <2>6. /\ Older(WholeFrames, k)
        /\ IF IsBlank(frames[w]) THEN WholeFrames = <<>>
           ELSE frames[w][0][1] = k /\ (k \in dam \/ IsFrame(frames[w], k))
    <3>1. CASE Untouched
      BY <1>2, <3>1, SoundKept DEF Untouched
    <3>2. CASE BeingFilled
      <4>1. /\ e > 0 /\ e <= n /\ StartsWith(frames[w], e, k, dam) /\ Follows(c, e, n, k, dam)
            /\ Older(WholeFrames, k)
        BY <2>1, <3>2 DEF BeingFilled
      <4>2. frames[w][0] \in {k} \X (0 .. MaxSpheres - 1)
        <5>1. 0 \in 0 .. e - 1
          BY <1>1, <4>1
        <5> QED
          BY <4>1, <5>1 DEF StartsWith
      <4>3. 0 \in DOMAIN frames[w] /\ DOMAIN frames[w] = 0 .. n - 1
        BY <1>1, <4>1
      <4>4. ~IsBlank(frames[w])
        <5>1. <<k, frames[w][0][2]>> \in SphereImages
          <6>1. k \in 0 .. MaxFrames - 1
            BY <1>1, <3>2 DEF BeingFilled
          <6> QED
            BY <4>2, <6>1 DEF SphereImages
        <5>2. frames[w][0] \in Elements
          BY <4>2, <5>1 DEF RingSuitsStream
        <5> QED
          BY <4>3, <5>2, FrameBufferAssumption DEF IsBlank
      <4>5. ASSUME k \notin dam PROVE IsFrame(frames[w], k)
        <5>1. ASSUME NEW j \in e .. n - 1 PROVE FALSE
          <6>1. PICK p \in 1 .. Len(c) : Sends(c, p) /\ c[p].image = <<k, j>>
            BY <4>1, <4>5 DEF Follows, Carries
          <6>2. c[p].image[1] = k /\ m <= c[p].image[1]
            BY <2>4, <6>1 DEF Orderly, NumbersWithin
          <6> QED
            BY <1>1, <2>1, <2>2, <6>2
        <5>2. e = n
          <6>1. e \in Int /\ n \in Int /\ e <= n
            BY <1>1, <4>1
          <6>2. e < n => e \in e .. n - 1
            BY <6>1
          <6> QED
            BY <5>1, <6>1, <6>2
        <5> QED
          BY <4>1, <4>3, <4>5, <5>2 DEF StartsWith, IsFrame
      <4> QED
        BY <4>1, <4>2, <4>4, <4>5
    <3> QED
      BY <3>1, <3>2 DEF StreamInv
  <2>7. Sound(WholeFrames', dam) /\ Older(WholeFrames', m)
    <3> PICK list : list = WholeFrames
      OBVIOUS
    <3> PICK frame : frame = frames[w]
      OBVIOUS
    <3> HIDE DEF S
    <3>1. list \in Seq(S) /\ frame \in S /\ k < m /\ Sound(list, dam) /\ Older(list, k)
      BY <1>1, <1>2, <1>4, <2>1, <2>2, <2>6
    <3>2. IF IsBlank(frame) THEN list = <<>>
          ELSE frame[0][1] = k /\ (k \in dam \/ IsFrame(frame, k))
      BY <2>6
    <3>3. CASE r = NextIndex(w)
      <4>1. list # <<>>
        <5>1. CountBetween(r, w) = BufferSize - 1
          BY <1>1, <3>3, SlotFacts
        <5>2. Len(list) = BufferSize - 1
          BY <1>2, <5>1
        <5>3. Len(<<>>) = 0
          BY EmptySeq
        <5> QED
          BY <5>2, <5>3, FrameBufferAssumption
      <4>2. Tail(list) \in Seq(S) /\ Sound(Tail(list), dam) /\ Older(Tail(list), k)
        BY <3>1, <4>1, SoundTail, HeadTailProperties
      <4>3. ~IsBlank(frame)
        BY <3>2, <4>1
      <4>4. /\ Sound(Append(Tail(list), frame), dam)
            /\ \A y \in Nat : k < y => Older(Append(Tail(list), frame), y)
        BY <1>1, <3>1, <3>2, <4>2, <4>3, SoundAppend
      <4> QED
        BY <2>2, <2>5, <3>1, <3>3, <4>4
    <3>4. CASE r # NextIndex(w)
      <4>1. /\ Sound(Append(list, frame), dam)
            /\ \A y \in Nat : k < y => Older(Append(list, frame), y)
        BY <1>1, <3>1, <3>2, SoundAppend
      <4> QED
        BY <2>2, <2>5, <3>1, <3>4, <4>1
    <3> QED
      BY <3>3, <3>4
  <2>8. StartsWith(frames'[w'], 0, m, dam)
    BY DEF StartsWith
  <2> HIDE DEF m
  <2>9. ChannelFits({frameCounter})'
    BY <2>1, <2>4 DEF ChannelFits
  <2>10. BeingFilled'
    BY <1>1, <2>1, <2>4, <2>7, <2>8, <2>9 DEF BeingFilled, m
  <2> QED
    BY <2>1, <2>7, <2>10 DEF StreamInv
<1>6. CASE ReceiveSphere
  <2>1. /\ c # <<>> /\ Sends(c, 1)
        /\ main = "newFrame" \/ (main = "loop" /\ c[1].image[1] <= k)
    BY <1>3, <1>6 DEF ReceiveSphere, Arrived, NewFrameHasMessage, Sends
  <2>2. c[1].image[1] \in Nat
    BY <1>1, <1>3, <2>1, ChannelFacts
  <2>3. /\ ChannelFits({k}) /\ k < high /\ c[1].image[1] = k
        /\ StartsWith(frames[w], e, k, dam) /\ Follows(c, e, n, k, dam) /\ Older(WholeFrames, k)
    <3>1. CASE Untouched
      <4>1. PICK size : Orderly(c, size, n, last, k, high) /\ Intact(c, size, {}, dam)
        BY <3>1 DEF Untouched, ChannelFits
      <4>2. c[1].image[1] = k /\ e = 0
        <5>1. c[1].image[1] <= k
          BY <2>1, <3>1 DEF Untouched
        <5>2. k <= c[1].image[1]
          BY <1>3, <2>1, <4>1 DEF Orderly, NumbersWithin
        <5>3. ~NumbersWithin(c, k + 1, high)
          BY <1>1, <1>3, <2>1, <2>2, <5>1 DEF NumbersWithin
        <5> QED
          BY <1>1, <2>2, <3>1, <5>1, <5>2, <5>3 DEF Untouched
      <4>3. PICK but : but = {}
        OBVIOUS
      <4>4. Intact(c, size, {k}, dam) /\ Follows(c, 0, n, k, dam) /\ k < high
        <5>1. but \subseteq Nat /\ \A b \in but : b < c[1].image[1]
          BY <4>3
        <5>2. Orderly(c, size, n, last, k, high) /\ Intact(c, size, but, dam)
          BY <4>1, <4>3
        <5>3. c # <<>> /\ Sends(c, 1)
          BY <2>1
        <5>4. /\ Intact(c, size, {c[1].image[1]}, dam)
              /\ Follows(c, 0, n, c[1].image[1], dam) /\ c[1].image[1] < high
          BY <5>1, <5>2, <5>3, FrameBegins
        <5> QED
          BY <4>2, <5>4
      <4>5. ChannelFits({k})
        BY <4>1, <4>4 DEF ChannelFits
      <4>6. StartsWith(frames[w], e, k, dam)
        BY <4>2 DEF StartsWith
      <4>7. Older(WholeFrames, k)
        BY <1>2, <3>1, SoundKept DEF Untouched
      <4> QED
        BY <4>2, <4>4, <4>5, <4>6, <4>7
    <3>2. CASE BeingFilled
      <4>1. /\ ChannelFits({k}) /\ k < high /\ Older(WholeFrames, k)
            /\ StartsWith(frames[w], e, k, dam) /\ Follows(c, e, n, k, dam)
            /\ main = "newFrame" => c[1].image[1] = k
        BY <3>2 DEF BeingFilled
      <4>2. PICK size : Orderly(c, size, n, last, k, high)
        BY <4>1 DEF ChannelFits
      <4>3. k <= c[1].image[1]
        BY <1>3, <2>1, <4>2 DEF Orderly, NumbersWithin
      <4> QED
        BY <1>1, <2>1, <2>2, <4>1, <4>3
    <3> QED
      BY <3>1, <3>2 DEF StreamInv
  <2>4. PICK size : Orderly(c, size, n, last, k, high) /\ Intact(c, size, {k}, dam)
    BY <2>3 DEF ChannelFits
  <2>5. /\ e < n /\ c[1].image \in {k} \X (0 .. MaxSpheres - 1)
        /\ k \notin dam => c[1].image = <<k, e>>
        /\ Follows(Tail(c), e + 1, n, k, dam)
    <3>1. e \in Nat /\ c # <<>> /\ Sends(c, 1) /\ c[1].image[1] = k
      BY <1>1, <2>1, <2>3
    <3>2. Orderly(c, size, n, last, k, high) /\ Follows(c, e, n, k, dam)
      BY <2>3, <2>4
    <3>3. ElementTaken(c, e, n, k, dam)
      BY <3>1, <3>2, ElementArrives
    <3> QED
      BY <3>3 DEF ElementTaken
  <2>6. /\ frames' = [frames EXCEPT ![w] = [frames[w] EXCEPT ![e] = c[1].image]]
        /\ elementWriteIndex' = e + 1 /\ toClient' = Tail(c) /\ main' = "loop"
        /\ UNCHANGED <<elementsPerFrame, readIndex, writeIndex, spheres, serverFrame,
                       damaged, frameCounter>>
    <3>1. PushElement(c[1].image)
      BY <1>1, <1>3, <1>6, <2>1, <2>5 DEF ReceiveSphere
    <3> QED
      BY <1>6, <3>1 DEF ReceiveSphere, PushElement, indexVars, serverVars, faultVars
  <2>7. frames'[w] = [frames[w] EXCEPT ![e] = c[1].image] /\ \A i \in Indices : i # w => frames'[i] = frames[i]
    BY <1>1, <2>6
  <2>8. WholeFrames' = WholeFrames
    <3> PICK new : new = frames'
      OBVIOUS
    <3>1. \A i \in Indices : i # w => new[i] = frames[i]
      BY <2>7
    <3> HIDE DEF S
    <3>2. Waiting(new, r, w) = Waiting(frames, r, w)
      BY <1>1, <3>1, WaitingKept
    <3> QED
      BY <2>6, <3>2 DEF WholeFrames
  <2>9. StartsWith(frames'[w], e + 1, k, dam)
    <3> PICK old : old = frames[w]
      OBVIOUS
    <3> PICK new : new = frames'[w]
      OBVIOUS
    <3> PICK x : x = c[1].image
      OBVIOUS
    <3>1. ASSUME NEW i \in 0 .. (e + 1) - 1
          PROVE  /\ new[i] \in {k} \X (0 .. MaxSpheres - 1)
                 /\ k \notin dam => new[i] = <<k, i>>
      <4>1. new = [old EXCEPT ![e] = x] /\ old \in [0 .. n - 1 -> Contents]
        BY <1>1, <2>7
      <4>2. i \in 0 .. n - 1 /\ (i # e => i \in 0 .. e - 1)
        BY <1>1, <2>5
      <4>3. new[i] = IF i = e THEN x ELSE old[i]
        BY <4>1, <4>2
      <4>4. CASE i = e
        BY <2>5, <4>3, <4>4
      <4>5. CASE i # e
        <5>1. /\ old[i] \in {k} \X (0 .. MaxSpheres - 1)
              /\ k \notin dam => old[i] = <<k, i>>
          BY <2>3, <4>2, <4>5 DEF StartsWith
        <5> QED
          BY <4>3, <4>5, <5>1
      <4> QED
        BY <4>4, <4>5
    <3> QED
      BY <3>1 DEF StartsWith
  <2>10. ChannelFits({frameCounter})'
    <3>1. c # <<>> /\ Sends(c, 1) /\ c[1].image[1] = k
      BY <2>1, <2>3
    <3>2. ImageTaken(c, n, last, k, high, k, dam)
      BY <2>4, <3>1, ImageLeaves
    <3>3. PICK smaller : /\ Orderly(Tail(c), smaller, n, last, k, high)
                         /\ Intact(Tail(c), smaller, {k}, dam)
      BY <3>2 DEF ImageTaken
    <3> QED
      BY <2>6, <3>3 DEF ChannelFits
  <2>11. BeingFilled'
    <3>1. elementWriteIndex' <= elementsPerFrame' /\ elementWriteIndex' > 0
      BY <1>1, <2>5, <2>6
    <3>2. StartsWith(frames[writeIndex], elementWriteIndex, frameCounter, damaged)'
      BY <2>6, <2>9
    <3>3. Follows(toClient, elementWriteIndex, elementsPerFrame, frameCounter, damaged)'
      BY <2>5, <2>6
    <3>4. (frameCounter < serverFrame)' /\ main' # "newFrame"
      BY <2>3, <2>6
    <3>5. Older(WholeFrames, frameCounter)'
      BY <2>3, <2>6, <2>8
    <3> QED
      BY <2>10, <3>1, <3>2, <3>3, <3>4, <3>5 DEF BeingFilled
  <2>12. Sound(WholeFrames, damaged)'
    BY <1>4, <2>6, <2>8
  <2> QED
    BY <2>11, <2>12 DEF StreamInv
<1>7. CASE ReceiveSphereCount
  <2> DEFINE m == c[1].count
  <2>1. /\ c # <<>> /\ ~Sends(c, 1) /\ main = "loop"
        /\ elementsPerFrame' = m /\ frames' = FreshFrames(m) /\ r' = 0 /\ w' = 0
        /\ toClient' = Tail(c)
        /\ UNCHANGED <<elementWriteIndex, spheres, serverFrame, damaged, frameCounter, main>>
    BY <1>3, <1>7
    DEF ReceiveSphereCount, Arrived, UpdateElementsPerFrame, Sends, serverVars, faultVars
  <2>2. PICK size : /\ Orderly(c, size, n, last, k, high) /\ Intact(c, size, {}, dam)
                    /\ \/ e = 0 /\ k = 0
                       \/ k < high /\ NumbersWithin(c, k + 1, high)
    <3>1. CASE Untouched
      BY <3>1 DEF Untouched, ChannelFits
    <3>2. CASE BeingFilled
      <4>1. PICK size : Orderly(c, size, n, last, k, high) /\ Intact(c, size, {k}, dam)
        BY <3>2 DEF BeingFilled, ChannelFits
      <4>2. NumbersWithin(c, k + 1, high) /\ Intact(c, size, {}, dam)
        BY <2>1, <3>2, <4>1, ResizeEndsFrame DEF BeingFilled
      <4> QED
        BY <3>2, <4>1, <4>2 DEF BeingFilled
    <3> QED
      BY <3>1, <3>2 DEF StreamInv
  <2>3. \A more : HeadGone(c, size, n, last, k, high, {}, more, dam)
    BY <2>1, <2>2, HeadTaken
  <2>4. ChannelFits({})'
    <3>1. PICK smaller : /\ Orderly(Tail(c), smaller, size[1], last, k, high)
                         /\ Intact(Tail(c), smaller, {} \union {}, dam)
      BY <2>3 DEF HeadGone
    <3>2. size[1] = m /\ {} \union {} = {}
      BY <2>1, <2>3 DEF HeadGone
    <3> HIDE DEF m
    <3> QED
      BY <2>1, <3>1, <3>2 DEF ChannelFits
  <2>5. NumbersWithin(c, k + 1, high) => NumbersWithin(Tail(c), k + 1, high)
    <3> SUFFICES ASSUME NumbersWithin(c, k + 1, high) PROVE NumbersWithin(Tail(c), k + 1, high)
      OBVIOUS
    <3> PICK low : low = k + 1
      OBVIOUS
    <3>1. Orderly(c, size, n, last, low, high)
      BY <1>1, <2>2 DEF Orderly
    <3>2. \A more : HeadGone(c, size, n, last, low, high, {}, more, dam)
      BY <2>1, <2>2, <3>1, HeadTaken
    <3> QED
      BY <3>2 DEF HeadGone, Orderly
  <2>6. IsBlank(frames'[0])
    <3>1. 0 \in Indices
      BY FrameBufferAssumption DEF Indices
    <3>2. frames'[0] = [j \in 0 .. m - 1 |-> Blank]
      BY <2>1, <3>1 DEF FreshFrames
    <3> HIDE DEF m
    <3> QED
      BY <3>2 DEF IsBlank
  <2>7. WholeFrames' = <<>>
    <3>1. 0 \in Indices
      BY FrameBufferAssumption DEF Indices
    <3> QED
      BY <2>1, <3>1, NothingYet DEF WholeFrames
  <2>8. Untouched'
    <3>1. IsBlank(frames[writeIndex])' /\ (readIndex = writeIndex)' /\ main' # "newFrame"
      BY <2>1, <2>6
    <3>2. \/ elementWriteIndex' = 0 /\ frameCounter' = 0
          \/ /\ frameCounter' < serverFrame'
             /\ NumbersWithin(toClient', frameCounter' + 1, serverFrame')
      BY <2>1, <2>2, <2>5
    <3> QED
      BY <2>4, <3>1, <3>2 DEF Untouched
  <2>9. Sound(WholeFrames, damaged)'
    BY <2>7, SoundKept
  <2> QED
    BY <2>8, <2>9 DEF StreamInv
<1>8. CASE StartAnimation \/ StopAnimation \/ TimerUpdate \/ Expose \/ PaintSphere
           \/ UNCHANGED streamVars
  <2>1. /\ UNCHANGED <<frames, readIndex, writeIndex, elementsPerFrame, elementWriteIndex,
                       toClient, spheres, serverFrame, damaged, frameCounter>>
        /\ main' = "newFrame" <=> main = "newFrame"
    BY <1>8
    DEF StartAnimation, StopAnimation, TimerUpdate, Expose, BeginPainting, PictureRests,
        PaintSphere, PopElement, streamVars, vars, indexVars, serverVars, faultVars
  <2>2. WholeFrames' = WholeFrames
    BY <2>1 DEF WholeFrames
  <2>3. \A but : ChannelFits(but) => ChannelFits(but)'
    BY <2>1 DEF ChannelFits
  <2>4. Untouched => Untouched'
    BY <2>1, <2>3 DEF Untouched
  <2>5. BeingFilled => BeingFilled'
    <3>1. ChannelFits({frameCounter}) => ChannelFits({frameCounter})'
      BY <2>1 DEF ChannelFits
    <3> QED
      BY <2>1, <2>2, <3>1 DEF BeingFilled
  <2>6. Sound(WholeFrames, damaged)'
    BY <1>4, <2>1, <2>2
  <2> QED
    BY <2>4, <2>5, <2>6 DEF StreamInv
<1>9. CASE EndPainting
  <2>1. /\ UNCHANGED <<frames, writeIndex, elementsPerFrame, elementWriteIndex,
                       toClient, spheres, serverFrame, damaged, frameCounter>>
        /\ r' = (IF w \notin {r, NextIndex(r)} THEN NextIndex(r) ELSE r)
        /\ main = "painting" /\ main' = "loop"
    BY <1>9 DEF EndPainting, PopFrame, serverVars, faultVars, indexVars
  <2>2. Sound(WholeFrames', dam) /\ (Older(WholeFrames, k) => Older(WholeFrames', k))
    <3> PICK list : list = WholeFrames
      OBVIOUS
    <3> HIDE DEF S
    <3>1. CASE w \notin {r, NextIndex(r)}
      <4>1. WholeFrames' = Tail(list) /\ Len(list) > 1
        BY <1>1, <2>1, <3>1, WaitingPopped DEF WholeFrames
      <4>2. list # <<>>
        <5>1. Len(<<>>) = 0
          BY EmptySeq
        <5> QED
          BY <4>1, <5>1
      <4>3. /\ Sound(list, dam) => Sound(Tail(list), dam)
            /\ Older(list, k) => Older(Tail(list), k)
        BY <1>2, <4>2, SoundTail
      <4> QED
        BY <1>4, <4>1, <4>3
    <3>2. CASE w \in {r, NextIndex(r)}
      <4>1. WholeFrames' = WholeFrames
        BY <2>1, <3>2 DEF WholeFrames
      <4> QED
        BY <1>4, <4>1
    <3> QED
      BY <3>1, <3>2
  <2>3. \A but : ChannelFits(but) => ChannelFits(but)'
    BY <2>1 DEF ChannelFits
  <2>4. Untouched => Untouched'
    BY <2>1, <2>3 DEF Untouched
  <2>5. BeingFilled => BeingFilled'
    <3>1. ChannelFits({frameCounter}) => ChannelFits({frameCounter})'
      BY <2>1 DEF ChannelFits
    <3> QED
      BY <2>1, <2>2, <3>1 DEF BeingFilled
  <2>6. Sound(WholeFrames, damaged)'
    BY <2>1, <2>2
  <2> QED
    BY <2>4, <2>5, <2>6 DEF StreamInv
<1> QED
  BY <1>5, <1>6, <1>7, <1>8, <1>9

\* A lost sphere damages the frame it belongs to and no other, and no resize mixes
\* two frames, whatever is lost and however the number of spheres changes
\* (SphereCalculator::prepareFrameData, ActionSender::processReply, FrameBuffer).
\* ActionSender constructs the ring for no elements.
THEOREM LossCorrect ==
  ASSUME RingSuitsStream, InitialCounts = {0}
  PROVE  StreamSpec => []LossStaysInItsFrame
<1>1. StreamInit => StreamInv
  <2> SUFFICES ASSUME StreamInit PROVE StreamInv
    OBVIOUS
  <2>1. /\ elementsPerFrame = 0 /\ spheres = 0 /\ serverFrame = 0 /\ frameCounter = 0
        /\ toClient = <<>> /\ damaged = {} /\ main = "loop" /\ elementWriteIndex = 0
        /\ readIndex = 0 /\ writeIndex = 0 /\ frames = FreshFrames(0)
        /\ 0 \in Indices /\ MaxSpheres \in Nat /\ MaxFrames \in Nat
    BY FrameBufferAssumption, FrameStreamAssumption DEF StreamInit, Init, Indices
  <2> DEFINE size == [p \in 0 .. 0 |-> 0]
  <2>2. /\ <<>> \in Seq(Messages) /\ Len(<<>>) = 0 /\ 1 .. 0 = {} /\ 0 .. 0 = {0}
    BY EmptySeq
  <2>3. size \in [0 .. 0 -> 0 .. MaxSpheres] /\ size[0] = 0
    BY <2>1, <2>2
  <2> HIDE DEF size
  <2>4. Orderly(<<>>, size, 0, 0, 0, 0)
    BY <2>1, <2>2, <2>3 DEF Orderly, Sized, InOrder, NumbersWithin
  <2>5. Intact(<<>>, size, {}, {})
    BY <2>2 DEF Intact
  <2>6. ChannelFits({})
    BY <2>1, <2>4, <2>5 DEF ChannelFits
  <2>7. IsBlank(frames[0])
    BY <2>1 DEF IsBlank, FreshFrames
  <2>8. WholeFrames = <<>>
    BY <2>1, NothingYet DEF WholeFrames
  <2>9. Untouched
    BY <2>1, <2>6, <2>7 DEF Untouched
  <2> QED
    BY <2>1, <2>8, <2>9, SoundKept DEF StreamInv
<1>2. StreamInv /\ NewFrameHasMessage /\ ChannelTyped /\ StreamTypeOK /\ StreamTypeOK'
        /\ [StreamNext]_streamVars => StreamInv'
  <2> SUFFICES ASSUME StreamInv, NewFrameHasMessage, ChannelTyped, StreamTypeOK, StreamTypeOK',
                      [StreamNext]_streamVars
               PROVE  StreamInv'
    OBVIOUS
  <2>1. CASE PrepareFrame \/ (\E n \in 0 .. MaxSpheres : UpdateSphereCount(n)) \/ Lose
    BY <2>1, ServerKeepsFrames
  <2>2. CASE \/ BeginFrame \/ ReceiveSphere \/ ReceiveSphereCount
             \/ StartAnimation \/ StopAnimation \/ TimerUpdate \/ Expose
             \/ PaintSphere \/ EndPainting \/ UNCHANGED streamVars
    BY <2>2, ClientKeepsFrames
  <2> QED
    BY <2>1, <2>2 DEF StreamNext
<1>3. StreamInv /\ StreamTypeOK => LossStaysInItsFrame
  <2> SUFFICES ASSUME StreamInv, StreamTypeOK, NEW i \in 1 .. FrameCount
               PROVE  IF IsBlank(WholeFrame(i)) THEN i = 1
                      ELSE LET k == WholeFrame(i)[0][1]
                           IN /\ k \in damaged \/ IsFrame(WholeFrame(i), k)
                              /\ \A j \in 1 .. i - 1 :
                                   IsBlank(WholeFrame(j)) \/ WholeFrame(j)[0][1] < k
    BY DEF LossStaysInItsFrame
  <2> DEFINE S == [0 .. elementsPerFrame - 1 -> Contents]
  <2>1. Holds(WholeFrames, S, frames, readIndex, FrameCount)
    BY WaitingIsAList DEF WholeFrames, FrameCount, StreamTypeOK, TypeOK
  <2> HIDE DEF S
  <2>2. /\ FrameCount \in Nat /\ Len(WholeFrames) = FrameCount
        /\ \A j \in 1 .. FrameCount : WholeFrames[j] = WholeFrame(j)
    BY <2>1, FrameBufferAssumption DEF Holds, Slot, WholeFrame
  <2>3. \A j \in 1 .. i - 1 : j \in 1 .. FrameCount
    BY <2>2
  <2>4. IF IsBlank(WholeFrames[i]) THEN i = 1 ELSE SoundAt(WholeFrames, i, damaged)
    BY <2>2 DEF StreamInv, Sound
  <2>5. WholeFrames[i] = WholeFrame(i) /\ \A j \in 1 .. i - 1 : WholeFrames[j] = WholeFrame(j)
    BY <2>2, <2>3
  <2> HIDE DEF WholeFrame
  <2> QED
    BY <2>4, <2>5 DEF SoundAt
<1> QED
  BY <1>1, <1>2, <1>3, StreamUsesTheRing, StreamTypeCorrect, PTL DEF StreamSpec
=============================================================================
