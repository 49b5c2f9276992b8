--------------------------- MODULE BoundedFrames ----------------------------
(***************************************************************************)
(* What a frame buffer promises to the two sides that use it, the receiver *)
(* of frames and the painter.                                              *)
(*                                                                         *)
(* Whole frames wait in a queue of at most Capacity frames.  Completing a  *)
(* frame on a full queue drops the oldest one.  The painter reads the      *)
(* elements of the oldest frame and may go on to the next frame only if    *)
(* there is one, so that it can always show the last frame again.  A frame *)
(* is visible to the painter only after it was completed and cannot change *)
(* any more.                                                               *)
(*                                                                         *)
(* Changing the number of elements per frame forgets all frames.  Neither  *)
(* the place in the frame that is being filled nor the place the painter   *)
(* has reached is given up: both are reset by the next frame boundary.     *)
(***************************************************************************)
EXTENDS Integers, Sequences

CONSTANTS
  Capacity,   \* number of whole frames
  Elements,   \* what a frame is filled with
  Blank,      \* an element nobody has written
  Counts      \* numbers of elements per frame

VARIABLES
  length,     \* elements per frame
  whole,      \* the whole frames, oldest first
  filling,    \* the elements of the frame that is being filled
  position,   \* how many elements of the oldest frame were read
  popped      \* what the painter read last

framesVars == <<length, whole, filling, position, popped>>

Contents == Elements \union {Blank}

FramesOf(n) == [0 .. n - 1 -> Contents]

Init ==
  /\ length \in Counts
  /\ whole = <<>>
  /\ filling = <<>>
  /\ position = 0
  /\ popped = Blank

Fill(e) ==
  /\ Len(filling) < length
  /\ filling' = Append(filling, e)
  /\ UNCHANGED <<length, whole, position, popped>>

\* The frame begins with the elements it was filled with; what follows them is
\* unspecified.
Complete ==
  /\ \E frame \in FramesOf(length) :
       /\ \A i \in 1 .. Len(filling) : frame[i - 1] = filling[i]
       /\ whole' = IF Len(whole) = Capacity
                   THEN Append(Tail(whole), frame) ELSE Append(whole, frame)
  /\ filling' = <<>>
  /\ UNCHANGED <<length, position, popped>>

\* Before the first whole frame the painter may be shown anything.
Read ==
  /\ position < length
  /\ popped' \in Contents
  /\ whole # <<>> => popped' = Head(whole)[position]
  /\ position' = position + 1
  /\ UNCHANGED <<length, whole, filling>>

ReadPastTheEnd ==
  /\ position >= length
  /\ popped' = Blank
  /\ UNCHANGED <<length, whole, filling, position>>

NextFrame ==
  /\ whole' = IF Len(whole) > 1 THEN Tail(whole) ELSE whole
  /\ position' = 0
  /\ UNCHANGED <<length, filling, popped>>

Resize(n) ==
  /\ length' = n
  /\ whole' = <<>>
  /\ \E k \in 0 .. n : filling' = [i \in 1 .. k |-> Blank]
  /\ UNCHANGED <<position, popped>>

Next ==
  \/ \E e \in Elements : Fill(e)
  \/ Complete
  \/ Read
  \/ ReadPastTheEnd
  \/ NextFrame
  \/ \E n \in Counts : Resize(n)

Spec == Init /\ [][Next]_framesVars
=============================================================================
