---------------------------- MODULE FrameStream -----------------------------
(***************************************************************************)
(* The way of a frame from the spheres of the server to the screen of the  *)
(* viewer: SphereCalculator::prepareFrameData in the worker, one message   *)
(* per sphere over a channel that may lose it, ActionSender::processReply, *)
(* the ring of module FrameBuffer, GLWidget::paintGL.                      *)
(*                                                                         *)
(* The worker numbers its frames; the client starts a new frame in its     *)
(* ring when the number has grown and appends every other sphere to the    *)
(* one it is filling.  The number of spheres travels through the same      *)
(* channel and resizes the ring.  Slots and paint events are served one    *)
(* after the other by the client's main thread: main says what it is       *)
(* doing.                                                                  *)
(*                                                                         *)
(* The worker's emitted signals and the socket behind them keep the order  *)
(* of what they carry and are one channel here.  The client is connected   *)
(* and ready to run.                                                       *)
(***************************************************************************)
EXTENDS FrameBuffer

CONSTANTS
  MaxFrames,      \* bound: frames the server prepares
  MaxSpheres,     \* bound: spheres of the server
  MaxResizes,     \* bound: spheres added and removed
  MaxMessages,    \* bound: messages under way before another frame is sent
  MaxLost         \* bound: messages lost

ASSUME FrameStreamAssumption ==
  \A bound \in {MaxFrames, MaxSpheres, MaxResizes, MaxMessages, MaxLost} :
    bound \in Nat

VARIABLES
  spheres,        \* spheres.size() of the server
  resizes,        \* how often it has changed
  serverFrame,    \* SphereCalculator::frameCounter
  toClient,       \* the channel
  lost,           \* how many messages it has lost
  damaged,        \* the frames they belonged to
  frameCounter,   \* ActionSender::frameCounter
  main,           \* "loop", "newFrame" (pushFrame was called), "painting"
  animating,      \* GLWidget::animating
  timerArmed,     \* animationTimer will fire
  painting,       \* the spheres drawn since glClear
  screen          \* the last finished picture

serverVars == <<spheres, resizes, serverFrame>>
faultVars == <<lost, damaged>>
viewerVars == <<animating, timerArmed, painting, screen>>
streamVars == <<vars, serverVars, toClient, faultVars, frameCounter, main,
                viewerVars>>

\* The image of a sphere: the frame it was taken for, and its index.
SphereImages == (0 .. MaxFrames - 1) \X (0 .. MaxSpheres - 1)

FrameMessage(image) == [kind |-> "sendFrame", image |-> image]
CountMessage(n) == [kind |-> "sphereCount", count |-> n]

FrameMessages == {FrameMessage(image) : image \in SphereImages}
CountMessages == {CountMessage(n) : n \in 0 .. MaxSpheres}

StreamTypeOK ==
  /\ TypeOK
  /\ spheres \in 0 .. MaxSpheres
  /\ resizes \in 0 .. MaxResizes
  /\ serverFrame \in 0 .. MaxFrames
  /\ toClient \in Seq(FrameMessages \union CountMessages)
  /\ lost \in 0 .. MaxLost
  /\ damaged \subseteq 0 .. MaxFrames - 1
  /\ frameCounter \in 0 .. MaxFrames
  /\ main \in {"loop", "newFrame", "painting"}
  /\ animating \in BOOLEAN
  /\ timerArmed \in BOOLEAN
  /\ painting \in Seq(Contents)
  /\ screen \in Seq(Contents)

StreamInit ==
  /\ Init
  /\ spheres = 0
  /\ resizes = 0
  /\ serverFrame = 0
  /\ toClient = <<>>
  /\ lost = 0
  /\ damaged = {}
  /\ frameCounter = 0
  /\ main = "loop"
  /\ animating = FALSE
  /\ timerArmed = FALSE
  /\ painting = <<>>
  /\ screen = <<>>

-----------------------------------------------------------------------------
(* The server's worker *)

\* The mark of a step that leaves the client alone.
ClientRests == UNCHANGED <<vars, frameCounter, main, viewerVars>>

ImagesOf(frame) == [i \in 1 .. spheres |-> FrameMessage(<<frame, i - 1>>)]

\* One message per sphere, all with the same number.
PrepareFrame ==
  /\ serverFrame < MaxFrames
  /\ Len(toClient) < MaxMessages
  /\ toClient' = toClient \o ImagesOf(serverFrame)
  /\ serverFrame' = serverFrame + 1
  /\ UNCHANGED <<spheres, resizes, faultVars>>
  /\ ClientRests

\* addSphere() and removeLastSphere() end in getAndUpdateSphereCount(): the
\* changed variable is sent, and no frame.
UpdateSphereCount(n) ==
  /\ n \in {spheres - 1, spheres + 1} \intersect 0 .. MaxSpheres
  /\ resizes < MaxResizes
  /\ resizes' = resizes + 1
  /\ spheres' = n
  /\ toClient' = Append(toClient, CountMessage(n))
  /\ UNCHANGED <<serverFrame, faultVars>>
  /\ ClientRests

\* A publishing socket drops what its reader is too slow for; only frames come
\* in such numbers.  The message that is being processed has arrived.
Lose ==
  /\ lost < MaxLost
  /\ \E i \in DOMAIN toClient :
       /\ toClient[i].kind = "sendFrame"
       /\ main = "newFrame" => i > 1
       /\ damaged' = damaged \union {toClient[i].image[1]}
       /\ toClient' = SubSeq(toClient, 1, i - 1)
                        \o SubSeq(toClient, i + 1, Len(toClient))
  /\ lost' = lost + 1
  /\ UNCHANGED serverVars
  /\ ClientRests

-----------------------------------------------------------------------------
(* The client: processReply *)

Arrived(kind) == toClient # <<>> /\ Head(toClient).kind = kind

BeginFrameNotOlder ==
  /\ main = "loop"
  /\ Arrived("sendFrame")
  /\ Head(toClient).image[1] >= frameCounter
  /\ PushFrame
  /\ frameCounter' = Head(toClient).image[1]
  /\ main' = "newFrame"
  /\ UNCHANGED <<serverVars, toClient, faultVars, viewerVars>>

\* if (serverFrameCounter > frameCounter): the first half of the call.
BeginFrame ==
  /\ main = "loop"
  /\ Arrived("sendFrame")
  /\ Head(toClient).image[1] > frameCounter
  /\ PushFrame
  /\ frameCounter' = Head(toClient).image[1]
  /\ main' = "newFrame"
  /\ UNCHANGED <<serverVars, toClient, faultVars, viewerVars>>

\* The sphere index of the message is read and not used.  A sphere too many is
\* ignored by pushElement().
ReceiveSphere ==
  /\ \/ main = "newFrame"
     \/ main = "loop" /\ Arrived("sendFrame")
          /\ Head(toClient).image[1] <= frameCounter
  /\ \/ PushElement(Head(toClient).image)
     \/ elementWriteIndex >= elementsPerFrame /\ UNCHANGED vars
  /\ toClient' = Tail(toClient)
  /\ main' = "loop"
  /\ UNCHANGED <<serverVars, faultVars, frameCounter, viewerVars>>

ReceiveSphereCount ==
  /\ main = "loop"
  /\ Arrived("sphereCount")
  /\ UpdateElementsPerFrame(Head(toClient).count)
  /\ toClient' = Tail(toClient)
  /\ UNCHANGED <<serverVars, faultVars, frameCounter, main, viewerVars>>

-----------------------------------------------------------------------------
(* The client: the viewer's widget *)

\* The mark of a step of the widget outside paintGL().
PictureRests ==
  UNCHANGED <<vars, serverVars, toClient, faultVars, frameCounter>>

StartAnimation ==
  /\ main = "loop"
  /\ ~animating
  /\ animating' = TRUE
  /\ timerArmed' = TRUE
  /\ UNCHANGED <<main, painting, screen>>
  /\ PictureRests

\* The timer is left running and fires once more.
StopAnimation ==
  /\ main = "loop"
  /\ animating
  /\ animating' = FALSE
  /\ UNCHANGED <<timerArmed, main, painting, screen>>
  /\ PictureRests

BeginPainting ==
  /\ main = "loop"
  /\ main' = "painting"
  /\ painting' = <<>>
  /\ UNCHANGED screen
  /\ PictureRests

TimerUpdateOnce ==
  /\ timerArmed
  /\ timerArmed' = FALSE
  /\ UNCHANGED animating
  /\ BeginPainting

\* A single shot that is started again as long as the animation runs.
TimerUpdate ==
  /\ timerArmed
  /\ timerArmed' = animating
  /\ UNCHANGED animating
  /\ BeginPainting

\* The window system asks for a picture.
Expose ==
  /\ UNCHANGED <<animating, timerArmed>>
  /\ BeginPainting

\* while (frameBuffer->hasElements())
PaintSphere ==
  /\ main = "painting"
  /\ elementReadIndex < elementsPerFrame
  /\ PopElement
  /\ painting' = Append(painting, popped')
  /\ UNCHANGED <<serverVars, toClient, faultVars, frameCounter, main,
                 animating, timerArmed, screen>>

\* popFrame(), and updateGL() swaps the buffers.
EndPainting ==
  /\ main = "painting"
  /\ elementReadIndex >= elementsPerFrame
  /\ PopFrame
  /\ screen' = painting
  /\ painting' = <<>>
  /\ main' = "loop"
  /\ UNCHANGED <<serverVars, toClient, faultVars, frameCounter, animating,
                 timerArmed>>

-----------------------------------------------------------------------------
StreamNext ==
  \/ PrepareFrame
  \/ \E n \in 0 .. MaxSpheres : UpdateSphereCount(n)
  \/ Lose
  \/ BeginFrame
  \/ ReceiveSphere
  \/ ReceiveSphereCount
  \/ StartAnimation
  \/ StopAnimation
  \/ TimerUpdate
  \/ Expose
  \/ PaintSphere
  \/ EndPainting

\* A function of the main thread runs to its end, and its event loop serves
\* every source that is ready again and again: neither does the timer starve the
\* messages nor the other way round.
StreamFairness ==
  /\ WF_streamVars(PaintSphere)
  /\ WF_streamVars(EndPainting)
  /\ SF_streamVars(TimerUpdate)
  /\ SF_streamVars(BeginFrame)
  /\ SF_streamVars(ReceiveSphere)
  /\ SF_streamVars(ReceiveSphereCount)

StreamSpec == StreamInit /\ [][StreamNext]_streamVars /\ StreamFairness

-----------------------------------------------------------------------------
WholeFrame(i) == frames[(readIndex + i - 1) % BufferSize]

\* Memory nobody has written since the ring was resized.
IsBlank(frame) == \A i \in DOMAIN frame : frame[i] = Blank

\* What the server sent as frame number k.
IsFrame(frame, k) == \A i \in DOMAIN frame : frame[i] = <<k, i>>

\* A lost sphere damages the frame it belongs to and no other, and no resize
\* mixes two frames: every whole frame of the ring is complete and in the order
\* of the spheres, or starts with a sphere of a frame that has lost one; only the
\* first one may be blank (the ring is pushed before it is filled), and the
\* frames have rising numbers.
LossStaysInItsFrame ==
  \A i \in 1 .. FrameCount :
    IF IsBlank(WholeFrame(i)) THEN i = 1
    ELSE LET k == WholeFrame(i)[0][1]
         IN /\ k \in damaged \/ IsFrame(WholeFrame(i), k)
            /\ \A j \in 1 .. i - 1 :
                 IsBlank(WholeFrame(j)) \/ WholeFrame(j)[0][1] < k

\* What a careless reader of the protocol would expect: every frame that is
\* painted consists of spheres of one frame of the server.
NoMixedFrame ==
  \A i \in 1 .. FrameCount : \A m, n \in DOMAIN WholeFrame(i) :
    WholeFrame(i)[m] # Blank /\ WholeFrame(i)[n] # Blank
      => WholeFrame(i)[m][1] = WholeFrame(i)[n][1]

NewestFrame ==
  [i \in 1 .. elementsPerFrame |->
     frames[(writeIndex + BufferSize - 1) % BufferSize][i - 1]]

\* An animation that is never stopped catches up with the stream: when the
\* server rests, the picture becomes the newest whole frame and stays so, whether
\* the ring was overrun, resized or emptied before, and however often the
\* animation was stopped and started while its timer was running.
PainterCatchesUp ==
  <>[]animating => <>[](readIndex # writeIndex => screen = NewestFrame)
=============================================================================
