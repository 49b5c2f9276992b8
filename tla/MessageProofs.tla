--------------------------- MODULE MessageProofs ---------------------------
(***************************************************************************)
(* Theorems about the messages between a client and its server: that a     *)
(* call returns the reply to its own request (RequestReply, for every set  *)
(* of actions and every number of calls), and that both sides mean the     *)
(* same bytes (WireFormat, for every set of numbers, both floating types   *)
(* of either build and every number of events).                            *)
(***************************************************************************)
EXTENDS RequestReply, WireFormat, SequenceTheorems, WellFoundedInduction, TLAPS

(* What the worker emits *)

\* A function on 1 .. n is a sequence.
LEMMA FunctionIsSequence ==
  ASSUME NEW S, NEW n \in Nat, NEW f \in [1 .. n -> S]
  PROVE  f \in Seq(S) /\ Len(f) = n
<1>1. f \in Seq(S)
  BY SeqDef, Zenon
<1>2. DOMAIN f = 1 .. n /\ DOMAIN f = 1 .. Len(f) /\ Len(f) \in Nat
  BY <1>1, LenProperties
<1> QED
  BY <1>1, <1>2, SMT

\* The sizes a request makes the sphere store go through: none if it leaves the
\* number of spheres alone, and none grows it by more than the request asks for.
LEMMA SizesTyped ==
  ASSUME NEW op \in AllOps, spheres \in Nat
  PROVE  /\ Sizes(op) \in Seq(0 .. spheres + Some)
         /\ op \notin CountOps => Sizes(op) = <<>>
<1> DEFINE up == [i \in 1 .. Some |-> spheres + i]
           fewer == IF spheres < Some THEN spheres ELSE Some
           down == [i \in 1 .. fewer |-> spheres - i]
<1>1. up \in Seq(0 .. spheres + Some)
  <2>1. up \in [1 .. Some -> 0 .. spheres + Some]
    BY DEF Some
  <2> QED
    BY <2>1, FunctionIsSequence DEF Some
<1>2. down \in Seq(0 .. spheres + Some)
  <2>1. fewer \in Nat /\ down \in [1 .. fewer -> 0 .. spheres + Some]
    BY DEF Some
  <2> QED
    BY <2>1, FunctionIsSequence
<1>3. /\ <<spheres + 1>> \in Seq(0 .. spheres + Some)
      /\ spheres > 0 => <<spheres - 1>> \in Seq(0 .. spheres + Some)
      /\ <<>> \in Seq(0 .. spheres + Some)
  BY DEF Some
<1> HIDE DEF up, down
<1>4. CASE op = "addSphere"
  BY <1>3, <1>4 DEF Sizes, CountOps
<1>5. CASE op = "addSomeSpheres"
  BY <1>1, <1>5 DEF Sizes, CountOps, up
<1>6. CASE op = "removeLastSphere"
  BY <1>3, <1>6 DEF Sizes, CountOps
<1>7. CASE op = "removeSomeLastSpheres"
  BY <1>2, <1>7 DEF Sizes, CountOps, down
<1>8. CASE op \in {"getTotalEnergy", "updateSphere"}
  BY <1>3, <1>8 DEF Sizes, CountOps
<1> QED
  BY <1>4, <1>5, <1>6, <1>7, <1>8 DEF AllOps, ReplyOps, CountOps

VariableMessages == [kind : {"variable"}, value : Counts]

\* Each size is told by one message, with its value.
LEMMA ToldTyped ==
  ASSUME NEW sizes \in Seq(Counts)
  PROVE  /\ Told(sizes) \in Seq(VariableMessages)
         /\ Len(Told(sizes)) = Len(sizes)
         /\ \A i \in 1 .. Len(sizes) : Told(sizes)[i].value = sizes[i]
<1>1. Len(sizes) \in Nat /\ \A i \in 1 .. Len(sizes) : sizes[i] \in Counts
  BY LenProperties
<1>2. Told(sizes) \in [1 .. Len(sizes) -> VariableMessages]
  BY <1>1 DEF Told, VariableMessages
<1>3. \A i \in 1 .. Len(sizes) : Told(sizes)[i].value = sizes[i]
  BY <1>1 DEF Told
<1> HIDE DEF Told
<1> QED
  BY <1>1, <1>2, <1>3, FunctionIsSequence

-----------------------------------------------------------------------------
(* Type correctness *)

\* No more spheres than the calls that were handled can have added.
SpheresBound == spheres + Some * Len(requests) <= Some * calls

TypeInv == TypeOK /\ SpheresBound

\* What the handler of a request does, whatever the request.
LEMMA HandleTyped ==
  ASSUME TypeInv, Handle
  PROVE  /\ requests # <<>>
         /\ spheres' \in Counts /\ spheres' <= spheres + Some
         /\ sphereCount' = spheres'
         /\ Len(requests') = Len(requests) - 1 /\ requests' \in Seq(Calls)
         /\ replies' \in Seq(Replies)
         /\ Sizes(Head(requests).op) \in Seq(Counts)
<1> USE RequestReplyAssumption
<1> DEFINE call == Head(requests)
           sizes == Sizes(call.op)
           count == IF sizes = <<>> THEN spheres ELSE sizes[Len(sizes)]
<1>1. requests # <<>> /\ requests' = Tail(requests) /\ UNCHANGED clientVars
  BY DEF Handle
<1>2. /\ call \in Calls /\ requests' \in Seq(Calls)
      /\ Len(requests) \in Nat \ {0} /\ Len(requests') = Len(requests) - 1
  BY <1>1, HeadTailProperties, EmptySeq DEF TypeInv, TypeOK
<1>3. call.op \in AllOps /\ call.number \in CallNumbers
  BY <1>2 DEF Calls
<1>4. spheres \in Nat /\ calls \in 0 .. MaxCalls /\ spheres + Some <= Some * MaxCalls
  BY <1>2 DEF TypeInv, TypeOK, SpheresBound, CallNumbers, Counts, Some
<1>5. sizes \in Seq(0 .. spheres + Some)
  BY <1>3, <1>4, SizesTyped
<1>6. 0 .. spheres + Some \subseteq Counts
  BY <1>4 DEF Counts, Some
<1>7. sizes \in Seq(Counts)
  BY <1>5, <1>6, SeqMonotonic
<1>8. count \in 0 .. spheres + Some
  <2>1. CASE sizes = <<>>
    BY <2>1, <1>4 DEF Some
  <2>2. CASE sizes # <<>>
    <3>1. Len(sizes) \in 1 .. Len(sizes)
      BY <2>2, <1>5, EmptySeq
    <3> QED
      BY <2>2, <3>1, <1>5, ElementOfSeq
  <2> QED
    BY <2>1, <2>2
<1>9. spheres' = count /\ sphereCount' = count /\ replies' = replies \o Emitted(call, sizes, count)
  BY DEF Handle
<1> HIDE DEF sizes, count, call
<1>10. Answer(call, count) \in Seq(Replies)
  <2>1. CASE call.op \in ReplyOps
    <3>1. /\ call.number \in CallNumbers
          /\ (IF call.op \in CountOps THEN count ELSE NoCount) \in Values
      BY <1>3, <1>6, <1>8 DEF Values
    <3>2. [kind |-> "reply", number |-> call.number,
           value |-> IF call.op \in CountOps THEN count ELSE NoCount] \in Replies
      BY <3>1, Zenon DEF Replies
    <3> QED
      BY <2>1, <3>2 DEF Answer
  <2>2. CASE call.op \notin ReplyOps
    BY <2>2 DEF Answer
  <2> QED
    BY <2>1, <2>2
<1>11. Told(sizes) \in Seq(Replies)
  <2>1. VariableMessages \subseteq Replies
    BY DEF VariableMessages, Replies
  <2> QED
    BY <1>7, <2>1, ToldTyped, SeqMonotonic
<1>12. replies' \in Seq(Replies)
  BY <1>9, <1>10, <1>11, ConcatProperties DEF Emitted, TypeInv, TypeOK
<1>13. spheres' \in Counts /\ spheres' <= spheres + Some
  BY <1>4, <1>6, <1>8, <1>9 DEF Some
<1>14. Sizes(Head(requests).op) \in Seq(Counts)
  BY <1>7 DEF sizes, call
<1> QED
  BY <1>1, <1>2, <1>9, <1>12, <1>13, <1>14

\* The type invariant is inductive together with the bound on the spheres.
LEMMA TypeInvariant == Spec => []TypeInv
<1> USE RequestReplyAssumption
<1>1. Init => TypeInv
  <2> SUFFICES ASSUME Init PROVE TypeInv
    OBVIOUS
  <2>1. 0 \in CallNumbers /\ 0 \in Counts /\ 0 \in Values
    BY DEF CallNumbers, Counts, Some, Values
  <2>2. NoCall \in Calls /\ [number |-> 0, value |-> 0] \in Data
    BY <2>1 DEF NoCall, Calls, AllOps, Data
  <2>3. [call |-> NoCall, data |-> [number |-> 0, value |-> 0], count |-> 0]
           \in [call : Calls, data : Data, count : Counts]
    BY <2>1, <2>2, Zenon
  <2>4. returned \in [call : Calls, data : Data, count : Counts]
    BY <2>3 DEF Init
  <2>5. TypeOK
    <3>1. waiting \in Seq(Calls) /\ requests \in Seq(Calls) /\ replies \in Seq(Replies)
      BY DEF Init
    <3>2. /\ calls \in CallNumbers /\ {spheres, sphereCount, clientCount} \subseteq Counts
          /\ receivedServerReply \in BOOLEAN /\ lastServerReplyData \in Data
          /\ elementsPerFrame \in Values
      BY <2>1, <2>2, Zenon DEF Init
    <3> QED
      BY <3>1, <3>2, <2>4, Zenon DEF TypeOK
  <2>6. SpheresBound
    BY DEF Init, SpheresBound, Some
  <2> QED
    BY <2>5, <2>6 DEF TypeInv
<1>2. TypeInv /\ [Next]_vars => TypeInv'
  <2> SUFFICES ASSUME TypeInv, [Next]_vars PROVE TypeInv'
    OBVIOUS
  <2> USE DEF TypeInv
  <2>1. ASSUME NEW op \in AllOps, Call(op) PROVE TypeInv'
    <3> DEFINE call == [op |-> op, number |-> calls + 1]
    <3>1. calls' = calls + 1 /\ calls' \in CallNumbers /\ call \in Calls
      BY <2>1 DEF Call, TypeOK, CallNumbers, Calls
    <3>2. /\ requests' = Append(requests, call)
          /\ waiting' = IF op \in ReplyOps THEN Append(waiting, call) ELSE waiting
      BY <2>1 DEF Call
    <3> HIDE DEF call
    <3>3. /\ requests' \in Seq(Calls) /\ Len(requests') = Len(requests) + 1
          /\ Len(requests) \in Nat /\ waiting' \in Seq(Calls)
      BY <3>1, <3>2, AppendProperties, LenProperties DEF TypeOK
    <3>4. SpheresBound'
      BY <2>1, <3>1, <3>3 DEF Call, SpheresBound, TypeOK, CallNumbers, serverVars, Counts, Some
    <3> QED
      BY <2>1, <3>1, <3>3, <3>4 DEF Call, TypeOK, serverVars
  <2>2. CASE ProcessReply
    <3> DEFINE message == Head(replies)
    <3>1. message \in Replies /\ replies' \in Seq(Replies)
      BY <2>2, HeadTailProperties DEF ProcessReply, TypeOK
    <3>2. CASE message.kind = "variable"
      <4>1. message.value \in Counts
        BY <3>1, <3>2 DEF Replies
      <4>2. clientCount' \in Counts /\ elementsPerFrame' \in Values
            /\ UNCHANGED <<receivedServerReply, lastServerReplyData>>
        BY <2>2, <3>2, <4>1 DEF ProcessReply, ReceiveCount, TypeOK, Values
      <4> QED
        BY <2>2, <3>1, <4>2 DEF ProcessReply, TypeOK, SpheresBound, serverVars
    <3>3. CASE message.kind = "reply"
      <4>1. message.number \in CallNumbers /\ message.value \in Values
        BY <3>1, <3>3 DEF Replies
      <4>2. /\ lastServerReplyData' = [number |-> message.number, value |-> message.value]
            /\ receivedServerReply' = TRUE
            /\ UNCHANGED <<clientCount, elementsPerFrame>>
        BY <2>2, <3>3 DEF ProcessReply
      <4>3. lastServerReplyData' \in Data
        BY <4>1, <4>2 DEF Data
      <4> QED
        BY <2>2, <3>1, <4>2, <4>3 DEF ProcessReply, TypeOK, SpheresBound, serverVars
    <3> QED
      BY <2>2, <3>2, <3>3 DEF ProcessReply
  <2>3. CASE Return
    <3>1. Len(waiting) \in Nat \ {0} /\ waiting[Len(waiting)] \in Calls
      BY <2>3, EmptySeq, ElementOfSeq DEF Return, TypeOK
    <3>2. waiting' \in Seq(Calls)
      <4>1. \A i \in 1 .. Len(waiting) - 1 : waiting[i] \in Calls
        BY <3>1, ElementOfSeq DEF TypeOK
      <4> QED
        BY <2>3, <3>1, <4>1, SubSeqProperties DEF Return
    <3>3. lastServerReplyData.value \in Values
      BY DEF TypeOK, Data
    <3>4. /\ returned' \in [call : Calls, data : Data, count : Counts]
          /\ elementsPerFrame' \in Values
      BY <2>3, <3>1, <3>3 DEF Return, TypeOK
    <3> QED
      BY <2>3, <3>2, <3>4 DEF Return, TypeOK, SpheresBound, serverVars
  <2>4. CASE Handle
    <3>1. UNCHANGED clientVars
      BY <2>4 DEF Handle
    <3>2. SpheresBound'
      BY <2>4, <3>1, HandleTyped, LenProperties, SMTT(30)
         DEF SpheresBound, clientVars, TypeOK, CallNumbers, Counts, Some
    <3> QED
      BY <2>4, <3>1, <3>2, HandleTyped DEF clientVars, TypeOK
  <2>5. CASE UNCHANGED vars
    BY <2>5 DEF vars, clientVars, serverVars, TypeOK, SpheresBound
  <2> QED
    BY <2>1, <2>2, <2>3, <2>4, <2>5 DEF Next
<1> QED
  BY <1>1, <1>2, PTL DEF Spec

\* Counts, replies and call numbers stay in their ranges: no request makes the
\* number of spheres negative or larger than what was asked for (addSomeSpheres,
\* removeSomeLastSpheres, getAndUpdateSphereCount).
THEOREM TypeCorrect == Spec => []TypeOK
<1>1. TypeInv => TypeOK
  BY DEF TypeInv
<1> QED
  BY <1>1, TypeInvariant, PTL

-----------------------------------------------------------------------------
(* Replies and counts *)

\* Nothing that is answered is queued.
NoneAnswered == \A i \in DOMAIN requests : requests[i].op \notin ReplyOps

\* What has been sent has been received.
NothingSent == replies = <<>> /\ clientCount = spheres

Resting ==
  waiting = <<>> /\ NoneAnswered /\ NothingSent /\ ~receivedServerReply

\* The request of the call that waits is queued, and is the only one of its kind.
Asked ==
  /\ Len(waiting) = 1
  /\ NothingSent /\ ~receivedServerReply
  /\ \E k \in DOMAIN requests :
       /\ requests[k] = waiting[1]
       /\ \A i \in DOMAIN requests \ {k} : requests[i].op \notin ReplyOps

\* Its reply is on its way, behind the sizes the store went through.
Answering ==
  LET n == Len(replies)
  IN  /\ Len(waiting) = 1
      /\ NoneAnswered /\ ~receivedServerReply
      /\ n > 0
      /\ replies[n].kind = "reply" /\ replies[n].number = waiting[1].number
      /\ waiting[1].op \in CountOps => replies[n].value = spheres
      /\ \A i \in 1 .. n - 1 : replies[i].kind = "variable"
      /\ n = 1 => clientCount = spheres
      /\ n > 1 => replies[n - 1].value = spheres

\* Its reply has come.
Answered ==
  /\ Len(waiting) = 1
  /\ NoneAnswered /\ NothingSent /\ receivedServerReply
  /\ lastServerReplyData.number = waiting[1].number
  /\ waiting[1].op \in CountOps => lastServerReplyData.value = spheres

\* The inductive invariant.
CallInv ==
  /\ Resting \/ Asked \/ Answering \/ Answered
  /\ \A k \in DOMAIN waiting : waiting[k].op \in ReplyOps
  /\ sphereCount = spheres
  /\ elementsPerFrame = clientCount
  /\ ReplyAnswersItsCall
  /\ CountKnownOnReturn

\* A slot that runs while a call waits makes no call that waits itself.
NoNestedCalls == Slots \intersect ReplyOps = {}

\* A request that is not answered changes nothing and tells nothing.
LEMMA HandleUnanswered ==
  ASSUME TypeInv, Handle, Head(requests).op \notin ReplyOps
  PROVE  UNCHANGED <<spheres, replies>>
<1> DEFINE call == Head(requests)
<1>1. call \in Calls
  BY HeadTailProperties DEF Handle, TypeInv, TypeOK
<1>2. call.op \in AllOps /\ call.op \notin CountOps /\ call.op \notin ReplyOps
  BY <1>1 DEF Calls, ReplyOps
<1>3. spheres \in Nat
  BY RequestReplyAssumption DEF TypeInv, TypeOK, Counts, Some
<1>4. Sizes(call.op) = <<>>
  BY <1>2, <1>3, SizesTyped
<1>5. spheres' = spheres /\ replies' = replies \o Emitted(call, <<>>, spheres)
  BY <1>4 DEF Handle
<1>6. Told(<<>>) = <<>>
  BY ToldTyped, EmptySeq
<1>7. Answer(call, spheres) = <<>>
  BY <1>2 DEF Answer
<1>8. Emitted(call, <<>>, spheres) = <<>>
  BY <1>6, <1>7 DEF Emitted
<1>9. replies \in Seq(Replies)
  BY DEF TypeInv, TypeOK
<1> HIDE DEF call
<1> QED
  BY <1>5, <1>8, <1>9, ConcatEmptySeq

\* The reply to a request follows the sizes the store went through.
LEMMA HandleAnswered ==
  ASSUME TypeInv, Handle, Head(requests).op \in ReplyOps, replies = <<>>
  PROVE  LET n == Len(replies')
         IN  /\ n \in Nat \ {0}
             /\ replies'[n].kind = "reply"
             /\ replies'[n].number = Head(requests).number
             /\ Head(requests).op \in CountOps => replies'[n].value = spheres'
             /\ \A i \in 1 .. n - 1 : replies'[i].kind = "variable"
             /\ n = 1 => spheres' = spheres
             /\ n > 1 => replies'[n - 1].value = spheres'
<1> DEFINE call == Head(requests)
           sizes == Sizes(call.op)
           count == IF sizes = <<>> THEN spheres ELSE sizes[Len(sizes)]
           reply == [kind |-> "reply", number |-> call.number,
                     value |-> IF call.op \in CountOps THEN count ELSE NoCount]
           m == Len(sizes)
<1>1. sizes \in Seq(Counts) /\ m \in Nat /\ (m = 0 => sizes = <<>>) /\ (sizes = <<>> => m = 0)
  BY HandleTyped, LenProperties, EmptySeq
<1>2. spheres' = count /\ replies' = replies \o (Told(sizes) \o Answer(call, count))
  BY DEF Handle, Emitted
<1> HIDE DEF call, sizes
<1>3. Answer(call, count) = <<reply>>
  BY DEF Answer, call
<1> DEFINE Sent == VariableMessages \union {reply}
<1>4. Told(sizes) \in Seq(Sent) /\ <<reply>> \in Seq(Sent)
  BY <1>1, ToldTyped, SeqMonotonic
<1>5. /\ Len(Told(sizes)) = m /\ Len(<<reply>>) = 1 /\ <<reply>>[1] = reply
      /\ \A i \in 1 .. m : Told(sizes)[i] \in VariableMessages
      /\ \A i \in 1 .. m : Told(sizes)[i].value = sizes[i]
  BY <1>1, ToldTyped, ElementOfSeq
<1> HIDE DEF reply, Sent, m, count
<1>6. replies' = Told(sizes) \o <<reply>>
  <2>1. Told(sizes) \o <<reply>> \in Seq(Sent)
    BY <1>4, ConcatProperties
  <2> QED
    BY <2>1, <1>2, <1>3, ConcatEmptySeq
<1>7. /\ Len(replies') = m + 1
      /\ replies'[m + 1] = reply
      /\ \A i \in 1 .. m : replies'[i] = Told(sizes)[i]
  <2> DEFINE told == Told(sizes)
             last == <<reply>>
  <2>1. told \in Seq(Sent) /\ last \in Seq(Sent) /\ Len(told) = m /\ Len(last) = 1
        /\ last[1] = reply /\ replies' = told \o last /\ m \in Nat
    BY <1>1, <1>4, <1>5, <1>6 DEF m
  <2> HIDE DEF told, last
  <2>2. /\ Len(told \o last) = m + 1
        /\ \A i \in 1 .. m + 1 :
              /\ i <= m => (told \o last)[i] = told[i]
              /\ i = m + 1 => (told \o last)[i] = last[1]
    BY <2>1, ConcatProperties
  <2>3. m + 1 \in 1 .. m + 1 /\ ~(m + 1 <= m)
        /\ \A i \in 1 .. m : i \in 1 .. m + 1 /\ i <= m
    BY <2>1
  <2>4. (told \o last)[m + 1] = last[1]
    BY <2>2, <2>3
  <2>5. \A i \in 1 .. m : (told \o last)[i] = told[i]
    BY <2>2, <2>3
  <2> QED
    BY <2>1, <2>2, <2>4, <2>5 DEF told
<1>8. \A i \in 1 .. m : replies'[i].kind = "variable" /\ replies'[i].value = sizes[i]
  BY <1>5, <1>7 DEF VariableMessages
<1>9. /\ reply.kind = "reply" /\ reply.number = call.number
      /\ call.op \in CountOps => reply.value = count
  BY DEF reply
<1>10. m > 0 => replies'[m].value = count
  BY <1>1, <1>8 DEF count, m
<1>11. m = 0 => count = spheres
  BY <1>1 DEF count
<1> DEFINE n == Len(replies')
<1>12. n = m + 1 /\ n \in Nat \ {0} /\ replies'[n] = reply
  BY <1>1, <1>7
<1>13. \A i \in 1 .. n - 1 : replies'[i].kind = "variable"
  BY <1>1, <1>8, <1>12
<1>14. /\ n = 1 => spheres' = spheres
       /\ n > 1 => replies'[n - 1].value = spheres'
  BY <1>1, <1>2, <1>10, <1>11, <1>12
<1> HIDE DEF n
<1>15. call.op \in CountOps => replies'[n].value = spheres'
  BY <1>2, <1>9, <1>12
<1> QED
  BY <1>9, <1>12, <1>13, <1>14, <1>15 DEF call, n

\* Every step moves the call that waits one stage further or leaves it alone: a
\* request can neither be overtaken nor be answered twice.
LEMMA CallInvariant ==
  ASSUME NoNestedCalls
  PROVE  Spec => []CallInv
<1>1. Init => CallInv
  BY DEF Init, CallInv, Resting, NoneAnswered, NothingSent, ReplyAnswersItsCall,
         CountKnownOnReturn, NoCall, CountOps
<1>2. TypeInv /\ TypeInv' /\ CallInv /\ [Next]_vars => CallInv'
  <2> SUFFICES ASSUME TypeInv, TypeInv', CallInv, [Next]_vars
               PROVE  CallInv'
    OBVIOUS
  <2>0. /\ waiting \in Seq(Calls) /\ requests \in Seq(Calls) /\ replies \in Seq(Replies)
        /\ Len(waiting) \in Nat /\ Len(requests) \in Nat /\ Len(replies) \in Nat
        /\ DOMAIN waiting = 1 .. Len(waiting) /\ DOMAIN requests = 1 .. Len(requests)
        /\ waiting = <<>> <=> Len(waiting) = 0
        /\ replies = <<>> <=> Len(replies) = 0
    BY LenProperties, EmptySeq DEF TypeInv, TypeOK
  <2>1. ASSUME NEW op \in AllOps, Call(op) PROVE CallInv'
    <3> DEFINE call == [op |-> op, number |-> calls + 1]
               k == Len(requests) + 1
    <3>1. /\ requests' = Append(requests, call)
          /\ waiting' = IF op \in ReplyOps THEN Append(waiting, call) ELSE waiting
          /\ UNCHANGED <<serverVars, replies, receivedServerReply, lastServerReplyData,
                         clientCount, elementsPerFrame, returned>>
          /\ op \in IF waiting = <<>> THEN Ops ELSE Slots
      BY <2>1 DEF Call
    <3>2. call \in Calls /\ call.op = op
      <4>1. calls + 1 \in CallNumbers
        BY <2>1, RequestReplyAssumption DEF Call, TypeInv, TypeOK, CallNumbers
      <4> QED
        BY <4>1 DEF Calls
    <3> HIDE DEF call
    <3>3. /\ DOMAIN requests' = 1 .. k /\ requests'[k] = call
          /\ \A i \in 1 .. Len(requests) : requests'[i] = requests[i]
      BY <3>1, <3>2, <2>0, AppendProperties
    <3>4. CASE waiting = <<>>
      <4>1. Resting
        BY <3>4, <2>0 DEF CallInv, Asked, Answering, Answered
      <4>2. CASE op \in ReplyOps
        <5>1. waiting' = Append(<<>>, call)
          BY <3>1, <3>4, <4>2
        <5>2. Len(waiting') = 1 /\ waiting'[1] = call /\ DOMAIN waiting' = 1 .. 1
          BY <5>1, <3>2, AppendProperties, EmptySeq
        <5>3. \A i \in DOMAIN requests' \ {k} : requests'[i].op \notin ReplyOps
          BY <3>3, <4>1, <2>0 DEF Resting, NoneAnswered
        <5>4. Asked'
          BY <5>2, <5>3, <3>1, <3>3, <4>1, <2>0 DEF Asked, Resting, NothingSent, serverVars
        <5> QED
          BY <5>2, <5>4, <3>1, <3>2, <4>2
             DEF CallInv, ReplyAnswersItsCall, CountKnownOnReturn, serverVars
      <4>3. CASE op \notin ReplyOps
        <5>1. NoneAnswered'
          BY <3>2, <3>3, <4>1, <4>3, <2>0 DEF Resting, NoneAnswered
        <5>2. Resting'
          BY <5>1, <3>1, <4>1, <4>3 DEF Resting, NothingSent, serverVars
        <5> QED
          BY <5>2, <3>1, <4>3
             DEF CallInv, ReplyAnswersItsCall, CountKnownOnReturn, serverVars
      <4> QED
        BY <4>2, <4>3
    <3>5. CASE waiting # <<>>
      <4>1. op \notin ReplyOps /\ waiting' = waiting
        BY <3>1, <3>5 DEF NoNestedCalls
      <4>2. NoneAnswered => NoneAnswered'
        BY <3>2, <3>3, <4>1, <2>0 DEF NoneAnswered
      <4>3. Asked => Asked'
        <5> SUFFICES ASSUME Asked PROVE Asked'
          OBVIOUS
        <5>1. PICK j \in DOMAIN requests :
                /\ requests[j] = waiting[1]
                /\ \A i \in DOMAIN requests \ {j} : requests[i].op \notin ReplyOps
          BY DEF Asked
        <5>2. /\ j \in DOMAIN requests' /\ requests'[j] = waiting'[1]
              /\ \A i \in DOMAIN requests' \ {j} : requests'[i].op \notin ReplyOps
          BY <5>1, <3>2, <3>3, <4>1, <2>0, SMTT(30)
        <5> QED
          BY <5>2, <3>1, <4>1 DEF Asked, NothingSent, serverVars
      <4>4. Answering => Answering'
        BY <3>1, <4>1, <4>2 DEF Answering, serverVars
      <4>5. Answered => Answered'
        BY <3>1, <4>1, <4>2 DEF Answered, NothingSent, serverVars
      <4> QED
        BY <3>1, <3>5, <4>1, <4>3, <4>4, <4>5
           DEF CallInv, Resting, ReplyAnswersItsCall, CountKnownOnReturn, serverVars
    <3> QED
      BY <3>4, <3>5
  <2>2. CASE ProcessReply
    <3> DEFINE n == Len(replies)
    <3>1. /\ replies # <<>> /\ replies' = Tail(replies)
          /\ UNCHANGED <<calls, waiting, requests, returned, spheres, sphereCount>>
      BY <2>2 DEF ProcessReply, serverVars
    <3>2. Answering
      BY <3>1 DEF CallInv, Resting, Asked, Answered, NothingSent
    <3>3. /\ n > 0 /\ Head(replies) = replies[1] /\ Len(replies') = n - 1
          /\ \A i \in 1 .. n - 1 : replies'[i] = replies[i + 1]
      BY <3>1, <2>0, HeadTailProperties
    <3>4. CASE n = 1
      <4>1. Head(replies).kind = "reply"
        BY <3>2, <3>3, <3>4 DEF Answering
      <4>2. /\ lastServerReplyData' = [number |-> Head(replies).number,
                                       value |-> Head(replies).value]
            /\ receivedServerReply' = TRUE
            /\ UNCHANGED <<clientCount, elementsPerFrame>>
        BY <2>2, <4>1 DEF ProcessReply
      <4>3. replies' = <<>>
        BY <3>1, <3>3, <3>4, <2>0, EmptySeq, HeadTailProperties
      <4>4. Answered'
        BY <3>1, <3>2, <3>3, <3>4, <4>2, <4>3
           DEF Answering, Answered, NoneAnswered, NothingSent
      <4> QED
        BY <3>1, <4>2, <4>4 DEF CallInv, ReplyAnswersItsCall, CountKnownOnReturn
    <3>5. CASE n > 1
      <4>1. Head(replies).kind = "variable" /\ Head(replies) = replies[1]
        BY <3>2, <3>3, <3>5, <2>0 DEF Answering
      <4>2. ReceiveCount(replies[1].value)
        BY <2>2, <4>1 DEF ProcessReply
      <4>3. /\ clientCount' = replies[1].value /\ elementsPerFrame' = clientCount'
            /\ UNCHANGED <<receivedServerReply, lastServerReplyData>>
        BY <4>2 DEF ReceiveCount, CallInv
      <4>4. Answering'
        <5>1. replies'[n - 1] = replies[n]
          BY <3>3, <3>5, <2>0
        <5>2. n - 1 > 1 => replies'[n - 2] = replies[n - 1]
          BY <3>3, <3>5, <2>0
        <5>3. \A i \in 1 .. n - 2 : replies'[i].kind = "variable"
          BY <3>2, <3>3, <3>5, <2>0, SMTT(30) DEF Answering
        <5>4. n - 1 = 1 => clientCount' = spheres
          BY <3>2, <3>5, <4>3, <2>0 DEF Answering
        <5>5. n - 1 > 1 => replies'[n - 2].value = spheres
          BY <3>2, <5>2, <2>0 DEF Answering
        <5>6. NoneAnswered' /\ ~receivedServerReply' /\ Len(waiting') = 1
          BY <3>1, <3>2, <4>3 DEF Answering, NoneAnswered
        <5>7. /\ replies'[n - 1].kind = "reply" /\ replies'[n - 1].number = waiting'[1].number
              /\ waiting'[1].op \in CountOps => replies'[n - 1].value = spheres'
          BY <3>1, <3>2, <5>1 DEF Answering
        <5> DEFINE l == n - 1
        <5>8. Len(replies') = l /\ l > 0 /\ l - 1 = n - 2
          BY <3>3, <3>5, <2>0
        <5>9. /\ replies'[l].kind = "reply" /\ replies'[l].number = waiting'[1].number
              /\ waiting'[1].op \in CountOps => replies'[l].value = spheres'
              /\ \A i \in 1 .. l - 1 : replies'[i].kind = "variable"
              /\ l = 1 => clientCount' = spheres'
              /\ l > 1 => replies'[l - 1].value = spheres'
          BY <5>3, <5>4, <5>5, <5>7, <5>8, <3>1
        <5> HIDE DEF l
        <5> QED
          BY <5>6, <5>8, <5>9 DEF Answering
      <4> QED
        BY <3>1, <4>3, <4>4 DEF CallInv, ReplyAnswersItsCall, CountKnownOnReturn
    <3> QED
      BY <3>3, <3>4, <3>5, <2>0
  <2>3. CASE Return
    <3>1. Answered
      BY <2>3 DEF Return, CallInv, Resting, Asked, Answering
    <3>2. /\ waiting' = SubSeq(waiting, 1, 0)
          /\ returned' = [call |-> waiting[1], data |-> lastServerReplyData,
                          count |-> clientCount]
          /\ elementsPerFrame' = IF waiting[1].op \in CountOps
                                 THEN lastServerReplyData.value ELSE elementsPerFrame
          /\ receivedServerReply' = FALSE
          /\ UNCHANGED <<calls, requests, replies, spheres, sphereCount,
                         lastServerReplyData, clientCount>>
      BY <2>3, <3>1 DEF Return, Answered, serverVars
    <3>3. waiting' = <<>>
      <4>1. \A i \in 1 .. 0 : waiting[i] \in Calls
        OBVIOUS
      <4>2. waiting' \in Seq(Calls) /\ Len(waiting') = 0
        BY <3>2, <4>1, SubSeqProperties
      <4> QED
        BY <4>2, EmptySeq
    <3>4. Resting'
      BY <3>1, <3>2, <3>3 DEF Answered, Resting, NoneAnswered, NothingSent
    <3>5. returned'.data.number = returned'.call.number
      BY <3>1, <3>2 DEF Answered
    <3>6. returned'.call.op \in CountOps => returned'.count = returned'.data.value
      BY <3>1, <3>2 DEF Answered, NothingSent
    <3>7. elementsPerFrame' = clientCount'
      BY <3>1, <3>2 DEF Answered, NothingSent, CallInv
    <3> QED
      BY <3>2, <3>3, <3>4, <3>5, <3>6, <3>7
         DEF CallInv, ReplyAnswersItsCall, CountKnownOnReturn
  <2>4. CASE Handle
    <3>1. /\ requests # <<>> /\ requests' = Tail(requests) /\ UNCHANGED clientVars
          /\ sphereCount' = spheres'
      BY <2>4 DEF Handle
    <3>2. /\ Len(requests) > 0 /\ 1 \in DOMAIN requests /\ Head(requests) = requests[1]
          /\ DOMAIN requests' = 1 .. Len(requests) - 1
          /\ \A i \in 1 .. Len(requests) - 1 :
                requests'[i] = requests[i + 1] /\ i + 1 \in DOMAIN requests
      BY <3>1, <2>0, HeadTailProperties, LenProperties, EmptySeq
    <3>3. Head(requests).op \notin ReplyOps => UNCHANGED <<spheres, replies>>
      BY <2>4, HandleUnanswered
    <3>4. NoneAnswered => NoneAnswered' /\ UNCHANGED <<spheres, replies>>
      BY <3>2, <3>3 DEF NoneAnswered
    <3>5. CASE Asked
      <4>1. PICK k \in DOMAIN requests :
              /\ requests[k] = waiting[1]
              /\ \A i \in DOMAIN requests \ {k} : requests[i].op \notin ReplyOps
        BY <3>5 DEF Asked
      <4>2. CASE k = 1
        <5>1. Head(requests) = waiting[1] /\ Head(requests).op \in ReplyOps
          BY <3>2, <3>5, <4>1, <4>2, <2>0 DEF Asked, CallInv
        <5>2. NoneAnswered'
          BY <3>2, <4>1, <4>2 DEF NoneAnswered
        <5>3. replies = <<>> /\ clientCount = spheres /\ ~receivedServerReply /\ Len(waiting) = 1
          BY <3>5 DEF Asked, NothingSent
        <5>4. LET n == Len(replies')
              IN  /\ n \in Nat \ {0}
                  /\ replies'[n].kind = "reply"
                  /\ replies'[n].number = Head(requests).number
                  /\ Head(requests).op \in CountOps => replies'[n].value = spheres'
                  /\ \A i \in 1 .. n - 1 : replies'[i].kind = "variable"
                  /\ n = 1 => spheres' = spheres
                  /\ n > 1 => replies'[n - 1].value = spheres'
          BY <2>4, <5>1, <5>3, HandleAnswered
        <5>5. Answering'
          BY <3>1, <5>1, <5>2, <5>3, <5>4 DEF Answering, clientVars
        <5> QED
          BY <3>1, <5>5 DEF CallInv, clientVars, ReplyAnswersItsCall, CountKnownOnReturn
      <4>3. CASE k # 1
        <5>1. UNCHANGED <<spheres, replies>>
          BY <3>2, <3>3, <4>1, <4>3
        <5>2. /\ k - 1 \in DOMAIN requests' /\ requests'[k - 1] = waiting'[1]
              /\ \A i \in DOMAIN requests' \ {k - 1} : requests'[i].op \notin ReplyOps
          BY <3>1, <3>2, <4>1, <4>3, <2>0 DEF clientVars
        <5>3. Asked'
          BY <3>1, <3>5, <5>1, <5>2 DEF Asked, NothingSent, clientVars
        <5> QED
          BY <3>1, <5>1, <5>3 DEF CallInv, clientVars, ReplyAnswersItsCall, CountKnownOnReturn
      <4> QED
        BY <4>2, <4>3
    <3>6. CASE Resting \/ Answering \/ Answered
      <4>1. NoneAnswered' /\ UNCHANGED <<spheres, replies>>
        BY <3>4, <3>6 DEF Resting, Answering, Answered
      <4>2. (Resting \/ Answering \/ Answered)'
        BY <3>1, <3>6, <4>1 DEF clientVars, Resting, Answering, Answered, NothingSent
      <4> QED
        BY <3>1, <4>1, <4>2 DEF CallInv, clientVars, ReplyAnswersItsCall, CountKnownOnReturn
    <3> QED
      BY <3>5, <3>6 DEF CallInv
  <2>5. CASE UNCHANGED vars
    BY <2>5 DEF vars, clientVars, serverVars, CallInv, Resting, Asked, Answering, Answered,
                NoneAnswered, NothingSent, ReplyAnswersItsCall, CountKnownOnReturn
  <2> QED
    BY <2>1, <2>2, <2>3, <2>4, <2>5 DEF Next
<1> QED
  BY <1>1, <1>2, TypeInvariant, PTL DEF Spec

\* "Send an action request to the server and return server reply."
\* (sendReplyAction, ActionSender.hpp): as long as no slot waits for a reply of
\* its own, a call returns the reply to its own request, in every run.
THEOREM RepliesCorrect ==
  ASSUME NoNestedCalls
  PROVE  Spec => []ReplyAnswersItsCall
<1>1. CallInv => ReplyAnswersItsCall
  BY DEF CallInv
<1> QED
  BY <1>1, CallInvariant, PTL

\* The number that an action returns is the one the client's variable already
\* has, and when nothing is under way both sides and the frame buffer have the
\* number of spheres there are (getAndUpdateSphereCount, variableUpdated,
\* updateSphereCount).
THEOREM CountsCorrect ==
  ASSUME NoNestedCalls
  PROVE  Spec => []EveryoneAgreesOnCount
<1>1. TypeInv /\ CallInv => EveryoneAgreesOnCount
  <2> SUFFICES ASSUME TypeInv, CallInv PROVE EveryoneAgreesOnCount
    OBVIOUS
  <2>1. CountKnownOnReturn
    BY DEF CallInv
  <2>2. ASSUME waiting = <<>> PROVE clientCount = spheres
    <3>1. Len(waiting) = 0
      BY <2>2, EmptySeq
    <3> QED
      BY <3>1 DEF CallInv, Resting, Asked, Answering, Answered, NothingSent
  <2> QED
    BY <2>1, <2>2 DEF EveryoneAgreesOnCount, Settled, CallInv
<1> QED
  BY <1>1, TypeInvariant, CallInvariant, PTL

-----------------------------------------------------------------------------
(* Encoding *)

\* What the parts of a flattened sequence add up to, one after the other.
Flattening(g, s) ==
  g = [i \in 1 .. Len(s) |-> IF i = 1 THEN s[i] ELSE g[i - 1] \o s[i]]

FieldTypes == {"bool", "char", "short", "int", "float", "double"}
VariableTypes == {"bool", "int", "float", "double", "Vector3", "string"}

\* What a field can stand for.
Names ==
  {"clientID", "serverID", "sendFrame", "sendVariable", "acknowledge", "updateVariable",
   "basic", "spheresUpdating", "calculation", "information", "frameCounter", "index",
   "radius", "mass", "pos", "speed", "acc", "i", "sphCount", "sphereCount", "factor",
   "randomDisplacement", "randomSpeed", "steps", "letter"}
Meanings == Nat \union Names \union Actions \union Variables \union VariableTypes

Fields == [value : Meanings, type : FieldTypes]
AllBytes == Fields \X (1 .. 8)

-----------------------------------------------------------------------------
(* Reading *)

\* What a reader has got after each of its reads.
Readings(r, bytes, types) ==
  r = [n \in 0 .. Len(types) |->
         IF n = 0 THEN [values |-> <<>>, rest |-> bytes, past |-> FALSE]
         ELSE ReadField(r[n - 1], types[n])]

\* Fields that are read as they are written: a float only where the message ends.
FloatsLast(fs, more) ==
  \A n \in 1 .. Len(fs) : fs[n].type = "float" => n = Len(fs) /\ more = <<>>

\* Fields without a float, and the number of their bytes.
Sized(fs, size) ==
  /\ fs \in Seq(Fields)
  /\ \A n \in 1 .. Len(fs) : fs[n].type # "float"
  /\ Len(Encode(fs)) = size

Letters(n) == [i \in 1 .. n |-> Field("letter", "char")]

\* What a side says of a variable with a value.
FieldsFor(type, var, value) ==
  ShortOf(var) \o <<Field(type, "char")>> \o ValueFields(type, value)

FrameFields == IntOf("frameCounter") \o ShortOf("index") \o WriteBasicSphereData

\* Every set of numbers that is not empty has a first one.
LEMMA FirstNumber ==
  ASSUME NEW S \in SUBSET Nat, S # {}
  PROVE  \E k \in S : \A j \in S : k <= j
<1> DEFINE before == OpToRel(<, Nat)
<1>1. IsWellFoundedOn(before, Nat)
  BY NatLessThanWellFounded
<1>2. \A y \in Nat, x \in Nat : y < x => <<y, x>> \in before
  BY DEF OpToRel
<1> HIDE DEF before
<1>3. S \subseteq Nat
  OBVIOUS
<1>4. PICK k \in S : \A j \in S : ~(<<j, k>> \in before)
  BY <1>1, <1>3, WFMin
<1>5. \A j \in S : j \in Nat /\ k \in Nat /\ ~(j < k)
  BY <1>2, <1>3, <1>4
<1> QED
  BY <1>5

\* A sequence of sequences has a flattening: the recursive function that FlattenSeq chooses.
LEMMA FlatteningExists ==
  ASSUME NEW S, NEW s \in Seq(Seq(S))
  PROVE  \E g : Flattening(g, s)
<1> DEFINE Upto(g, n) == g = [i \in 1 .. n |-> IF i = 1 THEN s[i] ELSE g[i - 1] \o s[i]]
           Missing == {n \in 0 .. Len(s) : \A g : ~Upto(g, n)}
<1>0. Len(s) \in Nat
  OBVIOUS
<1> HIDE DEF Upto
<1>1. Missing = {}
  <2> SUFFICES ASSUME Missing # {} PROVE FALSE
    OBVIOUS
  <2>1. Missing \in SUBSET Nat
    BY <1>0
  <2>2. PICK n \in Missing : \A j \in Missing : n <= j
    BY <2>1, FirstNumber
  <2>3. n \in 0 .. Len(s) /\ \A g : ~Upto(g, n)
    OBVIOUS
  <2>4. n # 0
    <3>1. Upto(<<>>, 0)
      BY DEF Upto
    <3> QED
      BY <2>3, <3>1
  <2>5. n \in 1 .. Len(s) /\ n - 1 \in 0 .. Len(s) /\ ~(n <= n - 1)
    BY <1>0, <2>3, <2>4
  <2>6. PICK g : Upto(g, n - 1)
    <3>1. n - 1 \notin Missing
      BY <2>2, <2>5
    <3> QED
      BY <2>5, <3>1
  <2> DEFINE h == [i \in 1 .. n |->
               IF i = n THEN (IF n = 1 THEN s[n] ELSE g[n - 1] \o s[n]) ELSE g[i]]
  <2>7. \A i \in 1 .. n : h[i] = IF i = n THEN (IF n = 1 THEN s[n] ELSE g[n - 1] \o s[n]) ELSE g[i]
    OBVIOUS
  <2>8. \A i \in 1 .. n - 1 : g[i] = IF i = 1 THEN s[i] ELSE g[i - 1] \o s[i]
    BY <2>6 DEF Upto
  <2>9. h = [i \in 1 .. n |-> h[i]]
    OBVIOUS
  <2> HIDE DEF h, Missing
  <2>10. \A i \in 1 .. n : h[i] = IF i = 1 THEN s[i] ELSE h[i - 1] \o s[i]
    <3> SUFFICES ASSUME NEW i \in 1 .. n PROVE h[i] = IF i = 1 THEN s[i] ELSE h[i - 1] \o s[i]
      OBVIOUS
    <3>1. CASE i = n
      <4>1. n # 1 => n - 1 \in 1 .. n /\ n - 1 # n
        BY <2>5
      <4> QED
        BY <2>7, <3>1, <4>1
    <3>2. CASE i # n
      <4>1. i \in 1 .. n - 1 /\ (i # 1 => i - 1 \in 1 .. n /\ i - 1 # n)
        BY <2>5, <3>2
      <4> QED
        BY <2>7, <2>8, <3>2, <4>1
    <3> QED
      BY <3>1, <3>2
  <2>11. Upto(h, n)
    BY <2>9, <2>10 DEF Upto
  <2> QED
    BY <2>3, <2>11
<1>2. PICK g : Upto(g, Len(s))
  <2>1. Len(s) \in 0 .. Len(s) /\ Len(s) \notin Missing
    BY <1>0, <1>1
  <2> QED
    BY <2>1
<1> QED
  BY <1>2 DEF Flattening, Upto

\* FlattenSeq is the last value of such a function: a message is put together field
\* by field.
LEMMA FlattenIs ==
  ASSUME NEW S, NEW s \in Seq(Seq(S)), s # <<>>
  PROVE  \E g : Flattening(g, s) /\ FlattenSeq(s) = g[Len(s)]
<1>1. Len(s) # 0
  BY EmptySeq
<1> DEFINE G == CHOOSE g : Flattening(g, s)
<1>2. Flattening(G, s)
  BY FlatteningExists
<1>3. FlattenSeq(s) = G[Len(s)]
  BY <1>1 DEF FlattenSeq, Flattening
<1> QED
  BY <1>2, <1>3

\* The sum does not depend on what follows.
LEMMA FlatteningUnique ==
  ASSUME NEW S, NEW s \in Seq(Seq(S)), NEW t \in Seq(Seq(S)), NEW g, NEW h,
         Flattening(g, s), Flattening(h, t),
         Len(s) <= Len(t), \A i \in 1 .. Len(s) : s[i] = t[i]
  PROVE  \A i \in 1 .. Len(s) : g[i] = h[i] /\ g[i] \in Seq(S)
<1> DEFINE Bad == {i \in 1 .. Len(s) : ~(g[i] = h[i] /\ g[i] \in Seq(S))}
<1>1. Len(s) \in Nat /\ Len(t) \in Nat
  OBVIOUS
<1>2. /\ \A i \in 1 .. Len(s) : g[i] = IF i = 1 THEN s[i] ELSE g[i - 1] \o s[i]
      /\ \A i \in 1 .. Len(t) : h[i] = IF i = 1 THEN t[i] ELSE h[i - 1] \o t[i]
  BY DEF Flattening
<1>3. Bad = {}
  <2> SUFFICES ASSUME Bad # {} PROVE FALSE
    OBVIOUS
  <2>1. Bad \in SUBSET Nat
    OBVIOUS
  <2>2. PICK i \in Bad : \A j \in Bad : i <= j
    BY <2>1, FirstNumber
  <2>3. i \in 1 .. Len(s) /\ i \in 1 .. Len(t) /\ ~(g[i] = h[i] /\ g[i] \in Seq(S))
    BY <1>1
  <2>4. s[i] = t[i] /\ s[i] \in Seq(S)
    BY <2>3, ElementOfSeq
  <2>5. CASE i = 1
    BY <1>2, <2>3, <2>4, <2>5
  <2>6. CASE i # 1
    <3>1. i - 1 \in 1 .. Len(s) /\ ~(i <= i - 1)
      BY <1>1, <2>3, <2>6
    <3>2. g[i - 1] = h[i - 1] /\ g[i - 1] \in Seq(S)
      BY <2>2, <3>1
    <3>3. g[i - 1] \o s[i] \in Seq(S)
      BY <2>4, <3>2, ConcatProperties
    <3>4. g[i] = g[i - 1] \o s[i] /\ h[i] = h[i - 1] \o t[i]
      BY <1>2, <2>3, <2>6
    <3> QED
      BY <2>3, <2>4, <3>2, <3>3, <3>4
  <2> QED
    BY <2>5, <2>6
<1> QED
  BY <1>3

\* A part more at the end.
LEMMA FlattenAppend ==
  ASSUME NEW S, NEW s \in Seq(Seq(S)), NEW x \in Seq(S)
  PROVE  FlattenSeq(s) \in Seq(S) /\ FlattenSeq(Append(s, x)) = FlattenSeq(s) \o x
<1> DEFINE t == Append(s, x)
<1>1. /\ t \in Seq(Seq(S)) /\ t # <<>> /\ Len(t) = Len(s) + 1 /\ Len(s) \in Nat
      /\ \A i \in 1 .. Len(s) : t[i] = s[i]
      /\ t[Len(s) + 1] = x
  BY AppendProperties
<1> HIDE DEF t
<1>2. PICK h : Flattening(h, t) /\ FlattenSeq(t) = h[Len(t)]
  BY <1>1, FlattenIs
<1>3. \A i \in 1 .. Len(t) : h[i] = IF i = 1 THEN t[i] ELSE h[i - 1] \o t[i]
  BY <1>2 DEF Flattening
<1>4. CASE s = <<>>
  <2>1. FlattenSeq(s) = <<>>
    BY <1>4 DEF FlattenSeq
  <2>2. Len(t) = 1 /\ FlattenSeq(t) = x
    BY <1>1, <1>2, <1>3, <1>4
  <2> QED
    BY <2>1, <2>2, ConcatEmptySeq, EmptySeq DEF t
<1>5. CASE s # <<>>
  <2>1. PICK g : Flattening(g, s) /\ FlattenSeq(s) = g[Len(s)]
    BY <1>5, FlattenIs
  <2>2. \A i \in 1 .. Len(s) : g[i] = h[i] /\ g[i] \in Seq(S)
    <3>1. Len(s) <= Len(t) /\ \A i \in 1 .. Len(s) : s[i] = t[i]
      BY <1>1
    <3>2. Flattening(g, s) /\ Flattening(h, t)
      BY <1>2, <2>1
    <3> QED
      BY <1>1, <3>1, <3>2, FlatteningUnique
  <2>3. Len(s) \in 1 .. Len(s) /\ Len(t) \in 1 .. Len(t) /\ Len(t) # 1 /\ Len(t) - 1 = Len(s)
    BY <1>1, <1>5, EmptySeq
  <2>4. FlattenSeq(s) = h[Len(s)] /\ FlattenSeq(s) \in Seq(S)
    BY <2>1, <2>2, <2>3
  <2>5. h[Len(t)] = h[Len(s)] \o x
    BY <1>1, <1>3, <2>3
  <2> QED
    BY <1>2, <2>4, <2>5 DEF t
<1> QED
  BY <1>4, <1>5

\* A field takes one to eight bytes of a message, and the first of them tells the field.
LEMMA BytesFacts ==
  ASSUME NEW f \in Fields
  PROVE  /\ Width(f.type) \in 1 .. 8
         /\ Bytes(f) \in Seq(AllBytes) /\ Len(Bytes(f)) = Width(f.type)
         /\ Bytes(f) # <<>> /\ Head(Bytes(f)) = <<f, 1>>
<1>1. Width(f.type) \in 1 .. 8
  <2>1. f.type \in FieldTypes
    BY DEF Fields
  <2> QED
    BY <2>1 DEF FieldTypes, Width
<1> DEFINE w == Width(f.type)
<1>2. Bytes(f) = [k \in 1 .. w |-> <<f, k>>]
  BY DEF Bytes
<1> HIDE DEF w
<1>3. w \in 1 .. 8
  BY <1>1 DEF w
<1>4. Bytes(f) \in [1 .. w -> AllBytes]
  BY <1>2, <1>3 DEF AllBytes
<1>5. Bytes(f) \in Seq(AllBytes) /\ Len(Bytes(f)) = w
  BY <1>3, <1>4
<1>6. Bytes(f) # <<>> /\ Head(Bytes(f)) = <<f, 1>>
  BY <1>2, <1>3, <1>5
<1> QED
  BY <1>1, <1>5, <1>6 DEF w

\* A field more adds its bytes.
LEMMA EncodeAppend ==
  ASSUME NEW fs \in Seq(Fields), NEW f \in Fields
  PROVE  /\ Encode(fs) \in Seq(AllBytes)
         /\ Encode(Append(fs, f)) = Encode(fs) \o Bytes(f)
         /\ Encode(<<>>) = <<>>
<1> DEFINE parts(s) == [i \in DOMAIN s |-> Bytes(s[i])]
<1>1. ASSUME NEW s \in Seq(Fields)
      PROVE  /\ parts(s) \in Seq(Seq(AllBytes)) /\ Len(parts(s)) = Len(s)
             /\ \A i \in 1 .. Len(s) : parts(s)[i] = Bytes(s[i])
  <2>1. DOMAIN s = 1 .. Len(s) /\ Len(s) \in Nat
    OBVIOUS
  <2>2. \A i \in 1 .. Len(s) : Bytes(s[i]) \in Seq(AllBytes)
    BY BytesFacts
  <2>3. parts(s) \in [1 .. Len(s) -> Seq(AllBytes)]
    BY <2>1, <2>2
  <2>4. parts(s) \in Seq(Seq(AllBytes))
    BY <2>1, <2>3, SeqDef
  <2> QED
    BY <2>1, <2>4
<1>2. /\ Append(fs, f) \in Seq(Fields) /\ Len(Append(fs, f)) = Len(fs) + 1
      /\ Len(fs) \in Nat
      /\ \A i \in 1 .. Len(fs) : Append(fs, f)[i] = fs[i]
      /\ Append(fs, f)[Len(fs) + 1] = f
  BY AppendProperties
<1>3. Bytes(f) \in Seq(AllBytes)
  BY BytesFacts
<1>4. parts(Append(fs, f)) = Append(parts(fs), Bytes(f))
  <2> DEFINE p == parts(fs)
             q == parts(Append(fs, f))
  <2>1. /\ p \in Seq(Seq(AllBytes)) /\ Len(p) = Len(fs)
        /\ \A i \in 1 .. Len(fs) : p[i] = Bytes(fs[i])
    BY <1>1
  <2>2. /\ q \in Seq(Seq(AllBytes)) /\ Len(q) = Len(fs) + 1
        /\ \A i \in 1 .. Len(fs) + 1 : q[i] = Bytes(Append(fs, f)[i])
    BY <1>1, <1>2
  <2> HIDE DEF p, q
  <2>3. /\ Append(p, Bytes(f)) \in Seq(Seq(AllBytes)) /\ Len(Append(p, Bytes(f))) = Len(fs) + 1
        /\ \A i \in 1 .. Len(fs) : Append(p, Bytes(f))[i] = p[i]
        /\ Append(p, Bytes(f))[Len(fs) + 1] = Bytes(f)
    BY <1>3, <2>1, AppendProperties
  <2>4. \A i \in 1 .. Len(fs) + 1 : i \in 1 .. Len(fs) \/ i = Len(fs) + 1
    BY <1>2
  <2>5. \A i \in 1 .. Len(fs) + 1 : q[i] = Append(p, Bytes(f))[i]
    BY <1>2, <2>1, <2>2, <2>3, <2>4
  <2>6. q = Append(p, Bytes(f))
    BY <2>2, <2>3, <2>5, SeqEqual
  <2> QED
    BY <2>6 DEF p, q
<1>5. parts(fs) \in Seq(Seq(AllBytes))
  BY <1>1
<1>6. Encode(fs) = FlattenSeq(parts(fs)) /\ Encode(Append(fs, f)) = FlattenSeq(parts(Append(fs, f)))
  BY DEF Encode
<1>7. Encode(<<>>) = <<>>
  <2>1. [i \in DOMAIN <<>> |-> Bytes(<<>>[i])] = <<>>
    OBVIOUS
  <2> QED
    BY <2>1 DEF Encode, FlattenSeq
<1> HIDE DEF parts
<1> QED
  BY <1>3, <1>4, <1>5, <1>6, <1>7, FlattenAppend

\* What is encoded in two parts.
LEMMA EncodeConcat ==
  ASSUME NEW a \in Seq(Fields), NEW b \in Seq(Fields)
  PROVE  Encode(a \o b) = Encode(a) \o Encode(b)
<1> DEFINE Bad == {n \in 0 .. Len(b) :
                     Encode(a \o SubSeq(b, 1, n)) # Encode(a) \o Encode(SubSeq(b, 1, n))}
<1>0. Len(b) \in Nat
  OBVIOUS
<1>1. Bad = {}
  <2> SUFFICES ASSUME Bad # {} PROVE FALSE
    OBVIOUS
  <2>1. Bad \in SUBSET Nat
    BY <1>0
  <2>2. PICK n \in Bad : \A j \in Bad : n <= j
    BY <2>1, FirstNumber
  <2>3. n \in 0 .. Len(b) /\ Encode(a \o SubSeq(b, 1, n)) # Encode(a) \o Encode(SubSeq(b, 1, n))
    OBVIOUS
  <2>4. n # 0
    <3>1. SubSeq(b, 1, 0) = <<>>
      OBVIOUS
    <3>2. a \o <<>> = a /\ Encode(a) \o <<>> = Encode(a) /\ Encode(<<>>) = <<>>
      <4>1. Field(0, "int") \in Fields
        BY DEF Field, Fields, FieldTypes, Meanings
      <4>2. Encode(a) \in Seq(AllBytes) /\ Encode(<<>>) = <<>>
        BY <4>1, EncodeAppend
      <4> QED
        BY <4>2, ConcatEmptySeq
    <3> QED
      BY <2>3, <3>1, <3>2
  <2>5. n \in 1 .. Len(b) /\ n - 1 \in 0 .. Len(b) /\ ~(n <= n - 1)
    BY <1>0, <2>3, <2>4
  <2> DEFINE p == SubSeq(b, 1, n - 1)
  <2>6. Encode(a \o p) = Encode(a) \o Encode(p)
    <3>1. n - 1 \notin Bad
      BY <2>2, <2>5
    <3> QED
      BY <2>5, <3>1
  <2>7. SubSeq(b, 1, n) = p \o <<b[n]>> /\ b[n] \in Fields
    BY <2>5, SubSeqRecursiveSecond, ElementOfSeq
  <2>8. p \in Seq(Fields)
    <3>1. \A i \in 1 .. n - 1 : b[i] \in Fields
      BY <1>0, <2>5, ElementOfSeq
    <3> QED
      BY <2>5, <3>1, SubSeqProperties
  <2> HIDE DEF p, Bad
  <2>9. /\ a \o p \in Seq(Fields) /\ <<b[n]>> \in Seq(Fields)
        /\ a \o (p \o <<b[n]>>) = (a \o p) \o <<b[n]>>
    BY <2>7, <2>8, ConcatAssociative, ConcatProperties
  <2>10. /\ p \o <<b[n]>> = Append(p, b[n])
         /\ (a \o p) \o <<b[n]>> = Append(a \o p, b[n])
    BY <2>7, <2>8, <2>9, AppendIsConcat
  <2>11. /\ Encode(Append(p, b[n])) = Encode(p) \o Bytes(b[n])
         /\ Encode(Append(a \o p, b[n])) = Encode(a \o p) \o Bytes(b[n])
    BY <2>7, <2>8, <2>9, EncodeAppend
  <2>12. /\ Encode(a) \in Seq(AllBytes) /\ Encode(p) \in Seq(AllBytes)
         /\ Bytes(b[n]) \in Seq(AllBytes)
    BY <2>7, <2>8, EncodeAppend, BytesFacts
  <2>13. (Encode(a) \o Encode(p)) \o Bytes(b[n]) = Encode(a) \o (Encode(p) \o Bytes(b[n]))
    BY <2>12, ConcatAssociative
  <2>14. Encode(a \o SubSeq(b, 1, n)) = (Encode(a) \o Encode(p)) \o Bytes(b[n])
    BY <2>6, <2>7, <2>9, <2>10, <2>11
  <2>15. Encode(SubSeq(b, 1, n)) = Encode(p) \o Bytes(b[n])
    BY <2>7, <2>10, <2>11
  <2> QED
    BY <2>3, <2>13, <2>14, <2>15
<1>2. Len(b) \in 0 .. Len(b) /\ Len(b) \notin Bad
  BY <1>0, <1>1
<1>3. SubSeq(b, 1, Len(b)) = b
  BY SubSeqFull
<1> QED
  BY <1>2, <1>3

\* The facts that are needed of what is encoded.
LEMMA EncodeFacts ==
  /\ Encode(<<>>) = <<>>
  /\ \A fs \in Seq(Fields) : Encode(fs) \in Seq(AllBytes)
  /\ \A f \in Fields : Encode(<<f>>) = Bytes(f) /\ Len(Encode(<<f>>)) = Width(f.type)
  /\ \A a, b \in Seq(Fields) :
       /\ Encode(a \o b) = Encode(a) \o Encode(b)
       /\ Len(Encode(a \o b)) = Len(Encode(a)) + Len(Encode(b))
<1>1. Field(0, "int") \in Fields /\ <<>> \in Seq(Fields)
  BY DEF Field, Fields, FieldTypes, Meanings
<1>2. Encode(<<>>) = <<>> /\ \A fs \in Seq(Fields) : Encode(fs) \in Seq(AllBytes)
  BY <1>1, EncodeAppend
<1>3. ASSUME NEW f \in Fields PROVE Encode(<<f>>) = Bytes(f)
  <2>1. <<f>> = Append(<<>>, f)
    OBVIOUS
  <2>2. Encode(Append(<<>>, f)) = Encode(<<>>) \o Bytes(f)
    BY <1>1, EncodeAppend
  <2>3. <<>> \o Bytes(f) = Bytes(f)
    BY BytesFacts, ConcatEmptySeq
  <2> QED
    BY <1>2, <2>1, <2>2, <2>3
<1>4. \A a, b \in Seq(Fields) :
       /\ Encode(a \o b) = Encode(a) \o Encode(b)
       /\ Len(Encode(a \o b)) = Len(Encode(a)) + Len(Encode(b))
  BY <1>2, EncodeConcat, ConcatProperties
<1> QED
  BY <1>2, <1>3, <1>4, BytesFacts

\* Reading field by field is defined for every list of types: Read is its last value.
LEMMA ReadingsExist ==
  ASSUME NEW bytes, NEW types, Len(types) \in Nat
  PROVE  \E r : Readings(r, bytes, types) /\ Read(bytes, types) = r[Len(types)]
<1> DEFINE begin == [values |-> <<>>, rest |-> bytes, past |-> FALSE]
           Upto(r, n) == r = [i \in 0 .. n |-> IF i = 0 THEN begin ELSE ReadField(r[i - 1], types[i])]
           Missing == {n \in 0 .. Len(types) : \A r : ~Upto(r, n)}
<1> HIDE DEF begin, Upto
<1>1. Missing = {}
  <2> SUFFICES ASSUME Missing # {} PROVE FALSE
    OBVIOUS
  <2>1. Missing \in SUBSET Nat
    OBVIOUS
  <2>2. PICK n \in Missing : \A j \in Missing : n <= j
    BY <2>1, FirstNumber
  <2>3. n \in 0 .. Len(types) /\ \A r : ~Upto(r, n)
    OBVIOUS
  <2>4. n # 0
    <3>1. Upto([i \in 0 .. 0 |-> begin], 0)
      BY DEF Upto
    <3> QED
      BY <2>3, <3>1
  <2>5. n \in 1 .. Len(types) /\ n - 1 \in 0 .. Len(types) /\ ~(n <= n - 1)
    BY <2>3, <2>4
  <2>6. PICK r : Upto(r, n - 1)
    <3>1. n - 1 \notin Missing
      BY <2>2, <2>5
    <3> QED
      BY <2>5, <3>1
  <2> DEFINE h == [i \in 0 .. n |-> IF i = n THEN ReadField(r[n - 1], types[n]) ELSE r[i]]
  <2>7. \A i \in 0 .. n : h[i] = IF i = n THEN ReadField(r[n - 1], types[n]) ELSE r[i]
    OBVIOUS
  <2>8. \A i \in 0 .. n - 1 : r[i] = IF i = 0 THEN begin ELSE ReadField(r[i - 1], types[i])
    BY <2>6 DEF Upto
  <2>9. h = [i \in 0 .. n |-> h[i]]
    OBVIOUS
  <2> HIDE DEF h, Missing
  <2>10. \A i \in 0 .. n : h[i] = IF i = 0 THEN begin ELSE ReadField(h[i - 1], types[i])
    <3> SUFFICES ASSUME NEW i \in 0 .. n
                 PROVE  h[i] = IF i = 0 THEN begin ELSE ReadField(h[i - 1], types[i])
      OBVIOUS
    <3>1. CASE i = n
      <4>1. i # 0 /\ n - 1 \in 0 .. n /\ n - 1 # n
        BY <2>5, <3>1
      <4> QED
        BY <2>7, <3>1, <4>1
    <3>2. CASE i # n
      <4>1. i \in 0 .. n - 1 /\ (i # 0 => i - 1 \in 0 .. n /\ i - 1 # n)
        BY <2>5, <3>2
      <4> QED
        BY <2>7, <2>8, <3>2, <4>1
    <3> QED
      BY <3>1, <3>2
  <2>11. Upto(h, n)
    BY <2>9, <2>10 DEF Upto
  <2> QED
    BY <2>3, <2>11
<1>2. PICK r : Upto(r, Len(types))
  <2>1. Len(types) \in 0 .. Len(types) /\ Len(types) \notin Missing
    BY <1>1
  <2> QED
    BY <2>1
<1> DEFINE R == CHOOSE g : Readings(g, bytes, types)
<1>3. Readings(R, bytes, types)
  BY <1>2 DEF Readings, Upto, begin
<1>4. Read(bytes, types) = R[Len(types)]
  BY DEF Read, Readings
<1> QED
  BY <1>3, <1>4

\* One field is read.
LEMMA ReadOneField ==
  ASSUME NEW f \in Fields, NEW more \in Seq(AllBytes), NEW values, NEW past,
         f.type = "float" => more = <<>>
  PROVE  ReadField([values |-> values, rest |-> Bytes(f) \o more, past |-> past], f.type)
           = [values |-> Append(values, f.value), rest |-> more, past |-> past \/ FALSE]
<1> DEFINE w == Width(f.type)
           rest == Bytes(f) \o more
           taken == IF ReadWidth(f.type) < Len(rest) THEN ReadWidth(f.type) ELSE Len(rest)
           kept == IF taken < w THEN taken ELSE w
           state == [values |-> values, rest |-> rest, past |-> past]
<1>1. /\ w \in 1 .. 8 /\ Bytes(f) \in Seq(AllBytes) /\ Len(Bytes(f)) = w
      /\ Bytes(f) # <<>> /\ Head(Bytes(f)) = <<f, 1>>
  BY BytesFacts
<1>2. rest \in Seq(AllBytes) /\ Len(rest) = w + Len(more) /\ Len(more) \in Nat
  BY <1>1, ConcatProperties
<1>3. f.type # "float" => ReadWidth(f.type) = w
  BY DEF ReadWidth
<1>4. f.type = "float" => ReadWidth(f.type) = 8 /\ Len(more) = 0
  BY DEF ReadWidth
<1>5. taken = w /\ kept = w
  <2> HIDE DEF w, rest
  <2> QED
    BY <1>1, <1>2, <1>3, <1>4
<1>6. SubSeq(rest, 1, w) = Bytes(f)
  <2>1. 1 \in 1 .. w /\ w \in 1 .. w
    BY <1>1
  <2>2. SubSeq(Bytes(f) \o more, 1, w) = SubSeq(Bytes(f), 1, w)
    BY <1>1, <2>1, SubSeqOfConcat1
  <2> QED
    BY <1>1, <2>2, SubSeqFull
<1>7. SubSeq(rest, w + 1, Len(rest)) = more
  <2> HIDE DEF w
  <2>1. CASE Len(more) = 0
    <3>1. SubSeq(rest, w + 1, Len(rest)) = <<>>
      BY <1>1, <1>2, <2>1, SubSeqEmpty
    <3> QED
      BY <2>1, <3>1, EmptySeq
  <2>2. CASE Len(more) # 0
    <3>1. /\ w + 1 \in w + 1 .. w + Len(more) /\ w + Len(more) \in w + 1 .. w + Len(more)
          /\ w + 1 - w = 1 /\ w + Len(more) - w = Len(more)
      BY <1>1, <1>2, <2>2
    <3>2. SubSeq(Bytes(f) \o more, w + 1, w + Len(more)) = SubSeq(more, 1, Len(more))
      BY <1>1, <3>1, SubSeqOfConcat2
    <3> QED
      BY <1>2, <3>2, SubSeqFull
  <2> QED
    BY <2>1, <2>2
<1>8. Decode(Bytes(f), f.type) = f.value
  BY <1>1 DEF Decode
<1> HIDE DEF w, rest, taken, kept
<1>9. /\ state.values = values /\ state.rest = rest /\ state.past = past
  OBVIOUS
<1>10. ReadField(state, f.type)
         = [values |-> Append(values, Decode(SubSeq(rest, 1, kept), f.type)),
            rest |-> Drop(rest, taken), past |-> past \/ taken > w]
  BY <1>9 DEF ReadField, taken, kept, w
<1>11. ~(taken > w)
  BY <1>1, <1>5
<1>12. Drop(rest, taken) = more
  BY <1>5, <1>7 DEF Drop
<1> QED
  BY <1>5, <1>6, <1>8, <1>10, <1>11, <1>12 DEF rest

\* Fields are understood by a reader that expects their types; what follows them is left.
LEMMA ReadEncoded ==
  ASSUME NEW fs \in Seq(Fields), NEW more \in Seq(AllBytes), FloatsLast(fs, more)
  PROVE  Read(Encode(fs) \o more, Types(fs))
           = [values |-> Meant(fs), rest |-> more, past |-> FALSE]
<1> DEFINE N == Len(fs)
           M == Meant(fs)
           From(n) == SubSeq(fs, n + 1, N)
           State(n) == [values |-> SubSeq(M, 1, n), rest |-> Encode(From(n)) \o more,
                        past |-> FALSE]
<1>1. N \in Nat /\ DOMAIN fs = 1 .. N /\ \A n \in 1 .. N : fs[n] \in Fields
  BY LenProperties, ElementOfSeq
<1>2. /\ Len(Types(fs)) = N /\ \A n \in 1 .. N : Types(fs)[n] = fs[n].type
  BY <1>1 DEF Types
<1>3. M \in Seq(Meanings) /\ Len(M) = N /\ \A n \in 1 .. N : M[n] = fs[n].value
  <2>1. M = [n \in 1 .. N |-> fs[n].value]
    BY <1>1 DEF Meant
  <2>2. \A n \in 1 .. N : fs[n].value \in Meanings
    BY <1>1 DEF Fields
  <2> HIDE DEF M
  <2>3. M \in [1 .. N -> Meanings]
    BY <2>1, <2>2
  <2> QED
    BY <1>1, <2>1, <2>3
<1>4. \A n \in 0 .. N : From(n) \in Seq(Fields)
  <2> SUFFICES ASSUME NEW n \in 0 .. N PROVE From(n) \in Seq(Fields)
    OBVIOUS
  <2>1. \A i \in n + 1 .. N : fs[i] \in Fields
    BY <1>1
  <2> QED
    BY <1>1, <2>1, SubSeqProperties
<1> HIDE DEF N, M, From
<1>5. PICK r : /\ Readings(r, Encode(fs) \o more, Types(fs))
               /\ Read(Encode(fs) \o more, Types(fs)) = r[Len(Types(fs))]
  BY <1>1, <1>2, ReadingsExist
<1>6. /\ r[0] = [values |-> <<>>, rest |-> Encode(fs) \o more, past |-> FALSE]
      /\ \A n \in 1 .. N : r[n] = ReadField(r[n - 1], fs[n].type)
  <2> DEFINE begin == [values |-> <<>>, rest |-> Encode(fs) \o more, past |-> FALSE]
             types == Types(fs)
  <2>1. r = [n \in 0 .. Len(types) |-> IF n = 0 THEN begin ELSE ReadField(r[n - 1], types[n])]
    BY <1>5 DEF Readings
  <2>2. Len(types) = N /\ \A n \in 1 .. N : types[n] = fs[n].type
    BY <1>2
  <2> HIDE DEF begin, types
  <2>3. \A n \in 0 .. N : r[n] = IF n = 0 THEN begin ELSE ReadField(r[n - 1], types[n])
    BY <2>1, <2>2
  <2>4. 0 \in 0 .. N /\ \A n \in 1 .. N : n \in 0 .. N /\ n # 0
    BY <1>1
  <2>5. r[0] = begin
    BY <2>3, <2>4
  <2>6. ASSUME NEW n \in 1 .. N PROVE r[n] = ReadField(r[n - 1], fs[n].type)
    BY <2>2, <2>3, <2>4
  <2> QED
    BY <2>5, <2>6 DEF begin
<1>7. r[0] = State(0)
  <2>1. From(0) = fs
    BY SubSeqFull DEF From, N
  <2>2. SubSeq(M, 1, 0) = <<>>
    BY SubSeqEmpty
  <2> QED
    BY <1>6, <2>1, <2>2
<1>8. ASSUME NEW n \in 1 .. N, r[n - 1] = State(n - 1) PROVE r[n] = State(n)
  <2> DEFINE f == fs[n]
             rest == Encode(From(n)) \o more
  <2>1. f \in Fields /\ From(n) \in Seq(Fields) /\ n - 1 \in 0 .. N
    BY <1>1, <1>4
  <2>2. From(n - 1) = <<f>> \o From(n)
    <3>1. n \in 1 .. Len(fs) /\ Len(fs) \in n .. Len(fs) /\ n - 1 + 1 = n
      BY <1>1 DEF N
    <3>2. SubSeq(fs, n, Len(fs)) = <<fs[n]>> \o SubSeq(fs, n + 1, Len(fs))
      BY <3>1, SubSeqRecursiveFirst
    <3> QED
      BY <3>1, <3>2 DEF From, N
  <2> HIDE DEF f
  <2>3. Encode(From(n - 1)) = Bytes(f) \o Encode(From(n))
    <3>1. <<f>> \in Seq(Fields)
      BY <2>1
    <3>2. Encode(<<f>> \o From(n)) = Encode(<<f>>) \o Encode(From(n))
      BY <2>1, <3>1, EncodeFacts
    <3> QED
      BY <2>1, <2>2, <3>2, EncodeFacts
  <2>4. Encode(From(n)) \in Seq(AllBytes) /\ Bytes(f) \in Seq(AllBytes)
    BY <2>1, EncodeFacts, BytesFacts
  <2>5. /\ (Bytes(f) \o Encode(From(n))) \o more = Bytes(f) \o rest
        /\ rest \in Seq(AllBytes)
    <3> DEFINE b == Bytes(f)
               e == Encode(From(n))
    <3>1. b \in Seq(AllBytes) /\ e \in Seq(AllBytes) /\ more \in Seq(AllBytes)
      BY <2>4
    <3> HIDE DEF b, e
    <3>2. (b \o e) \o more = b \o (e \o more) /\ e \o more \in Seq(AllBytes)
      BY <3>1, ConcatAssociative, ConcatProperties
    <3> QED
      BY <3>2 DEF b, e
  <2>6. f.type = "float" => rest = <<>>
    <3> SUFFICES ASSUME f.type = "float" PROVE rest = <<>>
      OBVIOUS
    <3>1. n = N /\ more = <<>>
      BY <1>1 DEF FloatsLast, f, N
    <3>2. From(n) = <<>>
      BY <1>1, <3>1, SubSeqEmpty DEF From
    <3>3. Encode(From(n)) = <<>>
      BY <3>2, EncodeFacts
    <3> QED
      BY <3>1, <3>3
  <2> HIDE DEF rest
  <2>7. r[n - 1] = [values |-> SubSeq(M, 1, n - 1), rest |-> Bytes(f) \o rest, past |-> FALSE]
    BY <1>8, <2>3, <2>5
  <2>8. r[n] = ReadField(r[n - 1], f.type)
    BY <1>6 DEF f
  <2>9. ReadField([values |-> SubSeq(M, 1, n - 1), rest |-> Bytes(f) \o rest, past |-> FALSE],
                  f.type)
          = [values |-> Append(SubSeq(M, 1, n - 1), f.value), rest |-> rest, past |-> FALSE]
    BY <2>1, <2>5, <2>6, ReadOneField
  <2>10. Append(SubSeq(M, 1, n - 1), f.value) = SubSeq(M, 1, n)
    <3>1. n \in 1 .. Len(M) /\ 1 \in 1 .. Len(M) /\ n \in 1 .. n
      BY <1>1, <1>3
    <3>2. SubSeq(M, 1, n) = SubSeq(M, 1, n - 1) \o <<M[n]>>
      BY <1>3, <3>1, SubSeqRecursiveSecond
    <3>3. M[n] = f.value /\ M[n] \in Meanings
      BY <1>3, <3>1, ElementOfSeq DEF f
    <3>4. SubSeq(M, 1, n - 1) \in Seq(Meanings)
      <4>1. \A i \in 1 .. n - 1 : M[i] \in Meanings
        BY <1>1, <1>3, ElementOfSeq
      <4> QED
        BY <1>1, <4>1, SubSeqProperties
    <3> QED
      BY <3>2, <3>3, <3>4, AppendIsConcat
  <2> QED
    BY <2>7, <2>8, <2>9, <2>10 DEF rest
<1> HIDE DEF State
<1> DEFINE Bad == {n \in 0 .. N : r[n] # State(n)}
<1>9. Bad = {}
  <2> SUFFICES ASSUME Bad # {} PROVE FALSE
    OBVIOUS
  <2>1. Bad \in SUBSET Nat
    BY <1>1
  <2>2. PICK n \in Bad : \A j \in Bad : n <= j
    BY <2>1, FirstNumber
  <2>3. n \in 1 .. N /\ n - 1 \in 0 .. N /\ ~(n <= n - 1)
    BY <1>1, <1>7
  <2>4. n - 1 \notin Bad
    BY <2>2, <2>3
  <2> QED
    BY <1>8, <2>2, <2>3, <2>4
<1>10. r[N] = State(N)
  BY <1>1, <1>9
<1>11. State(N) = [values |-> M, rest |-> more, past |-> FALSE]
  <2>1. From(N) = <<>>
    BY <1>1, SubSeqEmpty DEF From
  <2>2. SubSeq(M, 1, N) = M
    BY <1>3, SubSeqFull
  <2>3. Encode(From(N)) \o more = more
    BY <2>1, EncodeFacts, ConcatEmptySeq
  <2> QED
    BY <2>2, <2>3 DEF State
<1> QED
  BY <1>2, <1>5, <1>10, <1>11 DEF M

\* Bytes that were taken by their number.
LEMMA DropEncoded ==
  ASSUME NEW a \in Seq(AllBytes), NEW b \in Seq(AllBytes)
  PROVE  Drop(a \o b, Len(a)) = b
<1> DEFINE w == Len(a)
<1>1. w \in Nat /\ Len(b) \in Nat /\ Len(a \o b) = w + Len(b)
  BY ConcatProperties
<1>2. CASE Len(b) = 0
  <2>1. SubSeq(a \o b, w + 1, w) = <<>>
    BY <1>1, SubSeqEmpty
  <2>2. b = <<>>
    BY <1>2, EmptySeq
  <2> QED
    BY <1>1, <1>2, <2>1, <2>2 DEF Drop
<1>3. CASE Len(b) # 0
  <2>1. /\ w + 1 \in w + 1 .. w + Len(b) /\ w + Len(b) \in w + 1 .. w + Len(b)
        /\ w + 1 - w = 1 /\ w + Len(b) - w = Len(b)
    BY <1>1, <1>3
  <2>2. SubSeq(a \o b, w + 1, w + Len(b)) = SubSeq(b, 1, Len(b))
    BY <2>1, SubSeqOfConcat2
  <2> QED
    BY <1>1, <2>2, SubSeqFull DEF Drop
<1> QED
  BY <1>2, <1>3

\* A message that is read as it was written is understood.
LEMMA HearEncoded ==
  ASSUME NEW fs \in Seq(Fields), FloatsLast(fs, <<>>)
  PROVE  Hear(Encode(fs), fs) = [expected |-> Meant(fs), values |-> Meant(fs),
                                 left |-> 0, past |-> FALSE]
<1>1. <<>> \in Seq(AllBytes) /\ Encode(fs) \o <<>> = Encode(fs)
  BY EncodeFacts, ConcatEmptySeq
<1>2. Read(Encode(fs), Types(fs)) = [values |-> Meant(fs), rest |-> <<>>, past |-> FALSE]
  BY <1>1, ReadEncoded
<1> QED
  BY <1>2 DEF Hear

-----------------------------------------------------------------------------
(* The layouts *)

\* Two lists of fields, one after the other.
LEMMA SizedConcat ==
  ASSUME NEW m \in Nat, NEW n \in Nat, NEW k \in Nat, k = m + n,
         NEW a, NEW b, Sized(a, m), Sized(b, n)
  PROVE  Sized(a \o b, k)
<1>1. /\ a \in Seq(Fields) /\ b \in Seq(Fields)
      /\ \A i \in 1 .. Len(a) : a[i].type # "float"
      /\ \A i \in 1 .. Len(b) : b[i].type # "float"
      /\ Len(Encode(a)) = m /\ Len(Encode(b)) = n
  BY DEF Sized
<1>2. a \o b \in Seq(Fields) /\ Len(Encode(a \o b)) = m + n
  BY <1>1, ConcatProperties, EncodeFacts
<1>3. ASSUME NEW i \in 1 .. Len(a \o b) PROVE (a \o b)[i].type # "float"
  <2>1. /\ Len(a \o b) = Len(a) + Len(b) /\ Len(a) \in Nat /\ Len(b) \in Nat
        /\ \A j \in 1 .. Len(a) + Len(b) :
             (a \o b)[j] = IF j <= Len(a) THEN a[j] ELSE b[j - Len(a)]
    BY <1>1, ConcatProperties
  <2>2. CASE i <= Len(a)
    <3>1. i \in 1 .. Len(a) /\ (a \o b)[i] = a[i]
      BY <2>1, <2>2
    <3> QED
      BY <1>1, <3>1
  <2>3. CASE ~(i <= Len(a))
    <3>1. i - Len(a) \in 1 .. Len(b) /\ (a \o b)[i] = b[i - Len(a)]
      BY <2>1, <2>3
    <3> QED
      BY <1>1, <3>1
  <2> QED
    BY <2>2, <2>3
<1> QED
  BY <1>2, <1>3 DEF Sized

\* Single fields, vectors and strings.
LEMMA SizedFields ==
  /\ \A value \in Meanings, type \in FieldTypes \ {"float"} :
       Sized(<<Field(value, type)>>, Width(type))
  /\ \A value \in Meanings :
       /\ Sized(DoubleOf(value), 8) /\ Sized(ShortOf(value), 2) /\ Sized(IntOf(value), 4)
       /\ Sized(Vector3(value), 24)
       /\ Sized(<<Field(value, "char")>>, 1)
  /\ Sized(<<>>, 0)
<1>1. ASSUME NEW value \in Meanings, NEW type \in FieldTypes \ {"float"}
      PROVE  Sized(<<Field(value, type)>>, Width(type))
  <2>1. Field(value, type) \in Fields /\ Field(value, type).type = type
    BY DEF Fields, Field
  <2>2. Len(Encode(<<Field(value, type)>>)) = Width(type)
    BY <2>1, EncodeFacts
  <2>3. <<Field(value, type)>> \in Seq(Fields)
    BY <2>1
  <2>4. \A n \in 1 .. Len(<<Field(value, type)>>) : <<Field(value, type)>>[n].type # "float"
    BY <2>1
  <2> QED
    BY <2>2, <2>3, <2>4 DEF Sized
<1>2. /\ Width("double") = 8 /\ Width("short") = 2 /\ Width("int") = 4 /\ Width("char") = 1
      /\ {"double", "short", "int", "char"} \subseteq FieldTypes \ {"float"}
  BY DEF Width, FieldTypes
<1>3. ASSUME NEW value \in Meanings
      PROVE  /\ Sized(DoubleOf(value), 8) /\ Sized(ShortOf(value), 2) /\ Sized(IntOf(value), 4)
             /\ Sized(<<Field(value, "char")>>, 1)
  BY <1>1, <1>2 DEF DoubleOf, ShortOf, IntOf
<1>4. ASSUME NEW value \in Meanings PROVE Sized(Vector3(value), 24)
  <2> DEFINE d == Field(value, "double")
  <2>1. Sized(<<d>>, 8)
    BY <1>3 DEF DoubleOf
  <2>2. Sized(<<d>> \o <<d>>, 16)
    BY <2>1, SizedConcat
  <2>3. Sized(<<d>> \o <<d>> \o <<d>>, 24)
    BY <2>1, <2>2, SizedConcat
  <2>4. <<d>> \o <<d>> \o <<d>> = Vector3(value)
    BY DEF Vector3
  <2> QED
    BY <2>3, <2>4
<1>5. Sized(<<>>, 0)
  BY EncodeFacts, EmptySeq DEF Sized
<1> QED
  BY <1>1, <1>3, <1>4, <1>5

\* A string has a byte for each letter.
LEMMA SizedLetters ==
  ASSUME NEW n \in Nat
  PROVE  Sized(Letters(n), n)
<1> DEFINE Bad == {k \in 0 .. n : ~Sized(Letters(k), k)}
<1>1. Bad = {}
  <2> SUFFICES ASSUME Bad # {} PROVE FALSE
    OBVIOUS
  <2>1. Bad \in SUBSET Nat
    OBVIOUS
  <2>2. PICK k \in Bad : \A j \in Bad : k <= j
    BY <2>1, FirstNumber
  <2>3. k \in 0 .. n /\ ~Sized(Letters(k), k)
    OBVIOUS
  <2>4. k # 0
    <3>1. Letters(0) = <<>>
      BY DEF Letters
    <3> QED
      BY <2>3, <3>1, SizedFields
  <2>5. k - 1 \in 0 .. n /\ ~(k <= k - 1) /\ k \in Nat /\ k - 1 \in Nat /\ k - 1 + 1 = k
    BY <2>3, <2>4
  <2>6. Sized(Letters(k - 1), k - 1)
    <3>1. k - 1 \notin Bad
      BY <2>2, <2>5
    <3> QED
      BY <2>5, <3>1
  <2>7. Sized(<<Field("letter", "char")>>, 1)
    <3>1. "letter" \in Meanings
      BY DEF Meanings, Names
    <3> QED
      BY <3>1, SizedFields
  <2>8. Sized(Letters(k - 1) \o <<Field("letter", "char")>>, k)
    BY <2>5, <2>6, <2>7, SizedConcat
  <2>9. Letters(k - 1) \o <<Field("letter", "char")>> = Letters(k)
    <3> DEFINE e == Field("letter", "char")
               s == Letters(k - 1)
    <3>1. e \in Fields
      BY DEF Field, Fields, FieldTypes, Meanings, Names
    <3>2. /\ s \in Seq(Fields) /\ Len(s) = k - 1 /\ \A i \in 1 .. k - 1 : s[i] = e
      BY <2>5, <2>6 DEF Letters, Sized
    <3>3. /\ Letters(k) \in [1 .. k -> Fields] /\ \A i \in 1 .. k : Letters(k)[i] = e
      BY <3>1 DEF Letters
    <3> HIDE DEF e, s
    <3>4. Letters(k) \in Seq(Fields) /\ Len(Letters(k)) = k
      BY <2>5, <3>3
    <3>5. /\ Append(s, e) \in Seq(Fields) /\ Len(Append(s, e)) = k
          /\ \A i \in 1 .. k - 1 : Append(s, e)[i] = s[i]
          /\ Append(s, e)[k] = e
      BY <2>5, <3>1, <3>2, AppendProperties
    <3>6. \A i \in 1 .. k : i \in 1 .. k - 1 \/ i = k
      BY <2>5
    <3>7. \A i \in 1 .. k : Append(s, e)[i] = Letters(k)[i]
      BY <3>2, <3>3, <3>5, <3>6
    <3>8. Append(s, e) = Letters(k)
      BY <3>4, <3>5, <3>7, SeqEqual
    <3> QED
      BY <3>1, <3>2, <3>8, AppendIsConcat DEF e, s
  <2> QED
    BY <2>3, <2>8, <2>9
<1>2. n \in 0 .. n /\ n \notin Bad
  BY <1>1
<1> QED
  BY <1>2

\* The data of a sphere.
LEMMA SphereDataFacts ==
  /\ Sized(WriteBasicSphereData, 32) /\ ReadBasicSphereData = WriteBasicSphereData
  /\ Sized(WriteAllSphereData, 88) /\ ReadAllSphereData = WriteAllSphereData
<1>1. /\ Sized(DoubleOf("radius"), 8) /\ Sized(DoubleOf("mass"), 8)
      /\ Sized(Vector3("pos"), 24) /\ Sized(Vector3("speed"), 24) /\ Sized(Vector3("acc"), 24)
  <2>1. {"radius", "mass", "pos", "speed", "acc"} \subseteq Meanings
    BY DEF Meanings, Names
  <2> QED
    BY <2>1, SizedFields
<1>2. Sized(WriteBasicSphereData, 32)
  BY <1>1, SizedConcat DEF WriteBasicSphereData
<1> DEFINE s2 == DoubleOf("radius") \o DoubleOf("mass")
           s3 == s2 \o Vector3("pos")
           s4 == s3 \o Vector3("speed")
           s5 == s4 \o Vector3("acc")
<1>3. Sized(s2, 16)
  BY <1>1, SizedConcat
<1> HIDE DEF s2
<1>4. Sized(s3, 40)
  BY <1>1, <1>3, SizedConcat
<1> HIDE DEF s3
<1>5. Sized(s4, 64)
  BY <1>1, <1>4, SizedConcat
<1> HIDE DEF s4
<1>6. Sized(s5, 88)
  BY <1>1, <1>5, SizedConcat
<1>7. s5 = WriteAllSphereData
  BY DEF s2, s3, s4, WriteAllSphereData
<1> HIDE DEF s5
<1>8. ReadBasicSphereData = WriteBasicSphereData /\ ReadAllSphereData = WriteAllSphereData
  BY DEF ReadBasicSphereData, WriteBasicSphereData, ReadAllSphereData, WriteAllSphereData
<1> QED
  BY <1>2, <1>6, <1>7, <1>8

\* The data of spheres, of any action's request and of any reply: as they are read,
\* and short.
LEMMA RequestFacts ==
  ASSUME NEW action \in Actions
  PROVE  /\ \E size \in 0 .. 90 : Sized(RequestFields(action), size)
         /\ HandlerFields(action) = RequestFields(action)
<1>1. /\ Sized(DoubleOf("radius"), 8) /\ Sized(DoubleOf("factor"), 8)
      /\ Sized(DoubleOf("randomDisplacement"), 8) /\ Sized(DoubleOf("randomSpeed"), 8)
      /\ Sized(ShortOf("i"), 2) /\ Sized(ShortOf("sphCount"), 2)
      /\ Sized(IntOf("steps"), 4) /\ Sized(<<>>, 0)
  <2>1. {"radius", "factor", "randomDisplacement", "randomSpeed", "i", "sphCount", "steps"}
          \subseteq Meanings
    BY DEF Meanings, Names
  <2> QED
    BY <2>1, SizedFields
<1>2. Sized(WriteAllSphereData, 88)
  BY SphereDataFacts
<1>3. Sized(ShortOf("i") \o WriteAllSphereData, 90)
  BY <1>1, <1>2, SizedConcat
<1>4. Sized(DoubleOf("randomDisplacement") \o DoubleOf("randomSpeed"), 16)
  BY <1>1, SizedConcat
<1>5. \E size \in 0 .. 90 : Sized(RequestFields(action), size)
  <2> DEFINE fs == RequestFields(action)
  <2>1. \/ fs = ShortOf("i") \o WriteAllSphereData \/ fs = ShortOf("i")
        \/ fs = ShortOf("sphCount")
        \/ fs = DoubleOf("randomDisplacement") \o DoubleOf("randomSpeed")
        \/ fs = WriteAllSphereData \/ fs = DoubleOf("factor")
        \/ fs = IntOf("steps") \/ fs = <<>>
    BY DEF RequestFields
  <2> HIDE DEF fs
  <2> SUFFICES \E size \in 0 .. 90 : Sized(fs, size)
    BY DEF fs
  <2>2. CASE fs = ShortOf("i") \o WriteAllSphereData \/ fs = WriteAllSphereData
    <3>1. Sized(fs, 90) \/ Sized(fs, 88)
      BY <1>2, <1>3, <2>2
    <3>2. 90 \in 0 .. 90 /\ 88 \in 0 .. 90
      OBVIOUS
    <3> QED
      BY <3>1, <3>2
  <2>3. CASE fs = DoubleOf("randomDisplacement") \o DoubleOf("randomSpeed")
    <3>1. Sized(fs, 16)
      BY <1>4, <2>3
    <3> QED
      BY <3>1
  <2>4. CASE fs \in {ShortOf("i"), ShortOf("sphCount"), DoubleOf("factor"), IntOf("steps"), <<>>}
    <3>1. Sized(fs, 2) \/ Sized(fs, 8) \/ Sized(fs, 4) \/ Sized(fs, 0)
      BY <1>1, <2>4
    <3>2. 2 \in 0 .. 90 /\ 8 \in 0 .. 90 /\ 4 \in 0 .. 90 /\ 0 \in 0 .. 90
      OBVIOUS
    <3> QED
      BY <3>1, <3>2
  <2> QED
    BY <2>1, <2>2, <2>3, <2>4
<1>6. HandlerFields(action) = RequestFields(action)
  BY DEF HandlerFields, RequestFields, ReadAllSphereData, WriteAllSphereData
<1> QED
  BY <1>5, <1>6

\* What a client expects in the answer to a request is what the server writes into its reply.
LEMMA ReplyFacts ==
  ASSUME NEW action \in ReplyActions
  PROVE  /\ \E size \in 0 .. 90 : Sized(ReplyFields(action), size)
         /\ AnswerFields(action) = ReplyFields(action)
<1>1. Sized(ShortOf("sphereCount"), 2) /\ Sized(IntOf(action), 4) /\ Sized(DoubleOf(action), 8)
  <2>1. "sphereCount" \in Meanings /\ action \in Meanings
    BY DEF Meanings, Names, Actions
  <2> QED
    BY <2>1, SizedFields
<1>2. Sized(WriteBasicSphereData, 32)
  BY SphereDataFacts
<1>3. Sized(WriteAllSphereData, 88)
  BY SphereDataFacts
<1>5. \E size \in 0 .. 90 : Sized(ReplyFields(action), size)
  <2>1. CASE action \in CountActions
    <3>1. ReplyFields(action) = ShortOf("sphereCount")
      BY <2>1 DEF ReplyFields, CountActions, CounterActions, EnergyActions
    <3> QED
      BY <1>1, <3>1
  <2>2. CASE action \in CounterActions
    <3>1. ReplyFields(action) = IntOf(action)
      BY <2>2 DEF ReplyFields, CountActions, CounterActions, EnergyActions
    <3> QED
      BY <1>1, <3>1
  <2>3. CASE action \in EnergyActions
    <3>1. ReplyFields(action) = DoubleOf(action)
      BY <2>3 DEF ReplyFields, CountActions, CounterActions, EnergyActions
    <3> QED
      BY <1>1, <3>1
  <2>4. CASE action = "getBasicSphereData"
    <3>1. ReplyFields(action) = WriteBasicSphereData
      BY <2>4 DEF ReplyFields, CountActions, CounterActions, EnergyActions
    <3> QED
      BY <1>2, <3>1
  <2>5. CASE action = "getAllSphereData"
    <3>1. ReplyFields(action) = WriteAllSphereData
      BY <2>5 DEF ReplyFields, CountActions, CounterActions, EnergyActions
    <3> QED
      BY <1>3, <3>1
  <2> QED
    BY <2>1, <2>2, <2>3, <2>4, <2>5 DEF ReplyActions
<1>6. AnswerFields(action) = ReplyFields(action)
  BY DEF AnswerFields, ReplyFields, ReadAllSphereData, WriteAllSphereData,
         ReadBasicSphereData, WriteBasicSphereData
<1> QED
  BY <1>5, <1>6

\* Short lists of fields.
LEMMA TwoFields ==
  ASSUME NEW a \in Fields, NEW b \in Fields
  PROVE  /\ <<a>> \o <<b>> = <<a, b>>
         /\ \A c \in Fields : <<a>> \o <<b>> \o <<c>> = <<a, b, c>>
<1>1. <<a>> \in Seq(Fields) /\ <<a, b>> \in Seq(Fields)
  OBVIOUS
<1>0. ASSUME NEW s \in Seq(Fields), NEW e \in Fields
      PROVE  /\ Append(s, e) \in Seq(Fields) /\ Len(Append(s, e)) = Len(s) + 1
             /\ \A i \in 1 .. Len(s) : Append(s, e)[i] = s[i]
             /\ Append(s, e)[Len(s) + 1] = e
  BY AppendProperties
<1>2. <<a>> \o <<b>> = <<a, b>>
  <2>1. Append(<<a>>, b) = <<a>> \o <<b>>
    BY <1>1, AppendIsConcat
  <2>2. Append(<<a>>, b) = <<a, b>>
    <3> DEFINE s == <<a>>
               t == <<a, b>>
    <3>1. s \in Seq(Fields) /\ Len(s) = 1 /\ s[1] = a
      OBVIOUS
    <3>2. t \in Seq(Fields) /\ Len(t) = 2 /\ t[1] = a /\ t[2] = b
      OBVIOUS
    <3> HIDE DEF s, t
    <3>3. /\ Append(s, b) \in Seq(Fields) /\ Len(Append(s, b)) = Len(s) + 1
          /\ \A i \in 1 .. Len(s) : Append(s, b)[i] = s[i]
          /\ Append(s, b)[Len(s) + 1] = b
      BY <1>0, <3>1
    <3>4. Len(Append(s, b)) = 2 /\ \A i \in 1 .. 2 : Append(s, b)[i] = t[i]
      BY <3>1, <3>2, <3>3
    <3>5. Append(s, b) = t
      BY <3>2, <3>3, <3>4, SeqEqual
    <3> QED
      BY <3>5 DEF s, t
  <2> QED
    BY <2>1, <2>2
<1>3. ASSUME NEW c \in Fields PROVE <<a, b>> \o <<c>> = <<a, b, c>>
  <2>1. Append(<<a, b>>, c) = <<a, b>> \o <<c>>
    BY <1>1, AppendIsConcat
  <2>2. Append(<<a, b>>, c) = <<a, b, c>>
    <3> DEFINE s == <<a, b>>
               t == <<a, b, c>>
    <3>1. s \in Seq(Fields) /\ Len(s) = 2 /\ s[1] = a /\ s[2] = b
      OBVIOUS
    <3>2. t \in Seq(Fields) /\ Len(t) = 3 /\ t[1] = a /\ t[2] = b /\ t[3] = c
      OBVIOUS
    <3> HIDE DEF s, t
    <3>3. /\ Append(s, c) \in Seq(Fields) /\ Len(Append(s, c)) = Len(s) + 1
          /\ \A i \in 1 .. Len(s) : Append(s, c)[i] = s[i]
          /\ Append(s, c)[Len(s) + 1] = c
      BY <1>0, <3>1
    <3>4. Len(Append(s, c)) = 3 /\ \A i \in 1 .. 3 : Append(s, c)[i] = t[i]
      BY <3>1, <3>2, <3>3
    <3>5. Append(s, c) = t
      BY <3>2, <3>3, <3>4, SeqEqual
    <3> QED
      BY <3>5 DEF s, t
  <2> QED
    BY <2>1, <2>2
<1> QED
  BY <1>2, <1>3

-----------------------------------------------------------------------------
(* Whole messages *)

\* What has no float is read wherever it stands.
LEMMA SizedReads ==
  ASSUME NEW size \in Nat, NEW fs, Sized(fs, size), NEW more \in Seq(AllBytes)
  PROVE  /\ Read(Encode(fs) \o more, Types(fs))
              = [values |-> Meant(fs), rest |-> more, past |-> FALSE]
         /\ Drop(Encode(fs) \o more, size) = more
         /\ Encode(fs) \in Seq(AllBytes) /\ Len(Encode(fs)) = size
         /\ Len(Encode(fs) \o more) = size + Len(more) /\ Encode(fs) \o more \in Seq(AllBytes)
         /\ Hear(Encode(fs), fs) = [expected |-> Meant(fs), values |-> Meant(fs),
                                    left |-> 0, past |-> FALSE]
<1>1. fs \in Seq(Fields) /\ FloatsLast(fs, more) /\ FloatsLast(fs, <<>>) /\ Len(Encode(fs)) = size
  BY DEF Sized, FloatsLast
<1>2. Encode(fs) \in Seq(AllBytes)
  BY <1>1, EncodeFacts
<1>3. Read(Encode(fs) \o more, Types(fs))
              = [values |-> Meant(fs), rest |-> more, past |-> FALSE]
  BY <1>1, ReadEncoded
<1>4. Drop(Encode(fs) \o more, size) = more
  BY <1>1, <1>2, DropEncoded
<1>5. Hear(Encode(fs), fs) = [expected |-> Meant(fs), values |-> Meant(fs),
                                    left |-> 0, past |-> FALSE]
  BY <1>1, HearEncoded
<1> QED
  BY <1>1, <1>2, <1>3, <1>4, <1>5, ConcatProperties

\* The server cuts off the IDs and reads group and action.
LEMMA RequestHeader ==
  ASSUME NEW action \in Actions \union {"updateVariable"}, NEW fs \in Seq(Fields)
  PROVE  LET m == Request(action, fs)
         IN  /\ m \in Seq(AllBytes) /\ Len(m) = 10 + Len(Encode(fs))
             /\ Read(Drop(m, 8), <<"char", "char">>).values[2] = action
             /\ Drop(Drop(m, 8), 2) = Encode(fs)
<1> DEFINE ids == IntOf("clientID") \o IntOf("clientID")
           g == Field(GroupOf(action), "char")
           a == Field(action, "char")
<1>1. GroupOf(action) \in {"basic", "spheresUpdating", "calculation", "information"}
  BY DEF GroupOf, Actions, ReplyActions, StepActions, UpdateActions
<1>2. {"clientID", GroupOf(action), action} \subseteq Meanings
  BY <1>1 DEF Meanings, Names
<1>3. /\ Sized(IntOf("clientID"), 4)
      /\ Sized(<<g>>, 1) /\ Sized(<<a>>, 1) /\ g \in Fields /\ a \in Fields
  <2>1. g \in Fields /\ a \in Fields
    BY <1>2 DEF Fields, Field, FieldTypes
  <2> QED
    BY <1>2, <2>1, SizedFields
<1>4. Sized(ids, 8)
  BY <1>3, SizedConcat
<1>5. Sized(<<g>> \o <<a>>, 2)
  BY <1>3, SizedConcat
<1>6. <<g>> \o <<a>> = <<g, a>>
  BY <1>3, TwoFields
<1>7. Types(<<g, a>>) = <<"char", "char">> /\ Meant(<<g, a>>)[2] = action
  BY DEF Types, Meant, Field
<1>8. Request(action, fs) = Encode(ids \o <<g, a>> \o fs)
  BY DEF Request
<1> HIDE DEF ids, g, a
<1>9. Sized(<<g, a>>, 2) /\ <<g, a>> \in Seq(Fields) /\ ids \in Seq(Fields)
  BY <1>4, <1>5, <1>6 DEF Sized
<1>10. ids \o <<g, a>> \o fs = ids \o (<<g, a>> \o fs) /\ <<g, a>> \o fs \in Seq(Fields)
  BY <1>9, ConcatAssociative, ConcatProperties
<1>11. Request(action, fs) = Encode(ids) \o (Encode(<<g, a>>) \o Encode(fs))
  BY <1>8, <1>9, <1>10, EncodeFacts
<1> DEFINE data == Encode(fs)
           rest == Encode(<<g, a>>) \o data
<1>12. data \in Seq(AllBytes)
  BY EncodeFacts
<1> HIDE DEF data
<1>13. /\ Read(rest, <<"char", "char">>) = [values |-> Meant(<<g, a>>), rest |-> data, past |-> FALSE]
       /\ Drop(rest, 2) = data /\ rest \in Seq(AllBytes) /\ Len(rest) = 2 + Len(data)
  BY <1>7, <1>9, <1>12, SizedReads
<1> HIDE DEF rest
<1>14. /\ Drop(Encode(ids) \o rest, 8) = rest
       /\ Encode(ids) \o rest \in Seq(AllBytes) /\ Len(Encode(ids) \o rest) = 8 + Len(rest)
  BY <1>4, <1>13, SizedReads
<1>15. Len(data) \in Nat /\ 8 + (2 + Len(data)) = 10 + Len(data)
  BY <1>12, LenProperties
<1>16. Request(action, fs) = Encode(ids) \o rest
  BY <1>11 DEF rest, data
<1>17. Read(rest, <<"char", "char">>).values[2] = action
  BY <1>7, <1>13
<1> QED
  BY <1>13, <1>14, <1>15, <1>16, <1>17 DEF data

\* The client reads the IDs and the status, or cuts them off.
LEMMA ReplyHeader ==
  ASSUME NEW status \in {"sendFrame", "sendVariable", "acknowledge"}, NEW fs \in Seq(Fields)
  PROVE  LET m == Reply(status, fs)
             header == Read(m, <<"int", "int", "short">>)
         IN  /\ m \in Seq(AllBytes) /\ Len(m) = 10 + Len(Encode(fs))
             /\ header.values[3] = status /\ header.rest = Encode(fs)
             /\ Drop(m, 10) = Encode(fs)
<1> DEFINE c == Field("clientID", "int")
           s == Field("serverID", "int")
           t == Field(status, "short")
           head == IntOf("clientID") \o IntOf("serverID") \o ShortOf(status)
<1>1. {"clientID", "serverID", status} \subseteq Meanings
  BY DEF Meanings, Names
<1>2. Sized(IntOf("clientID"), 4) /\ Sized(IntOf("serverID"), 4) /\ Sized(ShortOf(status), 2)
  BY <1>1, SizedFields
<1>3. Sized(IntOf("clientID") \o IntOf("serverID"), 8)
  BY <1>2, SizedConcat
<1>4. Sized(head, 10)
  BY <1>2, <1>3, SizedConcat
<1>5. head = <<c, s, t>>
  <2>1. c \in Fields /\ s \in Fields /\ t \in Fields
    BY <1>1 DEF Field, Fields, FieldTypes
  <2> HIDE DEF c, s, t
  <2>2. head = <<c>> \o <<s>> \o <<t>>
    BY DEF IntOf, ShortOf, c, s, t
  <2> HIDE DEF head
  <2> QED
    BY <2>1, <2>2, TwoFields
<1>6. Types(<<c, s, t>>) = <<"int", "int", "short">> /\ Meant(<<c, s, t>>)[3] = status
  BY DEF Types, Meant, Field
<1>7. Types(head) = <<"int", "int", "short">> /\ Meant(head)[3] = status
  BY <1>5, <1>6
<1>8. Reply(status, fs) = Encode(head \o fs)
  BY DEF Reply
<1> HIDE DEF head
<1>9. head \in Seq(Fields)
  BY <1>4 DEF Sized
<1> DEFINE data == Encode(fs)
<1>10. Reply(status, fs) = Encode(head) \o data /\ data \in Seq(AllBytes)
  BY <1>8, <1>9, EncodeFacts
<1> HIDE DEF data
<1>11. /\ Read(Encode(head) \o data, <<"int", "int", "short">>)
            = [values |-> Meant(head), rest |-> data, past |-> FALSE]
       /\ Drop(Encode(head) \o data, 10) = data
       /\ Encode(head) \o data \in Seq(AllBytes)
       /\ Len(Encode(head) \o data) = 10 + Len(data)
  <2>1. /\ Read(Encode(head) \o data, Types(head))
             = [values |-> Meant(head), rest |-> data, past |-> FALSE]
        /\ Drop(Encode(head) \o data, 10) = data
        /\ Encode(head) \o data \in Seq(AllBytes)
        /\ Len(Encode(head) \o data) = 10 + Len(data)
    BY <1>4, <1>10, SizedReads
  <2> QED
    BY <1>7, <2>1
<1> QED
  BY <1>7, <1>10, <1>11 DEF data

\* A frame message, behind its header.
LEMMA FrameFacts == Sized(FrameFields, 38)
<1>1. Sized(IntOf("frameCounter"), 4) /\ Sized(ShortOf("index"), 2)
  <2>1. {"frameCounter", "index"} \subseteq Meanings
    BY DEF Meanings, Names
  <2> QED
    BY <2>1, SizedFields
<1>2. Sized(IntOf("frameCounter") \o ShortOf("index"), 6)
  BY <1>1, SizedConcat
<1>3. Sized(WriteBasicSphereData, 32)
  BY SphereDataFacts
<1> QED
  BY <1>2, <1>3, SizedConcat DEF FrameFields

\* The value of a variable, as its reader takes it from a message.
LEMMA ValueFacts ==
  ASSUME NEW type \in VariableTypes, NEW value \in Nat
  PROVE  LET fs == ValueFields(type, value)
             result == ReadValue(Encode(fs), type)
         IN  /\ fs \in Seq(Fields)
             /\ Len(Encode(fs)) <= 24 \/ Len(Encode(fs)) = 2 + value
             /\ ValueOf(result, type) = value
             /\ result.rest = <<>> /\ result.past = FALSE
<1> DEFINE fs == ValueFields(type, value)
           result == ReadValue(Encode(fs), type)
<1>1. value \in Meanings
  BY DEF Meanings
<1>2. CASE type = "string"
  <2>1. fs = ShortOf(value) \o Letters(value)
    BY <1>2 DEF ValueFields, Letters
  <2>2. Sized(ShortOf(value), 2) /\ Sized(Letters(value), value)
    BY <1>1, SizedFields, SizedLetters
  <2>3. ShortOf(value) \in Seq(Fields) /\ Letters(value) \in Seq(Fields)
    BY <2>2 DEF Sized
  <2> DEFINE more == Encode(Letters(value))
  <2>4. /\ Encode(fs) = Encode(ShortOf(value)) \o more
        /\ more \in Seq(AllBytes) /\ fs \in Seq(Fields)
    BY <2>1, <2>3, EncodeFacts, ConcatProperties
  <2>5. Len(more) = value
    BY <2>2 DEF Sized
  <2>6. Types(ShortOf(value)) = <<"short">> /\ Meant(ShortOf(value)) = <<value>>
    BY DEF Types, Meant, ShortOf, Field
  <2>7. Read(Encode(fs), <<"short">>) = [values |-> <<value>>, rest |-> more, past |-> FALSE]
    <3>1. Read(Encode(ShortOf(value)) \o more, Types(ShortOf(value)))
            = [values |-> Meant(ShortOf(value)), rest |-> more, past |-> FALSE]
      BY <2>2, <2>4, SizedReads
    <3> QED
      BY <2>4, <2>6, <3>1
  <2>8. Len(Encode(fs)) = 2 + value
    <3>1. Len(Encode(ShortOf(value)) \o more) = 2 + Len(more)
      BY <2>2, <2>4, SizedReads
    <3> QED
      BY <2>4, <2>5, <3>1
  <2>9. Types(Letters(value)) = [i \in 1 .. value |-> "char"]
    BY DEF Types, Letters, Field
  <2>10. Read(more, Types(Letters(value)))
           = [values |-> Meant(Letters(value)), rest |-> <<>>, past |-> FALSE]
    <3>1. Read(more \o <<>>, Types(Letters(value)))
           = [values |-> Meant(Letters(value)), rest |-> <<>>, past |-> FALSE]
      BY <2>2, EmptySeq, SizedReads
    <3>2. more \o <<>> = more
      BY <2>4, ConcatEmptySeq
    <3> QED
      BY <3>1, <3>2
  <2>11. Len(Meant(Letters(value))) = value
    BY DEF Meant, Letters
  <2> HIDE DEF fs, more
  <2>12. ReadValue(Encode(fs), type)
           = [values |-> Meant(Letters(value)), rest |-> <<>>, past |-> FALSE]
    <3> DEFINE size == Read(Encode(fs), <<"short">>)
    <3>1. size.values[1] = value /\ size.rest = more
      BY <2>7
    <3>2. ReadValue(Encode(fs), type)
            = Read(size.rest, [i \in 1 .. size.values[1] |-> "char"])
      BY <1>2 DEF ReadValue
    <3> HIDE DEF size
    <3> QED
      BY <2>9, <2>10, <3>1, <3>2
  <2>13. ValueOf(ReadValue(Encode(fs), type), type) = value
    BY <1>2, <2>11, <2>12 DEF ValueOf
  <2> QED
    BY <2>4, <2>8, <2>12, <2>13 DEF fs
<1>3. CASE type # "string"
  <2>1. fs = IF type = "Vector3" THEN Vector3(value) ELSE <<Field(value, type)>>
    BY <1>3 DEF ValueFields
  <2>2. /\ fs \in Seq(Fields) /\ FloatsLast(fs, <<>>) /\ Len(Encode(fs)) <= 24
    <3>1. CASE type = "Vector3"
      <4>1. Sized(fs, 24)
        BY <1>1, <2>1, <3>1, SizedFields
      <4> QED
        BY <4>1 DEF Sized, FloatsLast
    <3>2. CASE type # "Vector3"
      <4>1. type \in FieldTypes /\ Field(value, type) \in Fields
        BY <1>1, <1>3, <3>2 DEF VariableTypes, FieldTypes, Field, Fields
      <4>2. fs = <<Field(value, type)>>
        BY <2>1, <3>2
      <4>3. Len(Encode(fs)) = Width(Field(value, type).type)
        BY <4>1, <4>2, EncodeFacts
      <4>4. Width(Field(value, type).type) \in 1 .. 8
        BY <4>1, BytesFacts
      <4>5. fs \in Seq(Fields) /\ Len(fs) = 1
        BY <4>1, <4>2
      <4> QED
        BY <4>3, <4>4, <4>5 DEF FloatsLast
    <3> QED
      BY <3>1, <3>2
  <2>3. Types(ValueFields(type, 0)) = Types(fs) /\ Meant(fs)[1] = value
    BY <1>3 DEF ValueFields, Types, Meant, Vector3, Field
  <2>4. Read(Encode(fs), Types(fs)) = [values |-> Meant(fs), rest |-> <<>>, past |-> FALSE]
    <3>1. Read(Encode(fs) \o <<>>, Types(fs))
            = [values |-> Meant(fs), rest |-> <<>>, past |-> FALSE]
      BY <2>2, EmptySeq, ReadEncoded
    <3>2. Encode(fs) \in Seq(AllBytes)
      BY <2>2, EncodeFacts
    <3>3. Encode(fs) \o <<>> = Encode(fs)
      BY <3>2, ConcatEmptySeq
    <3> QED
      BY <3>1, <3>3
  <2> HIDE DEF fs
  <2>5. ReadValue(Encode(fs), type) = [values |-> Meant(fs), rest |-> <<>>, past |-> FALSE]
    BY <1>3, <2>3, <2>4 DEF ReadValue
  <2>6. ValueOf(ReadValue(Encode(fs), type), type) = value
    BY <1>3, <2>3, <2>5 DEF ValueOf
  <2> QED
    BY <2>2, <2>5, <2>6 DEF fs
<1> QED
  BY <1>2, <1>3

\* The number of a variable and the letter of its type.
LEMMA VariableHeader ==
  ASSUME NEW type \in VariableTypes, NEW var \in Variables, NEW value \in Nat
  PROVE  LET fs == FieldsFor(type, var, value)
             bytes == Encode(fs)
         IN  /\ fs \in Seq(Fields)
             /\ Len(bytes) <= 27 \/ Len(bytes) = 5 + value
             /\ Read(bytes, <<"short">>).values[1] = var
             /\ Read(Drop(bytes, 2), <<"char">>).values[1] = type
             /\ Drop(Drop(bytes, 2), 1) = Encode(ValueFields(type, value))
<1> DEFINE a == ShortOf(var)
           b == <<Field(type, "char")>>
           c == ValueFields(type, value)
           data == Encode(c)
           rest == Encode(b) \o data
<1>1. {var, type} \subseteq Meanings
  BY DEF Meanings
<1>2. Sized(a, 2) /\ Sized(b, 1) /\ a \in Seq(Fields) /\ b \in Seq(Fields)
  <2>1. Sized(a, 2) /\ Sized(b, 1)
    BY <1>1, SizedFields
  <2> QED
    BY <2>1 DEF Sized
<1>3. c \in Seq(Fields) /\ (Len(data) <= 24 \/ Len(data) = 2 + value)
  BY ValueFacts
<1>4. /\ Types(a) = <<"short">> /\ Meant(a)[1] = var
      /\ Types(b) = <<"char">> /\ Meant(b)[1] = type
  BY DEF Types, Meant, ShortOf, Field
<1>5. FieldsFor(type, var, value) = a \o b \o c
  BY DEF FieldsFor
<1> HIDE DEF a, b, c
<1>6. /\ a \o b \o c = a \o (b \o c) /\ b \o c \in Seq(Fields)
      /\ a \o (b \o c) \in Seq(Fields)
  BY <1>2, <1>3, ConcatAssociative, ConcatProperties
<1>7. Encode(FieldsFor(type, var, value)) = Encode(a) \o rest /\ data \in Seq(AllBytes)
  <2>1. Encode(a \o (b \o c)) = Encode(a) \o Encode(b \o c)
    BY <1>2, <1>6, EncodeFacts
  <2>2. Encode(b \o c) = Encode(b) \o Encode(c) /\ Encode(c) \in Seq(AllBytes)
    BY <1>2, <1>3, EncodeFacts
  <2> QED
    BY <1>5, <1>6, <2>1, <2>2
<1> HIDE DEF data
<1>8. /\ Read(rest, Types(b)) = [values |-> Meant(b), rest |-> data, past |-> FALSE]
      /\ Drop(rest, 1) = data /\ rest \in Seq(AllBytes) /\ Len(rest) = 1 + Len(data)
  BY <1>2, <1>7, SizedReads
<1> HIDE DEF rest
<1>9. /\ Read(Encode(a) \o rest, Types(a)) = [values |-> Meant(a), rest |-> rest, past |-> FALSE]
      /\ Drop(Encode(a) \o rest, 2) = rest
      /\ Len(Encode(a) \o rest) = 2 + Len(rest)
  BY <1>2, <1>8, SizedReads
<1>10. Len(data) \in Nat
  BY <1>7, LenProperties
<1>11. Len(Encode(a) \o rest) <= 27 \/ Len(Encode(a) \o rest) = 5 + value
  BY <1>3, <1>8, <1>9, <1>10
<1>12. Read(Encode(a) \o rest, <<"short">>).values[1] = var
  BY <1>4, <1>9
<1>13. Read(rest, <<"char">>).values[1] = type
  BY <1>4, <1>8
<1> QED
  BY <1>5, <1>6, <1>7, <1>8, <1>9, <1>11, <1>12, <1>13 DEF data, c

\* A side that receives a variable has it, and has read all of the message.
LEMMA VariableReceived ==
  ASSUME NEW type \in VariableTypes, NEW var \in Variables, NEW value \in Nat,
         NEW side, ReceiveVariable(side, Encode(FieldsFor(type, var, value)))
  PROVE  /\ copies' = [copies EXCEPT ![side][var] = Converted(side, var, value)]
         /\ heard'.values = heard'.expected /\ heard'.left = 0 /\ heard'.past = FALSE
<1> DEFINE bytes == Encode(FieldsFor(type, var, value))
           result == ReadValue(Drop(Drop(bytes, 2), 1), type)
<1>1. /\ Read(bytes, <<"short">>).values[1] = var
      /\ Read(Drop(bytes, 2), <<"char">>).values[1] = type
      /\ Drop(Drop(bytes, 2), 1) = Encode(ValueFields(type, value))
  BY VariableHeader
<1>2. ValueOf(result, type) = value /\ result.rest = <<>> /\ result.past = FALSE
  BY <1>1, ValueFacts
<1> HIDE DEF bytes
<1>3. /\ copies' = [copies EXCEPT ![side][var] = Converted(side, var, ValueOf(result, type))]
      /\ heard' = [expected |-> result.values, values |-> result.values,
                   left |-> Len(result.rest), past |-> result.past]
  BY <1>1 DEF ReceiveVariable, bytes
<1> HIDE DEF result
<1>4. copies' = [copies EXCEPT ![side][var] = Converted(side, var, value)]
  BY <1>2, <1>3
<1>5. heard'.values = heard'.expected /\ heard'.left = 0 /\ heard'.past = FALSE
  BY <1>2, <1>3
<1> QED
  BY <1>4, <1>5


-----------------------------------------------------------------------------
(* The messages there are *)

\* The values a variable can have: a number that was set, or the literal 1, or as much
\* of them as fits the variable; or a number of spheres.
VariableValues == {v \in Nat : v <= 2 \/ \E n \in Numbers : v <= n}

Ask(action) == Request(action, RequestFields(action))
Update(type, var, value) == Request("updateVariable", FieldsFor(type, var, value))
AskItem(action) == [action |-> action, data |-> Encode(RequestFields(action))]
UpdateItem(type, var, value) ==
  [action |-> "updateVariable", data |-> Encode(FieldsFor(type, var, value))]
Acknowledgement(action) == Reply("acknowledge", ReplyFields(action))
CountReply(n) == Reply("sendVariable", FieldsFor("int", "sphereCount", n))
Frame == Reply("sendFrame", FrameFields)

Asks(A) == {Ask(action) : action \in A}
AskItems(A) == {AskItem(action) : action \in A}
Updates(var, V) == {Update(type, var, value) : type \in VariableTypes, value \in V}
UpdateItems(var, V) == {UpdateItem(type, var, value) : type \in VariableTypes, value \in V}
Acknowledgements(A) == {Acknowledgement(action) : action \in A}
CountReplies(V) == {CountReply(n) : n \in V}

Requests == Asks(Actions) \union UNION {Updates(var, VariableValues) : var \in Variables}
Items == AskItems(Actions \ StepActions) \union UNION {UpdateItems(var, VariableValues) : var \in Variables}
ReplyMessages == Acknowledgements(ReplyActions) \union CountReplies(VariableValues) \union {Frame}

-----------------------------------------------------------------------------
(* What can be said of messages in a row *)

\* None of W is among them.
Silent(s, W) == \A n \in 1 .. Len(s) : s[n] \notin W

\* The last of W among them is one of V.
Settles(s, W, V) ==
  \E n \in 1 .. Len(s) : s[n] \in V /\ \A m \in n + 1 .. Len(s) : s[m] \notin W

\* There is one of W among them, and it is x.
Only(s, W, x) ==
  \E n \in 1 .. Len(s) : s[n] = x /\ \A m \in 1 .. Len(s) : m # n => s[m] \notin W

\* None of A comes before one of W.
NotBefore(s, A, W) ==
  \A n \in 1 .. Len(s) : s[n] \in W => \A m \in 1 .. n - 1 : s[m] \notin A

-----------------------------------------------------------------------------
(* The invariant *)

Kinds ==
  /\ scalar \in [{"client", "server"} -> {"float", "double"}]
  /\ waitsFor \in ReplyActions \union {"none"}
  /\ copies \in [{"client", "server"} -> [Variables -> VariableValues]]
  /\ toServer \in Seq(Requests) /\ items \in Seq(Items) /\ toClient \in Seq(ReplyMessages)

\* A variable of the client holds what it can hold.
Held == \A var \in Variables : Converted("client", var, copies.client[var]) = copies.client[var]

\* Before the client was accepted nothing was sent.
Quiet ==
  ~ready => /\ toServer = <<>> /\ items = <<>> /\ toClient = <<>> /\ waitsFor = "none"
            /\ copies.client.sphereCount = 1 /\ copies.server.sphereCount = 1

\* There is one request or reply for the call that waits, and none without one.
OneCall ==
  LET quietServer == Silent(toServer, Asks(ReplyActions))
      quietItems == Silent(items, AskItems(ReplyActions))
      quietClient == Silent(toClient, Acknowledgements(ReplyActions))
  IN  IF waitsFor = "none" THEN quietServer /\ quietItems /\ quietClient
      ELSE \/ Only(toServer, Asks(ReplyActions), Ask(waitsFor)) /\ quietItems /\ quietClient
           \/ quietServer /\ Only(items, AskItems(ReplyActions), AskItem(waitsFor)) /\ quietClient
           \/ /\ quietServer /\ quietItems
              /\ Only(toClient, Acknowledgements(ReplyActions), Acknowledgement(waitsFor))

\* The last update that is under way has the client's value; without one, the server
\* has it.
Arrives(var) ==
  LET value == {copies.client[var]}
  IN  \/ Settles(toServer, Updates(var, VariableValues), Updates(var, value))
      \/ /\ Silent(toServer, Updates(var, VariableValues))
         /\ \/ Settles(items, UpdateItems(var, VariableValues), UpdateItems(var, value))
            \/ /\ Silent(items, UpdateItems(var, VariableValues))
               /\ copies.server[var] = Converted("server", var, copies.client[var])

AllArrive == ready => \A var \in Variables \ {"sphereCount"} : Arrives(var)

\* The number of spheres goes both ways: the client's update says 1 and comes before
\* all that can change the server's number.
Opening ==
  /\ Silent(toServer, Updates("sphereCount", VariableValues) \ Updates("sphereCount", {1}))
  /\ Silent(items, UpdateItems("sphereCount", VariableValues) \ UpdateItems("sphereCount", {1}))
  /\ NotBefore(toServer, Asks(Actions), Updates("sphereCount", VariableValues))
  /\ NotBefore(items, AskItems(Actions), UpdateItems("sphereCount", VariableValues))
  /\ Silent(toServer, Updates("sphereCount", VariableValues)) \/ Silent(items, AskItems(Actions))

CountsOpen ==
  /\ copies.client.sphereCount = 1 /\ copies.server.sphereCount = 1
  /\ Silent(toClient, CountReplies(VariableValues))

CountsFollow ==
  /\ Silent(toServer, Updates("sphereCount", VariableValues))
  /\ Silent(items, UpdateItems("sphereCount", VariableValues))
  /\ \/ Settles(toClient, CountReplies(VariableValues), CountReplies({copies.server.sphereCount}))
     \/ /\ Silent(toClient, CountReplies(VariableValues))
        /\ copies.client.sphereCount = copies.server.sphereCount

Counting == Opening /\ (CountsOpen \/ CountsFollow)

Understood == heard.values = heard.expected /\ heard.left = 0 /\ heard.past = FALSE

WireInv ==
  Kinds /\ Held /\ Quiet /\ OneCall /\ AllArrive /\ Counting /\ Understood

-----------------------------------------------------------------------------
(* Messages that are sent and received *)

\* A message that is sent goes to the end and moves no other.
LEMMA SentFacts ==
  ASSUME NEW S, NEW s \in Seq(S), NEW x \in S
  PROVE  /\ Append(s, x) \in Seq(S) /\ Len(s) \in Nat /\ Len(Append(s, x)) = Len(s) + 1
         /\ \A i \in 1 .. Len(s) : Append(s, x)[i] = s[i]
         /\ Append(s, x)[Len(s) + 1] = x
<1>1. Len(s) \in Nat
  BY LenProperties
<1> QED
  BY <1>1, AppendProperties

\* A message that is taken is the first, and all others move up by one.
LEMMA TakenFacts ==
  ASSUME NEW S, NEW s \in Seq(S), s # <<>>
  PROVE  /\ Head(s) \in S /\ Tail(s) \in Seq(S) /\ Len(s) \in Nat \ {0}
         /\ Len(Tail(s)) = Len(s) - 1 /\ Head(s) = s[1]
         /\ \A i \in 1 .. Len(s) - 1 : Tail(s)[i] = s[i + 1]
<1>1. Len(s) \in Nat \ {0}
  BY EmptySeq, LenProperties
<1>2. Head(s) \in S /\ Tail(s) \in Seq(S) /\ Head(s) = s[1]
  BY HeadTailProperties
<1>3. Len(Tail(s)) = Len(s) - 1 /\ \A i \in 1 .. Len(Tail(s)) : Tail(s)[i] = s[i + 1]
  BY HeadTailProperties
<1> QED
  BY <1>1, <1>2, <1>3

\* What can be said when a message has been sent.
LEMMA WhenSent ==
  ASSUME NEW S, NEW s \in Seq(S), NEW x \in S, NEW W
  PROVE  /\ Silent(Append(s, x), W) <=> Silent(s, W) /\ x \notin W
         /\ \A V : x \in V \/ (x \notin W /\ Settles(s, W, V)) => Settles(Append(s, x), W, V)
         /\ Silent(s, W) => Only(Append(s, x), W, x)
         /\ \A y : x \notin W /\ Only(s, W, y) => Only(Append(s, x), W, y)
         /\ \A A : NotBefore(s, A, W) /\ (x \notin W \/ Silent(s, A))
                      => NotBefore(Append(s, x), A, W)
<1> DEFINE t == Append(s, x)
           n == Len(s)
<1>1. /\ n \in Nat /\ Len(t) = n + 1 /\ t[n + 1] = x
      /\ \A i \in 1 .. n : t[i] = s[i]
  BY SentFacts
<1> HIDE DEF t
<1>2. \A i \in 1 .. n + 1 : i \in 1 .. n \/ i = n + 1
  BY <1>1
<1>3. 1 .. n \subseteq 1 .. n + 1 /\ n + 1 \in 1 .. n + 1
  BY <1>1
<1>4. Len(s) = n
  OBVIOUS
<1> HIDE DEF n
<1>5. Silent(t, W) <=> Silent(s, W) /\ x \notin W
  BY <1>1, <1>2, <1>3, <1>4 DEF Silent
<1>6. ASSUME NEW V, x \in V PROVE Settles(t, W, V)
  <2>1. t[n + 1] \in V /\ \A m \in (n + 1) + 1 .. Len(t) : FALSE
    BY <1>1, <1>6
  <2> QED
    BY <1>1, <1>3, <2>1 DEF Settles
<1>7. ASSUME NEW V, x \notin W, Settles(s, W, V) PROVE Settles(t, W, V)
  <2>1. PICK k \in 1 .. n : s[k] \in V /\ \A m \in k + 1 .. n : s[m] \notin W
    BY <1>4, <1>7 DEF Settles
  <2>2. t[k] \in V /\ k \in 1 .. Len(t)
    BY <1>1, <2>1
  <2>3. ASSUME NEW m \in k + 1 .. Len(t) PROVE t[m] \notin W
    <3>1. (m \in k + 1 .. n /\ m \in 1 .. n) \/ m = n + 1
      BY <1>1, <2>1
    <3> QED
      BY <1>1, <1>7, <2>1, <3>1
  <2> QED
    BY <2>2, <2>3 DEF Settles
<1>8. ASSUME Silent(s, W) PROVE Only(t, W, x)
  <2>1. t[n + 1] = x /\ \A m \in 1 .. Len(t) : m # n + 1 => t[m] \notin W
    BY <1>1, <1>2, <1>4, <1>8 DEF Silent
  <2> QED
    BY <1>1, <1>3, <2>1 DEF Only
<1>9. ASSUME NEW y, x \notin W, Only(s, W, y) PROVE Only(t, W, y)
  <2>1. PICK k \in 1 .. n : s[k] = y /\ \A m \in 1 .. n : m # k => s[m] \notin W
    BY <1>4, <1>9 DEF Only
  <2>2. t[k] = y /\ k \in 1 .. Len(t)
    BY <1>1, <2>1
  <2>3. ASSUME NEW m \in 1 .. Len(t), m # k PROVE t[m] \notin W
    BY <1>1, <1>2, <1>9, <2>1, <2>3
  <2> QED
    BY <2>2, <2>3 DEF Only
<1>10. ASSUME NEW A, NotBefore(s, A, W), x \notin W \/ Silent(s, A)
       PROVE  NotBefore(t, A, W)
  <2> SUFFICES ASSUME NEW k \in 1 .. Len(t), t[k] \in W, NEW m \in 1 .. k - 1
               PROVE  t[m] \notin A
    BY DEF NotBefore
  <2>1. m \in 1 .. n /\ t[m] = s[m]
    BY <1>1
  <2>2. CASE k \in 1 .. n
    <3>1. s[k] \in W
      BY <1>1, <2>2
    <3> QED
      BY <1>4, <1>10, <2>1, <2>2, <3>1 DEF NotBefore
  <2>3. CASE k = n + 1
    BY <1>1, <1>4, <1>10, <2>1, <2>3 DEF Silent
  <2> QED
    BY <1>1, <1>2, <2>2, <2>3
<1> QED
  BY <1>5, <1>6, <1>7, <1>8, <1>9, <1>10 DEF t

\* What can be said when the first message has been taken.
LEMMA WhenTaken ==
  ASSUME NEW S, NEW s \in Seq(S), s # <<>>, NEW W
  PROVE  /\ Silent(s, W) => Head(s) \notin W /\ Silent(Tail(s), W)
         /\ \A V : Settles(s, W, V)
                     => Settles(Tail(s), W, V) \/ (Head(s) \in V /\ Silent(Tail(s), W))
         /\ \A y : Only(s, W, y) => \/ Head(s) = y /\ Silent(Tail(s), W)
                                    \/ Head(s) \notin W /\ Only(Tail(s), W, y)
         /\ \A A : NotBefore(s, A, W) => /\ NotBefore(Tail(s), A, W)
                                         /\ Head(s) \in A => Silent(Tail(s), W)
<1> DEFINE t == Tail(s)
           n == Len(s)
           h == Head(s)
<1>1. /\ n \in Nat \ {0} /\ Len(t) = n - 1 /\ h = s[1]
      /\ \A i \in 1 .. n - 1 : t[i] = s[i + 1]
  BY TakenFacts
<1>2. Len(s) = n
  OBVIOUS
<1> HIDE DEF t, n, h
<1>3. \A i \in 1 .. n - 1 : i + 1 \in 1 .. n
  BY <1>1
<1>4. 1 \in 1 .. n
  BY <1>1
<1>5. ASSUME Silent(s, W) PROVE h \notin W /\ Silent(t, W)
  BY <1>1, <1>2, <1>3, <1>4, <1>5 DEF Silent
<1>6. ASSUME NEW V, Settles(s, W, V) PROVE Settles(t, W, V) \/ (h \in V /\ Silent(t, W))
  <2>1. PICK k \in 1 .. n : s[k] \in V /\ \A m \in k + 1 .. n : s[m] \notin W
    BY <1>2, <1>6 DEF Settles
  <2>2. CASE k = 1
    <3>1. \A m \in 1 .. n - 1 : m + 1 \in k + 1 .. n
      BY <1>1, <2>2
    <3>2. \A m \in 1 .. n - 1 : t[m] \notin W
      BY <1>1, <2>1, <3>1
    <3> QED
      BY <1>1, <2>1, <2>2, <3>2 DEF Silent
  <2>3. CASE k # 1
    <3>1. k - 1 \in 1 .. n - 1 /\ k - 1 + 1 = k
      BY <1>1, <2>1, <2>3
    <3>2. t[k - 1] \in V
      BY <1>1, <2>1, <3>1
    <3>3. ASSUME NEW m \in (k - 1) + 1 .. n - 1 PROVE t[m] \notin W
      <4>1. m \in 1 .. n - 1 /\ m + 1 \in k + 1 .. n
        BY <1>1, <2>1
      <4> QED
        BY <1>1, <2>1, <4>1
    <3> QED
      BY <1>1, <3>1, <3>2, <3>3 DEF Settles
  <2> QED
    BY <2>2, <2>3
<1>7. ASSUME NEW y, Only(s, W, y)
      PROVE  (h = y /\ Silent(t, W)) \/ (h \notin W /\ Only(t, W, y))
  <2>1. PICK k \in 1 .. n : s[k] = y /\ \A m \in 1 .. n : m # k => s[m] \notin W
    BY <1>2, <1>7 DEF Only
  <2>2. CASE k = 1
    <3>1. \A m \in 1 .. n - 1 : m + 1 # k
      BY <1>1, <2>2
    <3>2. \A m \in 1 .. n - 1 : t[m] \notin W
      BY <1>1, <1>3, <2>1, <3>1
    <3>3. Silent(t, W)
      BY <1>1, <3>2 DEF Silent
    <3>4. h = y
      BY <1>1, <2>1, <2>2
    <3> QED
      BY <3>3, <3>4
  <2>3. CASE k # 1
    <3>1. k - 1 \in 1 .. n - 1 /\ k - 1 + 1 = k
      BY <1>1, <2>1, <2>3
    <3>2. t[k - 1] = y /\ h \notin W
      BY <1>1, <1>4, <2>1, <2>3, <3>1
    <3>3. ASSUME NEW m \in 1 .. n - 1, m # k - 1 PROVE t[m] \notin W
      <4>1. m + 1 \in 1 .. n /\ m + 1 # k
        BY <1>3, <2>1, <3>3
      <4> QED
        BY <1>1, <2>1, <4>1
    <3> QED
      BY <1>1, <3>1, <3>2, <3>3 DEF Only
  <2> QED
    BY <2>2, <2>3
<1>8. ASSUME NEW A, NotBefore(s, A, W)
      PROVE  NotBefore(t, A, W) /\ (h \in A => Silent(t, W))
  <2>1. \A k \in 1 .. n : s[k] \in W => \A m \in 1 .. k - 1 : s[m] \notin A
    BY <1>2, <1>8 DEF NotBefore
  <2>2. ASSUME NEW k \in 1 .. n - 1, t[k] \in W, NEW m \in 1 .. k - 1 PROVE t[m] \notin A
    <3>1. k + 1 \in 1 .. n /\ s[k + 1] \in W /\ m + 1 \in 1 .. (k + 1) - 1 /\ m \in 1 .. n - 1
      BY <1>1, <1>3, <2>2
    <3> QED
      BY <1>1, <2>1, <3>1
  <2>3. ASSUME NEW k \in 1 .. n - 1, t[k] \in W, h \in A PROVE FALSE
    <3>1. k + 1 \in 1 .. n /\ s[k + 1] \in W /\ 1 \in 1 .. (k + 1) - 1
      BY <1>1, <1>3, <2>3
    <3> QED
      BY <1>1, <2>1, <2>3, <3>1
  <2> QED
    BY <1>1, <2>2, <2>3 DEF NotBefore, Silent
<1> QED
  BY <1>5, <1>6, <1>7, <1>8 DEF t, h

\* Nothing can be said of no messages.
LEMMA WithoutMessages ==
  ASSUME NEW W
  PROVE  /\ Silent(<<>>, W) /\ \A V : ~Settles(<<>>, W, V)
         /\ \A A : NotBefore(<<>>, A, W)
<1>1. 1 .. Len(<<>>) = {}
  BY EmptySeq
<1> QED
  BY <1>1 DEF Silent, Settles, NotBefore

-----------------------------------------------------------------------------
(* Which message is which *)

\* What the server takes a request for, and what the client takes a reply for.
ItemOf(m) ==
  [action |-> Read(Drop(m, 8), <<"char", "char">>).values[2], data |-> Drop(Drop(m, 8), 2)]
StatusOf(m) == Read(m, <<"int", "int", "short">>).values[3]

\* Requests and what becomes of them.
LEMMA AskFacts ==
  ASSUME NEW action \in Actions
  PROVE  /\ ItemOf(Ask(action)) = AskItem(action)
         /\ Ask(action) \in Requests
         /\ Len(Ask(action)) <= 100
         /\ Hear(Encode(RequestFields(action)), HandlerFields(action)).values
              = Hear(Encode(RequestFields(action)), HandlerFields(action)).expected
         /\ Hear(Encode(RequestFields(action)), HandlerFields(action)).left = 0
         /\ Hear(Encode(RequestFields(action)), HandlerFields(action)).past = FALSE
<1> DEFINE fs == RequestFields(action)
<1>1. PICK size \in 0 .. 90 : Sized(fs, size)
  BY RequestFacts
<1>2. HandlerFields(action) = fs
  BY RequestFacts
<1>3. fs \in Seq(Fields) /\ Len(Encode(fs)) = size
  BY <1>1 DEF Sized
<1>4. Hear(Encode(fs), fs) = [expected |-> Meant(fs), values |-> Meant(fs),
                              left |-> 0, past |-> FALSE]
  <2>1. FloatsLast(fs, <<>>)
    BY <1>1 DEF Sized, FloatsLast
  <2> QED
    BY <1>3, <2>1, HearEncoded
<1> HIDE DEF fs
<1>5. /\ Len(Request(action, fs)) = 10 + Len(Encode(fs))
      /\ Read(Drop(Request(action, fs), 8), <<"char", "char">>).values[2] = action
      /\ Drop(Drop(Request(action, fs), 8), 2) = Encode(fs)
  BY <1>3, RequestHeader
<1>6. ItemOf(Ask(action)) = AskItem(action)
  BY <1>5 DEF ItemOf, Ask, AskItem, fs
<1>7. Len(Ask(action)) <= 100
  BY <1>1, <1>3, <1>5 DEF Ask, fs
<1>8. Ask(action) \in Requests
  BY DEF Requests, Asks
<1> QED
  BY <1>2, <1>4, <1>6, <1>7, <1>8 DEF fs

\* An update of a variable is read as what was written, and its length is known.
LEMMA UpdateFacts ==
  ASSUME NEW type \in VariableTypes, NEW var \in Variables, NEW value \in Nat
  PROVE  /\ ItemOf(Update(type, var, value)) = UpdateItem(type, var, value)
         /\ Read(Encode(FieldsFor(type, var, value)), <<"short">>).values[1] = var
         /\ Len(Update(type, var, value)) <= 37 \/ Len(Update(type, var, value)) = 15 + value
<1> DEFINE fs == FieldsFor(type, var, value)
<1>1. /\ fs \in Seq(Fields)
      /\ Len(Encode(fs)) <= 27 \/ Len(Encode(fs)) = 5 + value
      /\ Read(Encode(fs), <<"short">>).values[1] = var
  BY VariableHeader
<1> HIDE DEF fs
<1>2. /\ Len(Request("updateVariable", fs)) = 10 + Len(Encode(fs))
      /\ Read(Drop(Request("updateVariable", fs), 8), <<"char", "char">>).values[2]
           = "updateVariable"
      /\ Drop(Drop(Request("updateVariable", fs), 8), 2) = Encode(fs)
  BY <1>1, RequestHeader
<1>3. Encode(fs) \in Seq(AllBytes) /\ Len(Encode(fs)) \in Nat
  BY <1>1, EncodeFacts, LenProperties
<1>4. ItemOf(Update(type, var, value)) = UpdateItem(type, var, value)
  BY <1>2 DEF ItemOf, Update, UpdateItem, fs
<1>5. Len(Update(type, var, value)) <= 37 \/ Len(Update(type, var, value)) = 15 + value
  BY <1>1, <1>2, <1>3 DEF Update, fs
<1> QED
  BY <1>1, <1>4, <1>5 DEF fs

\* Replies.
LEMMA AcknowledgementFacts ==
  ASSUME NEW action \in ReplyActions
  PROVE  LET m == Acknowledgement(action)
             heardOf == Hear(Drop(m, 10), AnswerFields(action))
         IN  /\ StatusOf(m) = "acknowledge" /\ m \in ReplyMessages /\ Len(m) <= 100
             /\ heardOf.values = heardOf.expected /\ heardOf.left = 0 /\ heardOf.past = FALSE
<1> DEFINE fs == ReplyFields(action)
<1>1. PICK size \in 0 .. 90 : Sized(fs, size)
  BY ReplyFacts
<1>2. AnswerFields(action) = fs
  BY ReplyFacts
<1>3. fs \in Seq(Fields) /\ Len(Encode(fs)) = size
  BY <1>1 DEF Sized
<1>4. Hear(Encode(fs), fs) = [expected |-> Meant(fs), values |-> Meant(fs),
                              left |-> 0, past |-> FALSE]
  <2>1. FloatsLast(fs, <<>>)
    BY <1>1 DEF Sized, FloatsLast
  <2> QED
    BY <1>3, <2>1, HearEncoded
<1>5. Acknowledgement(action) = Reply("acknowledge", fs)
  BY DEF Acknowledgement
<1> HIDE DEF fs
<1>6. /\ Len(Reply("acknowledge", fs)) = 10 + Len(Encode(fs))
      /\ Read(Reply("acknowledge", fs), <<"int", "int", "short">>).values[3] = "acknowledge"
      /\ Drop(Reply("acknowledge", fs), 10) = Encode(fs)
  BY <1>3, ReplyHeader
<1>7. StatusOf(Acknowledgement(action)) = "acknowledge"
  BY <1>5, <1>6 DEF StatusOf
<1>8. Len(Acknowledgement(action)) <= 100
  BY <1>1, <1>3, <1>5, <1>6
<1>9. Acknowledgement(action) \in ReplyMessages
  BY DEF ReplyMessages, Acknowledgements
<1> QED
  BY <1>2, <1>4, <1>5, <1>6, <1>7, <1>8, <1>9

\* The number of spheres is sent as an update of the variable sphereCount.
LEMMA CountReplyFacts ==
  ASSUME NEW n \in Nat
  PROVE  /\ StatusOf(CountReply(n)) = "sendVariable"
         /\ Drop(CountReply(n), 10) = Encode(FieldsFor("int", "sphereCount", n))
         /\ Len(CountReply(n)) <= 37 \/ Len(CountReply(n)) = 15 + n
<1> DEFINE fs == FieldsFor("int", "sphereCount", n)
<1>1. "int" \in VariableTypes /\ "sphereCount" \in Variables
  <2>1. AllVariables[2] = "sphereCount" /\ 2 \in DOMAIN AllVariables
    BY DEF AllVariables
  <2> QED
    BY <2>1 DEF VariableTypes, Variables, Range
<1>2. fs \in Seq(Fields) /\ (Len(Encode(fs)) <= 27 \/ Len(Encode(fs)) = 5 + n)
  BY <1>1, VariableHeader
<1>3. CountReply(n) = Reply("sendVariable", fs)
  BY DEF CountReply
<1> HIDE DEF fs
<1>4. /\ Len(Reply("sendVariable", fs)) = 10 + Len(Encode(fs))
      /\ Read(Reply("sendVariable", fs), <<"int", "int", "short">>).values[3] = "sendVariable"
      /\ Drop(Reply("sendVariable", fs), 10) = Encode(fs)
  BY <1>2, ReplyHeader
<1>5. Encode(fs) \in Seq(AllBytes) /\ Len(Encode(fs)) \in Nat
  BY <1>2, EncodeFacts, LenProperties
<1>6. Len(CountReply(n)) <= 37 \/ Len(CountReply(n)) = 15 + n
  BY <1>2, <1>3, <1>4, <1>5
<1>7. StatusOf(CountReply(n)) = "sendVariable"
  BY <1>3, <1>4 DEF StatusOf
<1> QED
  BY <1>3, <1>4, <1>6, <1>7 DEF fs

\* A frame is read as what was written, to the last byte.
LEMMA FrameMessageFacts ==
  LET heardOf == Hear(Read(Frame, <<"int", "int", "short">>).rest, FrameFields)
  IN  /\ StatusOf(Frame) = "sendFrame" /\ Frame \in ReplyMessages /\ Len(Frame) = 48
      /\ heardOf.values = heardOf.expected /\ heardOf.left = 0 /\ heardOf.past = FALSE
<1>1. Sized(FrameFields, 38)
  BY FrameFacts
<1>2. FrameFields \in Seq(Fields) /\ Len(Encode(FrameFields)) = 38
  BY <1>1 DEF Sized
<1>3. /\ Len(Frame) = 10 + 38
      /\ Read(Frame, <<"int", "int", "short">>).values[3] = "sendFrame"
      /\ Read(Frame, <<"int", "int", "short">>).rest = Encode(FrameFields)
  BY <1>2, ReplyHeader DEF Frame
<1>4. Hear(Encode(FrameFields), FrameFields)
        = [expected |-> Meant(FrameFields), values |-> Meant(FrameFields),
           left |-> 0, past |-> FALSE]
  BY <1>1, EmptySeq, SizedReads
<1>5. StatusOf(Frame) = "sendFrame"
  BY <1>3 DEF StatusOf
<1>6. Frame \in ReplyMessages
  BY DEF ReplyMessages
<1> QED
  BY <1>3, <1>4, <1>5, <1>6

\* No two kinds of message are the same, nor are updates of two variables.
LEMMA RequestsApart ==
  /\ \A action \in Actions, var \in Variables : \A V \in SUBSET Nat :
       Ask(action) \notin Updates(var, V) /\ AskItem(action) \notin UpdateItems(var, V)
  /\ \A type \in VariableTypes, var \in Variables, value \in Nat : \A A \in SUBSET Actions :
       Update(type, var, value) \notin Asks(A) /\ UpdateItem(type, var, value) \notin AskItems(A)
  /\ \A A \in SUBSET Actions : \A action \in Actions \ A :
       Ask(action) \notin Asks(A) /\ AskItem(action) \notin AskItems(A)
<1>1. "updateVariable" \notin Actions
  BY DEF Actions, ReplyActions, CountActions, CounterActions, EnergyActions, StepActions,
         UpdateActions
<1>2. ASSUME NEW action \in Actions, NEW type \in VariableTypes, NEW var \in Variables,
             NEW value \in Nat
      PROVE  /\ Ask(action) # Update(type, var, value)
             /\ AskItem(action) # UpdateItem(type, var, value)
  <2>1. /\ ItemOf(Ask(action)) = AskItem(action)
        /\ ItemOf(Update(type, var, value)) = UpdateItem(type, var, value)
    BY AskFacts, UpdateFacts
  <2>2. /\ AskItem(action).action = action
        /\ UpdateItem(type, var, value).action = "updateVariable"
    BY DEF AskItem, UpdateItem
  <2>3. AskItem(action) # UpdateItem(type, var, value)
    BY <1>1, <2>2
  <2> QED
    BY <2>1, <2>3
<1>3. ASSUME NEW action \in Actions, NEW other \in Actions, action # other
      PROVE  Ask(action) # Ask(other) /\ AskItem(action) # AskItem(other)
  <2>1. ItemOf(Ask(action)) = AskItem(action) /\ ItemOf(Ask(other)) = AskItem(other)
    BY AskFacts
  <2>2. AskItem(action).action = action /\ AskItem(other).action = other
    BY DEF AskItem
  <2>3. AskItem(action) # AskItem(other)
    BY <1>3, <2>2
  <2> QED
    BY <2>1, <2>3
<1>4. ASSUME NEW action \in Actions, NEW var \in Variables, NEW V \in SUBSET Nat
      PROVE  Ask(action) \notin Updates(var, V) /\ AskItem(action) \notin UpdateItems(var, V)
  BY <1>2 DEF Updates, UpdateItems
<1>5. ASSUME NEW type \in VariableTypes, NEW var \in Variables, NEW value \in Nat,
             NEW A \in SUBSET Actions
      PROVE  /\ Update(type, var, value) \notin Asks(A)
             /\ UpdateItem(type, var, value) \notin AskItems(A)
  BY <1>2 DEF Asks, AskItems
<1>6. ASSUME NEW A \in SUBSET Actions, NEW action \in Actions \ A
      PROVE  Ask(action) \notin Asks(A) /\ AskItem(action) \notin AskItems(A)
  BY <1>3 DEF Asks, AskItems
<1> QED
  BY <1>4, <1>5, <1>6

\* Updates of two variables are different messages, and different items.
LEMMA UpdatesApart ==
  ASSUME NEW type \in VariableTypes, NEW var \in Variables, NEW value \in Nat,
         NEW other \in Variables, var # other, NEW V \in SUBSET Nat
  PROVE  /\ Update(type, var, value) \notin Updates(other, V)
         /\ UpdateItem(type, var, value) \notin UpdateItems(other, V)
<1>1. ASSUME NEW t \in VariableTypes, NEW v \in V
      PROVE  /\ Update(type, var, value) # Update(t, other, v)
             /\ UpdateItem(type, var, value) # UpdateItem(t, other, v)
  <2>1. v \in Nat
    OBVIOUS
  <2>2. /\ ItemOf(Update(type, var, value)) = UpdateItem(type, var, value)
        /\ Read(Encode(FieldsFor(type, var, value)), <<"short">>).values[1] = var
    BY UpdateFacts
  <2>3. /\ ItemOf(Update(t, other, v)) = UpdateItem(t, other, v)
        /\ Read(Encode(FieldsFor(t, other, v)), <<"short">>).values[1] = other
    BY <2>1, UpdateFacts
  <2>4. Encode(FieldsFor(type, var, value)) # Encode(FieldsFor(t, other, v))
    BY <2>2, <2>3
  <2>5. UpdateItem(type, var, value) # UpdateItem(t, other, v)
    BY <2>4 DEF UpdateItem
  <2> QED
    BY <2>2, <2>3, <2>5
<1> QED
  BY <1>1 DEF Updates, UpdateItems

\* A frame, an acknowledgement and a number of spheres are different messages.
LEMMA RepliesApart ==
  /\ \A A \in SUBSET ReplyActions, V \in SUBSET Nat :
       /\ Frame \notin Acknowledgements(A) /\ Frame \notin CountReplies(V)
       /\ \A action \in ReplyActions : Acknowledgement(action) \notin CountReplies(V)
       /\ \A n \in Nat : CountReply(n) \notin Acknowledgements(A)
<1>1. /\ StatusOf(Frame) = "sendFrame"
      /\ \A action \in ReplyActions : StatusOf(Acknowledgement(action)) = "acknowledge"
      /\ \A n \in Nat : StatusOf(CountReply(n)) = "sendVariable"
  BY FrameMessageFacts, AcknowledgementFacts, CountReplyFacts
<1>2. ASSUME NEW A \in SUBSET ReplyActions, NEW V \in SUBSET Nat
      PROVE  Frame \notin Acknowledgements(A) /\ Frame \notin CountReplies(V)
  BY <1>1 DEF Acknowledgements, CountReplies
<1>3. ASSUME NEW V \in SUBSET Nat, NEW action \in ReplyActions
      PROVE  Acknowledgement(action) \notin CountReplies(V)
  BY <1>1 DEF CountReplies
<1>4. ASSUME NEW A \in SUBSET ReplyActions, NEW n \in Nat
      PROVE  CountReply(n) \notin Acknowledgements(A)
  BY <1>1 DEF Acknowledgements
<1> QED
  BY <1>2, <1>3, <1>4

\* What the variables are.
LEMMA VariableNames ==
  /\ Variables = {"serverVersion", "sphereCount", "timeStep", "frameSending", "sphereE",
                  "earthGravity"}
  /\ "sphereCount" \in Variables
  /\ \A side \in {"client", "server"}, var \in Variables :
       scalar \in [{"client", "server"} -> {"float", "double"}]
         => TypeOf(side, var) \in VariableTypes
<1>1. Variables = {"serverVersion", "sphereCount", "timeStep", "frameSending", "sphereE",
                   "earthGravity"}
  <2>1. DOMAIN AllVariables = 1 .. 6
    BY DEF AllVariables
  <2>2. 1 .. 6 = {1, 2, 3, 4, 5, 6}
    OBVIOUS
  <2>3. Variables = {AllVariables[1], AllVariables[2], AllVariables[3], AllVariables[4],
                     AllVariables[5], AllVariables[6]}
    BY <2>1, <2>2 DEF Variables, Range
  <2> QED
    BY <2>3 DEF AllVariables
<1>2. ASSUME NEW side \in {"client", "server"}, NEW var \in Variables,
             scalar \in [{"client", "server"} -> {"float", "double"}]
      PROVE  TypeOf(side, var) \in VariableTypes
  <2>1. scalar[side] \in {"float", "double"}
    BY <1>2
  <2> QED
    BY <1>1, <2>1 DEF TypeOf, VariableTypes
<1> QED
  BY <1>1, <1>2

\* What a side holds of a value.
LEMMA ConvertedFacts ==
  ASSUME scalar \in [{"client", "server"} -> {"float", "double"}],
         NEW side \in {"client", "server"}, NEW var \in Variables, NEW value \in VariableValues
  PROVE  /\ Converted(side, var, value) \in VariableValues
         /\ Converted(side, var, Converted(side, var, value)) = Converted(side, var, value)
         /\ Converted(side, "sphereCount", value) = value
<1>1. value \in Nat /\ \A v \in Nat : v <= value => v \in VariableValues
  BY WireFormatAssumption DEF VariableValues
<1>2. value % 2 \in 0 .. 1 /\ value % 2 <= value
  BY <1>1
<1>3. value - (value % 2) \in Nat /\ value - (value % 2) <= value /\ (value - (value % 2)) % 2 = 0
  BY <1>1, <1>2
<1>4. 0 \in VariableValues /\ 1 \in VariableValues
  BY DEF VariableValues
<1>5. IsFloat(side, var) => TypeOf(side, var) # "bool"
  BY DEF IsFloat
<1> DEFINE Fits == /\ Converted(side, var, value) \in VariableValues
                   /\ Converted(side, var, Converted(side, var, value))
                        = Converted(side, var, value)
<1>6. ASSUME TypeOf(side, var) = "bool" PROVE Fits
  <2>1. \A v : Converted(side, var, v) = IF v = 0 THEN 0 ELSE 1
    BY <1>5, <1>6 DEF Converted
  <2> QED
    BY <1>4, <2>1
<1>7. ASSUME IsFloat(side, var) PROVE Fits
  <2>1. \A v : Converted(side, var, v) = v - (v % 2)
    BY <1>5, <1>7 DEF Converted
  <2> QED
    BY <1>1, <1>3, <2>1
<1>8. ASSUME TypeOf(side, var) # "bool", ~IsFloat(side, var) PROVE Fits
  <2>1. \A v : Converted(side, var, v) = v
    BY <1>8 DEF Converted
  <2> QED
    BY <2>1
<1>9. Converted(side, "sphereCount", value) = value
  <2>1. TypeOf(side, "sphereCount") = "int"
    BY DEF TypeOf
  <2>2. ~IsFloat(side, "sphereCount")
    BY <2>1 DEF IsFloat
  <2> QED
    BY <2>1, <2>2 DEF Converted
<1> QED
  BY <1>6, <1>7, <1>8, <1>9

-----------------------------------------------------------------------------
(* What the actions do *)

\* The numbers there are, are numbers.
LEMMA ValuesFacts ==
  VariableValues \subseteq Nat /\ Numbers \subseteq VariableValues /\ {0, 1, 2} \subseteq VariableValues
<1>1. Numbers \subseteq Nat
  BY WireFormatAssumption
<1> QED
  BY <1>1 DEF VariableValues

\* A number that a client sets: converted, and sent unless the variable has it.
LEMMA WhenSet ==
  ASSUME Kinds, NEW var \in Variables, NEW value \in Numbers, Set(var, value)
  PROVE  LET c == Converted("client", var, value)
             m == Update(TypeOf("client", var), var, c)
         IN  /\ c \in VariableValues /\ m \in Requests
             /\ m \in Updates(var, {c}) /\ m \in Updates(var, VariableValues)
             /\ copies' = [copies EXCEPT !["client"][var] = c]
             /\ \/ toServer' = Append(toServer, m)
                \/ toServer' = toServer /\ copies.client[var] = Given(var, value)
<1> DEFINE c == Converted("client", var, value)
           m == Update(TypeOf("client", var), var, c)
<1>1. value \in VariableValues /\ c \in VariableValues
  BY ValuesFacts, ConvertedFacts DEF Kinds
<1>2. TypeOf("client", var) \in VariableTypes
  BY VariableNames DEF Kinds
<1>3. m \in Updates(var, {c}) /\ m \in Updates(var, VariableValues)
  BY <1>1, <1>2 DEF Updates
<1>4. m \in Requests
  BY <1>3 DEF Requests
<1>5. copies' = [copies EXCEPT !["client"][var] = c] /\ scalar' = scalar
  BY DEF Set
<1>6. \/ toServer' = Append(toServer, UpdateVariable(var)')
      \/ toServer' = toServer /\ copies.client[var] = Given(var, value)
  BY DEF Set
<1>7. copies'["client"][var] = c
  <2> HIDE DEF c
  <2> QED
    BY <1>5 DEF Kinds
<1>8. TypeOf("client", var)' = TypeOf("client", var)
  BY <1>5 DEF TypeOf
<1>9. UpdateVariable(var)' = m
  <2> HIDE DEF c
  <2>1. UpdateVariable(var)'
          = Request("updateVariable", FieldsFor(TypeOf("client", var)', var, copies'["client"][var]))
    BY DEF UpdateVariable, VariableFields, FieldsFor
  <2> QED
    BY <1>7, <1>8, <2>1 DEF Update
<1> QED
  BY <1>1, <1>3, <1>4, <1>5, <1>6, <1>9

\* What the server takes a request for is what it is.
LEMMA ItemFacts ==
  ASSUME NEW m \in Requests
  PROVE  /\ \A var \in Variables, V \in SUBSET Nat :
              m \in Updates(var, V) => ItemOf(m) \in UpdateItems(var, V)
         /\ \A var \in Variables :
              m \notin Updates(var, VariableValues) => ItemOf(m) \notin UpdateItems(var, VariableValues)
         /\ \A A \in SUBSET Actions :
              m \notin Asks(A) => ItemOf(m) \notin AskItems(A)
         /\ \A action \in Actions : m = Ask(action) => ItemOf(m) = AskItem(action)
<1>1. ASSUME NEW var \in Variables, NEW V \in SUBSET Nat, m \in Updates(var, V)
      PROVE  ItemOf(m) \in UpdateItems(var, V)
  <2>1. PICK type \in VariableTypes, value \in V : m = Update(type, var, value)
    BY <1>1 DEF Updates
  <2>2. ItemOf(m) = UpdateItem(type, var, value)
    BY <2>1, UpdateFacts
  <2> QED
    BY <2>2 DEF UpdateItems
<1>2. \A action \in Actions : m = Ask(action) => ItemOf(m) = AskItem(action)
  BY AskFacts
<1>3. CASE m \in Asks(Actions)
  <2>1. PICK action \in Actions : m = Ask(action)
    BY <1>3 DEF Asks
  <2>2. ItemOf(m) = AskItem(action)
    BY <1>2, <2>1
  <2>3. \A var \in Variables : ItemOf(m) \notin UpdateItems(var, VariableValues)
    BY <2>2, RequestsApart, ValuesFacts
  <2>4. ASSUME NEW A \in SUBSET Actions, m \notin Asks(A) PROVE ItemOf(m) \notin AskItems(A)
    <3>1. action \in Actions \ A
      BY <2>1, <2>4 DEF Asks
    <3> QED
      BY <2>2, <3>1, RequestsApart
  <2> QED
    BY <1>1, <1>2, <2>3, <2>4
<1>4. CASE m \notin Asks(Actions)
  <2>1. PICK type \in VariableTypes, w \in Variables, value \in VariableValues :
          m = Update(type, w, value)
    BY <1>4 DEF Requests, Updates
  <2>2. ItemOf(m) = UpdateItem(type, w, value) /\ value \in Nat
    BY <2>1, UpdateFacts, ValuesFacts
  <2>3. \A A \in SUBSET Actions : ItemOf(m) \notin AskItems(A)
    BY <2>2, RequestsApart
  <2>4. ASSUME NEW var \in Variables, m \notin Updates(var, VariableValues)
        PROVE  ItemOf(m) \notin UpdateItems(var, VariableValues)
    <3>1. w # var
      BY <2>1, <2>4 DEF Updates
    <3> QED
      BY <2>2, <3>1, UpdatesApart, ValuesFacts
  <2> QED
    BY <1>1, <1>2, <2>3, <2>4
<1> QED
  BY <1>3, <1>4

\* A request on its way to the work queue, or read at once.
LEMMA WhenReceived ==
  ASSUME Kinds, ReceiveRequest
  PROVE  /\ toServer # <<>> /\ toServer' = Tail(toServer) /\ Head(toServer) \in Requests
         /\ \/ Head(toServer) \in Asks(StepActions) /\ items' = items /\ Understood'
            \/ /\ ItemOf(Head(toServer)) \in Items
               /\ items' = Append(items, ItemOf(Head(toServer))) /\ heard' = heard
<1> DEFINE m == Head(toServer)
<1>1. toServer # <<>> /\ toServer' = Tail(toServer)
  BY DEF ReceiveRequest
<1>2. m \in Requests
  BY <1>1, HeadTailProperties DEF Kinds
<1>3. IF ItemOf(m).action \in StepActions
      THEN heard' = Hear(ItemOf(m).data, HandlerFields(ItemOf(m).action)) /\ items' = items
      ELSE items' = Append(items, ItemOf(m)) /\ heard' = heard
  BY DEF ReceiveRequest, ItemOf
<1> HIDE DEF m
<1>4. CASE m \in Asks(Actions)
  <2>1. PICK action \in Actions : m = Ask(action)
    BY <1>4 DEF Asks
  <2>2. ItemOf(m) = AskItem(action)
    BY <2>1, AskFacts
  <2>3. /\ AskItem(action).action = action
        /\ AskItem(action).data = Encode(RequestFields(action))
    BY DEF AskItem
  <2>4. CASE action \in StepActions
    <3>1. heard' = Hear(Encode(RequestFields(action)), HandlerFields(action)) /\ items' = items
      BY <1>3, <2>2, <2>3, <2>4
    <3>2. Understood'
      BY <3>1, AskFacts DEF Understood
    <3>3. m \in Asks(StepActions)
      BY <2>1, <2>4 DEF Asks
    <3> QED
      BY <1>1, <1>2, <3>1, <3>2, <3>3 DEF m
  <2>5. CASE action \notin StepActions
    <3>1. items' = Append(items, ItemOf(m)) /\ heard' = heard
      BY <1>3, <2>2, <2>3, <2>5
    <3>2. ItemOf(m) \in Items
      BY <2>2, <2>5 DEF Items, AskItems
    <3> QED
      BY <1>1, <1>2, <3>1, <3>2 DEF m
  <2> QED
    BY <2>4, <2>5
<1>5. CASE m \notin Asks(Actions)
  <2>1. PICK w \in Variables : m \in Updates(w, VariableValues)
    BY <1>2, <1>5 DEF Requests
  <2>2. ItemOf(m) \in UpdateItems(w, VariableValues)
    BY <1>2, <2>1, ItemFacts, ValuesFacts
  <2>3. ItemOf(m).action \notin StepActions
    BY <2>2 DEF UpdateItems, UpdateItem, StepActions
  <2>4. items' = Append(items, ItemOf(m)) /\ heard' = heard
    BY <1>3, <2>3
  <2>5. ItemOf(m) \in Items
    BY <2>2 DEF Items
  <2> QED
    BY <1>1, <1>2, <2>4, <2>5 DEF m
<1> QED
  BY <1>4, <1>5

\* An update that the worker handles.
LEMMA WhenUpdated ==
  ASSUME Kinds, HandleVariable
  PROVE  /\ items # <<>> /\ items' = Tail(items)
         /\ Understood'
         /\ \E var \in Variables : Head(items) \in UpdateItems(var, VariableValues)
         /\ \A var \in Variables, V \in SUBSET VariableValues :
              Head(items) \in UpdateItems(var, V)
                => \E value \in V : copies' = [copies EXCEPT !["server"][var]
                                                 = Converted("server", var, value)]
<1> DEFINE x == Head(items)
<1>1. /\ items # <<>> /\ items' = Tail(items) /\ x.action = "updateVariable"
      /\ ReceiveVariable("server", x.data)
  BY DEF HandleVariable
<1>2. x \in Items
  BY <1>1, HeadTailProperties DEF Kinds
<1> HIDE DEF x
<1>3. x \notin AskItems(Actions \ StepActions)
  BY <1>1 DEF AskItems, AskItem, Actions, ReplyActions, CountActions, CounterActions,
              EnergyActions, StepActions, UpdateActions
<1>4. PICK w \in Variables : x \in UpdateItems(w, VariableValues)
  BY <1>2, <1>3 DEF Items
<1>5. ASSUME NEW var \in Variables, NEW V \in SUBSET VariableValues, x \in UpdateItems(var, V)
      PROVE  /\ Understood'
             /\ \E value \in V : copies' = [copies EXCEPT !["server"][var]
                                              = Converted("server", var, value)]
  <2>1. PICK type \in VariableTypes, value \in V : x = UpdateItem(type, var, value)
    BY <1>5 DEF UpdateItems
  <2>2. value \in Nat
    BY ValuesFacts
  <2>3. x.data = Encode(FieldsFor(type, var, value))
    BY <2>1 DEF UpdateItem
  <2>4. ReceiveVariable("server", Encode(FieldsFor(type, var, value)))
    BY <1>1, <2>3
  <2>5. /\ copies' = [copies EXCEPT !["server"][var] = Converted("server", var, value)]
        /\ heard'.values = heard'.expected /\ heard'.left = 0 /\ heard'.past = FALSE
    BY <2>2, <2>4, VariableReceived
  <2> QED
    BY <2>5 DEF Understood
<1>6. Understood'
  BY <1>4, <1>5
<1> QED
  BY <1>1, <1>4, <1>5, <1>6 DEF x

\* Another action that the worker handles: the number of spheres may change, and it is
\* sent then; a reply is sent if there is a method that waits.
LEMMA WhenHandled ==
  ASSUME Kinds, HandleAction
  PROVE  /\ items # <<>> /\ items' = Tail(items)
         /\ Understood'
         /\ \E action \in Actions \ StepActions, n \in VariableValues, between \in Seq(ReplyMessages) :
              /\ Head(items) = AskItem(action)
              /\ copies' = [copies EXCEPT !["server"]["sphereCount"] = n]
              /\ \/ between = toClient /\ copies' = copies
                 \/ between = Append(toClient, CountReply(n))
              /\ toClient' = IF action \in ReplyActions
                             THEN Append(between, Acknowledgement(action)) ELSE between
<1> DEFINE x == Head(items)
           action == x.action
<1>1. /\ items # <<>> /\ items' = Tail(items) /\ action # "updateVariable"
      /\ scalar' = scalar
      /\ heard' = Hear(x.data, HandlerFields(action))
  BY DEF HandleAction
<1>2. PICK n \in IF action \in CountActions THEN 0 .. 2 ELSE {copies.server.sphereCount} :
        /\ copies' = [copies EXCEPT !["server"]["sphereCount"] = n]
        /\ toClient' = toClient
              \o (IF copies' = copies THEN <<>>
                  ELSE <<Reply("sendVariable", VariableFields("server", "sphereCount")')>>)
              \o (IF action \in ReplyActions
                  THEN <<Reply("acknowledge", ReplyFields(action))>> ELSE <<>>)
  BY DEF HandleAction
<1>3. x \in Items
  BY <1>1, HeadTailProperties DEF Kinds
<1>4. copies.server.sphereCount \in VariableValues
  BY VariableNames DEF Kinds
<1>5. n \in VariableValues
  <2>1. 0 .. 2 \subseteq {0, 1, 2}
    OBVIOUS
  <2> QED
    BY <1>2, <1>4, <2>1, ValuesFacts
<1> HIDE DEF x
<1>6. x \in AskItems(Actions \ StepActions)
  <2>1. \A var : x \notin UpdateItems(var, VariableValues)
    BY <1>1 DEF UpdateItems, UpdateItem
  <2> QED
    BY <1>3, <2>1 DEF Items
<1>7. PICK a \in Actions \ StepActions : x = AskItem(a)
  BY <1>6 DEF AskItems
<1>8. action = a /\ x.data = Encode(RequestFields(a))
  BY <1>7 DEF AskItem
<1>9. Understood'
  <2>1. heard' = Hear(Encode(RequestFields(a)), HandlerFields(a))
    BY <1>1, <1>8
  <2> QED
    BY <2>1, AskFacts DEF Understood
<1>10. Reply("sendVariable", VariableFields("server", "sphereCount")') = CountReply(n)
  <2>1. TypeOf("server", "sphereCount")' = "int"
    BY DEF TypeOf
  <2>2. copies'["server"]["sphereCount"] = n
    BY <1>2, VariableNames DEF Kinds
  <2>3. VariableFields("server", "sphereCount")'
          = FieldsFor(TypeOf("server", "sphereCount")', "sphereCount",
                      copies'["server"]["sphereCount"])
    BY DEF VariableFields, FieldsFor
  <2> QED
    BY <2>1, <2>2, <2>3 DEF CountReply
<1> DEFINE between == IF copies' = copies THEN toClient ELSE Append(toClient, CountReply(n))
<1>11. CountReply(n) \in ReplyMessages /\ toClient \in Seq(ReplyMessages)
  BY <1>5 DEF Kinds, ReplyMessages, CountReplies
<1>12. between \in Seq(ReplyMessages)
  BY <1>11, AppendProperties
<1>13. between = toClient \o (IF copies' = copies THEN <<>> ELSE <<CountReply(n)>>)
  BY <1>11, AppendIsConcat, ConcatEmptySeq
<1>14. toClient' = between \o (IF a \in ReplyActions THEN <<Acknowledgement(a)>> ELSE <<>>)
  <2> HIDE DEF between
  <2> QED
    BY <1>2, <1>8, <1>10, <1>13 DEF Acknowledgement
<1>15. \/ between = toClient /\ copies' = copies
       \/ between = Append(toClient, CountReply(n))
  OBVIOUS
<1> HIDE DEF between
<1>16. toClient' = IF a \in ReplyActions THEN Append(between, Acknowledgement(a)) ELSE between
  <2>1. CASE a \in ReplyActions
    <3>1. Acknowledgement(a) \in ReplyMessages
      BY <2>1 DEF ReplyMessages, Acknowledgements
    <3>2. Append(between, Acknowledgement(a)) = between \o <<Acknowledgement(a)>>
      BY <1>12, <3>1, AppendIsConcat
    <3> QED
      BY <1>14, <2>1, <3>2
  <2>2. CASE a \notin ReplyActions
    BY <1>12, <1>14, <2>2, ConcatEmptySeq
  <2> QED
    BY <2>1, <2>2
<1> QED
  BY <1>1, <1>2, <1>5, <1>7, <1>9, <1>12, <1>15, <1>16 DEF x

\* A message to the client: a frame, the number of spheres, or the reply to a call.
LEMMA WhenReplied ==
  ASSUME Kinds, ReadReply
  PROVE  /\ toClient # <<>> /\ toClient' = Tail(toClient)
         /\ \/ /\ Head(toClient) = Frame /\ UNCHANGED <<waitsFor, copies>>
               /\ Understood'
            \/ /\ Head(toClient) \in CountReplies(VariableValues) /\ waitsFor' = waitsFor
               /\ Understood'
               /\ \A n \in VariableValues : Head(toClient) = CountReply(n)
                    => copies' = [copies EXCEPT !["client"]["sphereCount"]
                                    = Converted("client", "sphereCount", n)]
            \/ /\ Head(toClient) \in Acknowledgements(ReplyActions)
               /\ waitsFor' = "none" /\ copies' = copies
               /\ waitsFor \in ReplyActions /\ Head(toClient) = Acknowledgement(waitsFor) => Understood'
<1> DEFINE m == Head(toClient)
<1>1. /\ toClient # <<>> /\ toClient' = Tail(toClient)
      /\ \/ /\ StatusOf(m) = "sendFrame"
            /\ heard' = Hear(Read(m, <<"int", "int", "short">>).rest, FrameFields)
            /\ UNCHANGED <<waitsFor, copies>>
         \/ /\ StatusOf(m) = "sendVariable"
            /\ ReceiveVariable("client", Drop(m, 10))
            /\ UNCHANGED waitsFor
         \/ /\ StatusOf(m) = "acknowledge"
            /\ heard' = Hear(Drop(m, 10), AnswerFields(waitsFor))
            /\ waitsFor' = "none"
            /\ UNCHANGED copies
  BY DEF ReadReply, StatusOf, FrameFields, ReadBasicSphereData, WriteBasicSphereData
<1>2. m \in ReplyMessages
  BY <1>1, HeadTailProperties DEF Kinds
<1> HIDE DEF m
<1>3. CASE m = Frame
  <2>1. StatusOf(m) = "sendFrame"
    BY <1>3, FrameMessageFacts
  <2>2. /\ heard' = Hear(Read(Frame, <<"int", "int", "short">>).rest, FrameFields)
        /\ UNCHANGED <<waitsFor, copies>>
    BY <1>1, <1>3, <2>1
  <2>3. Understood'
    BY <2>2, FrameMessageFacts DEF Understood
  <2> QED
    BY <1>1, <1>3, <2>2, <2>3 DEF m
<1>4. CASE m \in CountReplies(VariableValues)
  <2>1. PICK k \in VariableValues : m = CountReply(k)
    BY <1>4 DEF CountReplies
  <2>2. k \in Nat
    BY ValuesFacts
  <2>3. StatusOf(m) = "sendVariable"
    BY <2>1, <2>2, CountReplyFacts
  <2>4. ReceiveVariable("client", Drop(m, 10)) /\ waitsFor' = waitsFor
    BY <1>1, <2>3
  <2>5. ASSUME NEW n \in VariableValues, m = CountReply(n)
        PROVE  /\ copies' = [copies EXCEPT !["client"]["sphereCount"]
                               = Converted("client", "sphereCount", n)]
               /\ Understood'
    <3>1. n \in Nat /\ "int" \in VariableTypes /\ "sphereCount" \in Variables
      BY ValuesFacts, VariableNames DEF VariableTypes
    <3>2. ReceiveVariable("client", Encode(FieldsFor("int", "sphereCount", n)))
      BY <2>4, <2>5, <3>1, CountReplyFacts
    <3>3. /\ copies' = [copies EXCEPT !["client"]["sphereCount"]
                          = Converted("client", "sphereCount", n)]
          /\ heard'.values = heard'.expected /\ heard'.left = 0 /\ heard'.past = FALSE
      BY <3>1, <3>2, VariableReceived
    <3> QED
      BY <3>3 DEF Understood
  <2>6. Understood'
    BY <2>1, <2>5
  <2> QED
    BY <1>1, <1>4, <2>4, <2>5, <2>6 DEF m
<1>5. CASE m \in Acknowledgements(ReplyActions)
  <2>1. StatusOf(m) = "acknowledge"
    BY <1>5, AcknowledgementFacts DEF Acknowledgements
  <2>2. /\ heard' = Hear(Drop(m, 10), AnswerFields(waitsFor))
        /\ waitsFor' = "none" /\ copies' = copies
    BY <1>1, <2>1
  <2>3. ASSUME waitsFor \in ReplyActions, m = Acknowledgement(waitsFor) PROVE Understood'
    <3>1. heard' = Hear(Drop(Acknowledgement(waitsFor), 10), AnswerFields(waitsFor))
      BY <2>2, <2>3
    <3> QED
      BY <2>3, <3>1, AcknowledgementFacts DEF Understood
  <2> QED
    BY <1>1, <1>5, <2>2, <2>3 DEF m
<1> QED
  BY <1>2, <1>3, <1>4, <1>5 DEF ReplyMessages

-----------------------------------------------------------------------------
(* Every action keeps the invariant *)

\* Conversions do not change.
LEMMA ConvertedKept ==
  ASSUME scalar' = scalar, NEW side, NEW var
  PROVE  Converted(side, var, copies.client[var])'
           = Converted(side, var, copies'.client[var])
  BY DEF Converted, IsFloat, TypeOf

\* The client sends its variables.
LEMMA SendAllKeeps ==
  ASSUME WireInv, SendAllVariables
  PROVE  WireInv'
<1> DEFINE s == [n \in DOMAIN AllVariables |-> UpdateVariable(AllVariables[n])]
<1>1. /\ toServer = <<>> /\ items = <<>> /\ toClient = <<>> /\ waitsFor = "none"
      /\ copies.client.sphereCount = 1 /\ copies.server.sphereCount = 1
  BY DEF WireInv, Quiet, SendAllVariables
<1>2. /\ ready' = TRUE /\ toServer' = <<>> \o s
      /\ scalar' = scalar /\ waitsFor' = waitsFor /\ toClient' = toClient /\ items' = items
      /\ copies' = copies /\ heard' = heard
  BY <1>1 DEF SendAllVariables
<1>3. /\ DOMAIN AllVariables = 1 .. 6
      /\ \A n \in 1 .. 6 : AllVariables[n] \in Variables
      /\ \A var \in Variables : \E n \in 1 .. 6 : AllVariables[n] = var
      /\ \A n, m \in 1 .. 6 : AllVariables[n] = AllVariables[m] => n = m
  <2>1. DOMAIN AllVariables = 1 .. 6
    BY DEF AllVariables
  <2>2. \A n, m \in 1 .. 6 : AllVariables[n] = AllVariables[m] => n = m
    <3>1. \A n \in 1 .. 6 : n = 1 \/ n = 2 \/ n = 3 \/ n = 4 \/ n = 5 \/ n = 6
      OBVIOUS
    <3> QED
      BY <3>1 DEF AllVariables
  <2> QED
    BY <2>1, <2>2 DEF Variables, Range
<1>4. \A n \in 1 .. 6 :
        LET var == AllVariables[n]
        IN  /\ s[n] \in Updates(var, {copies.client[var]})
            /\ s[n] \in Updates(var, VariableValues)
            /\ s[n] \in Requests /\ s[n] \notin Asks(Actions)
            /\ \A other \in Variables \ {var} : s[n] \notin Updates(other, VariableValues)
  <2> SUFFICES ASSUME NEW n \in 1 .. 6, NEW var \in Variables, AllVariables[n] = var
               PROVE  /\ s[n] \in Updates(var, {copies.client[var]})
                      /\ s[n] \in Updates(var, VariableValues)
                      /\ s[n] \in Requests /\ s[n] \notin Asks(Actions)
                      /\ \A other \in Variables \ {var} : s[n] \notin Updates(other, VariableValues)
    BY <1>3
  <2> DEFINE value == copies.client[var]
             type == TypeOf("client", var)
  <2>1. value \in VariableValues /\ value \in Nat /\ type \in VariableTypes
    BY ValuesFacts, VariableNames DEF WireInv, Kinds
  <2>2. s[n] = Update(type, var, value)
    BY <1>3 DEF UpdateVariable, VariableFields, FieldsFor, Update
  <2> HIDE DEF s, value, type
  <2>3. s[n] \in Updates(var, {value}) /\ s[n] \in Updates(var, VariableValues)
    BY <2>1, <2>2 DEF Updates
  <2>4. s[n] \in Requests
    BY <2>3 DEF Requests
  <2>5. s[n] \notin Asks(Actions)
    BY <2>1, <2>2, RequestsApart
  <2>6. \A other \in Variables \ {var} : s[n] \notin Updates(other, VariableValues)
    BY <2>1, <2>2, ValuesFacts, UpdatesApart
  <2> QED
    BY <2>3, <2>4, <2>5, <2>6 DEF value
<1>5. s \in Seq(Requests) /\ Len(s) = 6
  <2>1. s \in [1 .. 6 -> Requests]
    <3>1. s = [n \in 1 .. 6 |-> s[n]]
      BY <1>3
    <3> HIDE DEF s
    <3> QED
      BY <1>4, <3>1
  <2>2. ASSUME NEW k \in Nat, NEW f \in [1 .. k -> Requests]
        PROVE  f \in Seq(Requests) /\ Len(f) = k
    OBVIOUS
  <2> HIDE DEF s
  <2> QED
    BY <2>1, <2>2
<1> HIDE DEF s
<1>6. toServer' = s
  BY <1>2, <1>5, ConcatEmptySeq
<1>7. Kinds'
  BY <1>2, <1>5, <1>6 DEF WireInv, Kinds
<1>8. Held'
  BY <1>2, ConvertedKept DEF WireInv, Held
<1>9. Quiet'
  BY <1>2 DEF Quiet
<1>10. OneCall'
  <2>1. Asks(ReplyActions) \subseteq Asks(Actions)
    BY DEF Asks, Actions
  <2>2. Silent(s, Asks(ReplyActions))
    BY <1>4, <1>5, <2>1 DEF Silent
  <2> QED
    BY <1>1, <1>2, <1>6, <2>2, WithoutMessages DEF OneCall
<1>11. AllArrive'
  <2> SUFFICES ASSUME NEW var \in Variables PROVE Arrives(var)'
    BY DEF AllArrive
  <2>1. PICK n \in 1 .. 6 : AllVariables[n] = var
    BY <1>3
  <2>2. s[n] \in Updates(var, {copies.client[var]})
    BY <1>4, <2>1
  <2>3. ASSUME NEW m \in n + 1 .. 6 PROVE s[m] \notin Updates(var, VariableValues)
    <3>1. m \in 1 .. 6 /\ m # n
      BY <2>1
    <3>2. AllVariables[m] \in Variables /\ var # AllVariables[m]
      BY <1>3, <2>1, <3>1
    <3> QED
      BY <1>4, <3>1, <3>2
  <2>4. Settles(s, Updates(var, VariableValues), Updates(var, {copies.client[var]}))
    BY <1>5, <2>2, <2>3 DEF Settles
  <2> QED
    BY <1>2, <1>6, <2>4 DEF Arrives
<1>12. Counting'
  <2>1. Silent(s, Updates("sphereCount", VariableValues) \ Updates("sphereCount", {1}))
    <3>1. ASSUME NEW n \in 1 .. 6
          PROVE  s[n] \notin Updates("sphereCount", VariableValues) \ Updates("sphereCount", {1})
      <4>1. CASE AllVariables[n] = "sphereCount"
        BY <1>1, <1>4, <4>1
      <4>2. CASE AllVariables[n] # "sphereCount"
        BY <1>4, <4>2, VariableNames
      <4> QED
        BY <4>1, <4>2
    <3> QED
      BY <1>5, <3>1 DEF Silent
  <2>2. NotBefore(s, Asks(Actions), Updates("sphereCount", VariableValues))
    <3>1. \A n \in 1 .. 6 : \A m \in 1 .. n - 1 : s[m] \notin Asks(Actions)
      BY <1>4
    <3> QED
      BY <1>5, <3>1 DEF NotBefore
  <2>3. Opening'
    BY <1>1, <1>2, <1>6, <2>1, <2>2, WithoutMessages DEF Opening
  <2>4. CountsOpen'
    BY <1>1, <1>2, WithoutMessages DEF CountsOpen
  <2> QED
    BY <2>3, <2>4 DEF Counting
<1>13. Understood'
  BY <1>2 DEF WireInv, Understood
<1> QED
  BY <1>7, <1>8, <1>9, <1>10, <1>11, <1>12, <1>13 DEF WireInv

\* A copy that is set, and the others.
LEMMA CopySet ==
  ASSUME NEW d \in [{"client", "server"} -> [Variables -> VariableValues]],
         NEW side \in {"client", "server"}, NEW var \in Variables, NEW value \in VariableValues
  PROVE  LET e == [d EXCEPT ![side][var] = value]
         IN  /\ e \in [{"client", "server"} -> [Variables -> VariableValues]]
             /\ \A t \in {"client", "server"}, w \in Variables :
                  e[t][w] = IF t = side /\ w = var THEN value ELSE d[t][w]
  OBVIOUS

\* A method sends its request.
LEMMA CallKeeps ==
  ASSUME WireInv, NEW action \in Actions, CallMethod(action)
  PROVE  WireInv'
<1>1. /\ ready /\ waitsFor = "none" /\ toServer' = Append(toServer, Ask(action))
      /\ waitsFor' = IF action \in ReplyActions THEN action ELSE "none"
      /\ scalar' = scalar /\ ready' = ready /\ toClient' = toClient /\ items' = items
      /\ copies' = copies /\ heard' = heard
  BY DEF CallMethod, Ask
<1>2. toServer \in Seq(Requests) /\ Ask(action) \in Requests
  BY AskFacts DEF WireInv, Kinds
<1>3. /\ \A var \in Variables : Ask(action) \notin Updates(var, VariableValues)
      /\ action \notin ReplyActions => Ask(action) \notin Asks(ReplyActions)
      /\ action \in ReplyActions => Ask(action) \in Asks(ReplyActions)
  <2>1. ReplyActions \subseteq Actions
    BY DEF Actions
  <2> QED
    BY <2>1, RequestsApart, ValuesFacts DEF Asks
<1>4. Kinds'
  <2>1. toServer' \in Seq(Requests)
    BY <1>1, <1>2, AppendProperties
  <2> QED
    BY <1>1, <2>1 DEF WireInv, Kinds
<1>5. Held'
  BY <1>1, ConvertedKept DEF WireInv, Held
<1>6. Quiet'
  BY <1>1 DEF Quiet
<1>7. OneCall'
  <2>1. /\ Silent(toServer, Asks(ReplyActions)) /\ Silent(items, AskItems(ReplyActions))
        /\ Silent(toClient, Acknowledgements(ReplyActions))
    BY <1>1 DEF WireInv, OneCall
  <2>2. CASE action \in ReplyActions
    <3>1. Only(toServer', Asks(ReplyActions), Ask(action))
      BY <1>1, <1>2, <2>1, WhenSent
    <3>2. waitsFor' = action /\ action # "none"
      BY <1>1, <2>2 DEF ReplyActions, CountActions, CounterActions, EnergyActions
    <3> QED
      BY <1>1, <2>1, <3>1, <3>2 DEF OneCall
  <2>3. CASE action \notin ReplyActions
    <3>1. Silent(toServer', Asks(ReplyActions))
      BY <1>1, <1>2, <1>3, <2>1, <2>3, WhenSent
    <3> QED
      BY <1>1, <2>1, <2>3, <3>1 DEF OneCall
  <2> QED
    BY <2>2, <2>3
<1>8. AllArrive'
  <2> SUFFICES ASSUME NEW var \in Variables \ {"sphereCount"} PROVE Arrives(var)'
    BY DEF AllArrive
  <2> DEFINE W == Updates(var, VariableValues)
             V == Updates(var, {copies.client[var]})
  <2>1. Arrives(var) /\ Ask(action) \notin W
    BY <1>1, <1>3 DEF WireInv, AllArrive
  <2>2. /\ Settles(toServer, W, V) => Settles(toServer', W, V)
        /\ Silent(toServer, W) => Silent(toServer', W)
    <3> HIDE DEF W, V
    <3> QED
      BY <1>1, <1>2, <2>1, WhenSent
  <2>3. V' = V /\ W' = W
    BY <1>1
  <2> QED
    BY <1>1, <2>1, <2>2, <2>3, ConvertedKept DEF Arrives
<1>9. Counting'
  <2> DEFINE W == Updates("sphereCount", VariableValues)
             V == W \ Updates("sphereCount", {1})
             A == Asks(Actions)
  <2>1. Ask(action) \notin W /\ Ask(action) \notin V
    BY <1>3, VariableNames
  <2>2. /\ Silent(toServer, W) => Silent(toServer', W)
        /\ Silent(toServer, V) => Silent(toServer', V)
        /\ NotBefore(toServer, A, W) => NotBefore(toServer', A, W)
    <3> HIDE DEF V, W, A
    <3> QED
      BY <1>1, <1>2, <2>1, WhenSent
  <2>3. Opening'
    BY <1>1, <2>2 DEF WireInv, Counting, Opening
  <2>4. (CountsOpen \/ CountsFollow)'
    BY <1>1, <2>2 DEF WireInv, Counting, CountsOpen, CountsFollow
  <2> QED
    BY <2>3, <2>4 DEF Counting
<1>10. Understood'
  BY <1>1 DEF WireInv, Understood
<1> QED
  BY <1>4, <1>5, <1>6, <1>7, <1>8, <1>9, <1>10 DEF WireInv

\* The server sends a frame.
LEMMA FrameKeeps ==
  ASSUME WireInv, SendFrame
  PROVE  WireInv'
<1>1. /\ ready /\ toClient' = Append(toClient, Frame)
      /\ scalar' = scalar /\ ready' = ready /\ waitsFor' = waitsFor /\ toServer' = toServer
      /\ items' = items /\ copies' = copies /\ heard' = heard
  BY DEF SendFrame, Frame, FrameFields
<1>2. toClient \in Seq(ReplyMessages) /\ Frame \in ReplyMessages
  BY FrameMessageFacts DEF WireInv, Kinds
<1>3. Frame \notin Acknowledgements(ReplyActions) /\ Frame \notin CountReplies(VariableValues)
  BY RepliesApart, ValuesFacts
<1>4. Kinds'
  <2>1. toClient' \in Seq(ReplyMessages)
    BY <1>1, <1>2, AppendProperties
  <2> QED
    BY <1>1, <2>1 DEF WireInv, Kinds
<1>5. Held' /\ Quiet'
  BY <1>1, ConvertedKept DEF WireInv, Held, Quiet
<1>6. OneCall'
  <2> DEFINE W == Acknowledgements(ReplyActions)
  <2>1. /\ Silent(toClient, W) => Silent(toClient', W)
        /\ \A y : Only(toClient, W, y) => Only(toClient', W, y)
    <3> HIDE DEF W
    <3>1. Frame \notin W
      BY <1>3 DEF W
    <3> QED
      BY <1>1, <1>2, <3>1, WhenSent
  <2> QED
    BY <1>1, <2>1 DEF WireInv, OneCall
<1>7. AllArrive'
  BY <1>1, ConvertedKept DEF WireInv, AllArrive, Arrives
<1>8. Counting'
  <2> DEFINE W == CountReplies(VariableValues)
  <2>1. /\ Silent(toClient, W) => Silent(toClient', W)
        /\ \A V : Settles(toClient, W, V) => Settles(toClient', W, V)
    <3> HIDE DEF W
    <3>1. Frame \notin W
      BY <1>3 DEF W
    <3> QED
      BY <1>1, <1>2, <3>1, WhenSent
  <2>2. Opening'
    BY <1>1 DEF WireInv, Counting, Opening
  <2>3. (CountsOpen \/ CountsFollow)'
    BY <1>1, <2>1 DEF WireInv, Counting, CountsOpen, CountsFollow
  <2> QED
    BY <2>2, <2>3 DEF Counting
<1>9. Understood'
  BY <1>1 DEF WireInv, Understood
<1> QED
  BY <1>4, <1>5, <1>6, <1>7, <1>8, <1>9 DEF WireInv

\* The client sets one of its variables, but not the number of spheres.
LEMMA SetKeeps ==
  ASSUME WireInv, NEW var \in Variables \ {"sphereCount"}, NEW value \in Numbers,
         Set(var, value)
  PROVE  WireInv'
<1> DEFINE c == Converted("client", var, value)
           m == Update(TypeOf("client", var), var, c)
<1>1. /\ c \in VariableValues /\ m \in Requests
      /\ m \in Updates(var, {c}) /\ m \in Updates(var, VariableValues)
      /\ copies' = [copies EXCEPT !["client"][var] = c]
      /\ \/ toServer' = Append(toServer, m)
         \/ toServer' = toServer /\ copies.client[var] = Given(var, value)
  BY WhenSet DEF WireInv
<1>2. /\ ready /\ scalar' = scalar /\ ready' = ready /\ waitsFor' = waitsFor /\ toClient' = toClient
      /\ items' = items /\ heard' = heard
  BY DEF Set
<1>3. toServer' = toServer => c = copies.client[var] \/ toServer' = Append(toServer, m)
  <2> SUFFICES ASSUME copies.client[var] = Given(var, value)
               PROVE  c = copies.client[var]
    BY <1>1
  <2>1. CASE var = "earthGravity"
    BY <2>1 DEF Given
  <2>2. CASE var # "earthGravity"
    BY <2>2 DEF Given, WireInv, Held
  <2> QED
    BY <2>1, <2>2
<1>4. Converted("client", var, c) = c
  BY ConvertedFacts, ValuesFacts DEF WireInv, Kinds
<1>5. TypeOf("client", var) \in VariableTypes /\ c \in Nat
  BY <1>1, VariableNames, ValuesFacts DEF WireInv, Kinds
<1>6. /\ m \notin Asks(ReplyActions) /\ m \notin Asks(Actions)
      /\ \A w \in Variables \ {var} : m \notin Updates(w, VariableValues)
  <2> HIDE DEF c
  <2>1. m \notin Asks(ReplyActions) /\ m \notin Asks(Actions)
    <3>1. ReplyActions \in SUBSET Actions
      BY DEF Actions
    <3> QED
      BY <1>5, <3>1, RequestsApart
  <2>2. \A w \in Variables \ {var} : m \notin Updates(w, VariableValues)
    BY <1>5, ValuesFacts, UpdatesApart
  <2> QED
    BY <2>1, <2>2
<1> HIDE DEF c, m
<1>7. /\ copies' \in [{"client", "server"} -> [Variables -> VariableValues]]
      /\ \A t \in {"client", "server"}, w \in Variables :
           copies'[t][w] = IF t = "client" /\ w = var THEN c ELSE copies[t][w]
  BY <1>1, CopySet DEF WireInv, Kinds
<1>8. toServer \in Seq(Requests)
  BY DEF WireInv, Kinds
<1>9. Kinds'
  <2>1. toServer' \in Seq(Requests)
    BY <1>1, <1>8, AppendProperties
  <2> QED
    BY <1>2, <1>7, <2>1 DEF WireInv, Kinds
<1>10. Held'
  <2> SUFFICES ASSUME NEW w \in Variables
               PROVE  Converted("client", w, copies.client[w])' = copies'.client[w]
    BY DEF Held
  <2>1. Converted("client", w, copies.client[w])' = Converted("client", w, copies'.client[w])
    BY <1>2, ConvertedKept
  <2>2. Converted("client", w, copies'.client[w]) = copies'.client[w]
    <3>1. CASE w = var
      BY <1>4, <1>7, <3>1
    <3>2. CASE w # var
      BY <1>7, <3>2 DEF WireInv, Held
    <3> QED
      BY <3>1, <3>2
  <2> QED
    BY <2>1, <2>2
<1>11. Quiet'
  BY <1>2 DEF Quiet
<1>12. OneCall'
  <2> DEFINE W == Asks(ReplyActions)
  <2>1. /\ Silent(toServer, W) => Silent(toServer', W)
        /\ \A y : Only(toServer, W, y) => Only(toServer', W, y)
    <3>1. m \notin W
      BY <1>6
    <3> HIDE DEF W
    <3>2. CASE toServer' = Append(toServer, m)
      BY <1>1, <1>8, <3>1, <3>2, WhenSent
    <3>3. CASE toServer' = toServer
      BY <3>3
    <3> QED
      BY <1>1, <3>2, <3>3
  <2> QED
    BY <1>2, <2>1 DEF WireInv, OneCall
<1>13. AllArrive'
  <2> SUFFICES ASSUME NEW w \in Variables \ {"sphereCount"} PROVE Arrives(w)'
    BY DEF AllArrive
  <2>0. Arrives(w)
    BY <1>2 DEF WireInv, AllArrive
  <2>1. CASE w = var /\ toServer' = Append(toServer, m)
    <3>1. copies'.client[w] = c
      BY <1>7, <2>1
    <3>2. Settles(toServer', Updates(var, VariableValues), Updates(var, {c}))
      BY <1>1, <1>8, <2>1, WhenSent
    <3> QED
      BY <2>1, <3>1, <3>2 DEF Arrives
  <2>2. CASE w # var \/ toServer' # Append(toServer, m)
    <3> DEFINE W == Updates(w, VariableValues)
               V == Updates(w, {copies.client[w]})
    <3>1. copies'.client[w] = copies.client[w] /\ copies'.server[w] = copies.server[w]
      BY <1>1, <1>3, <1>7, <2>2
    <3>2. /\ Settles(toServer, W, V) => Settles(toServer', W, V)
          /\ Silent(toServer, W) => Silent(toServer', W)
      <4>1. CASE toServer' = toServer
        BY <4>1
      <4>2. CASE toServer' = Append(toServer, m)
        <5>1. m \notin W
          BY <1>6, <2>2, <4>2
        <5> HIDE DEF V, W
        <5> QED
          BY <1>1, <1>8, <4>2, <5>1, WhenSent
      <4> QED
        BY <1>1, <4>1, <4>2
    <3>3. Converted("server", w, copies.client[w])' = Converted("server", w, copies.client[w])
      BY <1>2, <3>1, ConvertedKept
    <3> QED
      BY <1>2, <2>0, <3>1, <3>2, <3>3 DEF Arrives
  <2> QED
    BY <2>1, <2>2
<1>14. Counting'
  <2> DEFINE W == Updates("sphereCount", VariableValues)
             V == W \ Updates("sphereCount", {1})
             A == Asks(Actions)
  <2>1. m \notin W /\ m \notin V
    BY <1>6, VariableNames
  <2>2. /\ Silent(toServer, W) => Silent(toServer', W)
        /\ Silent(toServer, V) => Silent(toServer', V)
        /\ NotBefore(toServer, A, W) => NotBefore(toServer', A, W)
    <3> HIDE DEF V, W, A
    <3>1. CASE toServer' = Append(toServer, m)
      BY <1>1, <1>8, <2>1, <3>1, WhenSent
    <3>2. CASE toServer' = toServer
      BY <3>2
    <3> QED
      BY <1>1, <3>1, <3>2
  <2>3. /\ copies'.client.sphereCount = copies.client.sphereCount
        /\ copies'.server.sphereCount = copies.server.sphereCount
    BY <1>7, VariableNames
  <2>4. Opening'
    BY <1>2, <2>2 DEF WireInv, Counting, Opening
  <2>5. (CountsOpen \/ CountsFollow)'
    BY <1>2, <2>2, <2>3 DEF WireInv, Counting, CountsOpen, CountsFollow
  <2> QED
    BY <2>4, <2>5 DEF Counting
<1>15. Understood'
  BY <1>2 DEF WireInv, Understood
<1> QED
  BY <1>9, <1>10, <1>11, <1>12, <1>13, <1>14, <1>15 DEF WireInv

\* The server receives a request.
LEMMA ReceiveKeeps ==
  ASSUME WireInv, ReceiveRequest
  PROVE  WireInv'
<1> DEFINE m == Head(toServer)
           x == ItemOf(m)
<1>1. /\ toServer # <<>> /\ toServer' = Tail(toServer) /\ m \in Requests
      /\ \/ m \in Asks(StepActions) /\ items' = items /\ Understood'
         \/ x \in Items /\ items' = Append(items, x) /\ heard' = heard
  BY WhenReceived DEF WireInv
<1>2. /\ scalar' = scalar /\ ready' = ready /\ waitsFor' = waitsFor /\ toClient' = toClient
      /\ copies' = copies
  BY DEF ReceiveRequest
<1>3. toServer \in Seq(Requests) /\ items \in Seq(Items)
  BY DEF WireInv, Kinds
<1>4. /\ \A var \in Variables, V \in SUBSET Nat : m \in Updates(var, V) => x \in UpdateItems(var, V)
      /\ \A var \in Variables : m \notin Updates(var, VariableValues) => x \notin UpdateItems(var, VariableValues)
      /\ \A A \in SUBSET Actions : m \notin Asks(A) => x \notin AskItems(A)
      /\ \A action \in Actions : m = Ask(action) => x = AskItem(action)
  BY <1>1, ItemFacts
<1>5. /\ \A var \in Variables, V \in SUBSET Nat :
           m \in Asks(StepActions) => m \notin Updates(var, V)
      /\ m \in Asks(StepActions) => m \notin Asks(ReplyActions)
  <2> SUFFICES ASSUME m \in Asks(StepActions)
               PROVE  /\ \A var \in Variables, V \in SUBSET Nat : m \notin Updates(var, V)
                      /\ m \notin Asks(ReplyActions)
    OBVIOUS
  <2>1. PICK action \in StepActions : m = Ask(action)
    BY DEF Asks
  <2>2. action \in Actions \ ReplyActions /\ ReplyActions \in SUBSET Actions
    BY DEF Actions, StepActions, ReplyActions, CountActions, CounterActions, EnergyActions
  <2> HIDE DEF m
  <2> QED
    BY <2>1, <2>2, RequestsApart
<1> HIDE DEF m, x
<1>6. Kinds'
  <2>1. toServer' \in Seq(Requests)
    BY <1>1, <1>3, HeadTailProperties
  <2>2. x \in Items => Append(items, x) \in Seq(Items)
    BY <1>3, AppendProperties
  <2>3. items' \in Seq(Items)
    BY <1>1, <1>3, <2>2
  <2> QED
    BY <1>2, <2>1, <2>3 DEF WireInv, Kinds
<1>7. Held'
  BY <1>2, ConvertedKept DEF WireInv, Held
<1>8. ready /\ Quiet'
  BY <1>1, <1>2 DEF WireInv, Quiet
<1>9. OneCall'
  <2> DEFINE W == Asks(ReplyActions)
             U == AskItems(ReplyActions)
  <2>1. /\ Silent(toServer, W) => m \notin W /\ Silent(toServer', W)
        /\ \A y : Only(toServer, W, y) => \/ m = y /\ Silent(toServer', W)
                                          \/ m \notin W /\ Only(toServer', W, y)
    <3> HIDE DEF W
    <3> QED
      BY <1>1, <1>3, WhenTaken DEF m
  <2>2. m \notin W => /\ Silent(items, U) => Silent(items', U)
                      /\ \A y : Only(items, U, y) => Only(items', U, y)
    <3> SUFFICES ASSUME m \notin W, items' # items
                 PROVE  /\ Silent(items, U) => Silent(items', U)
                        /\ \A y : Only(items, U, y) => Only(items', U, y)
      OBVIOUS
    <3>1. x \notin U
      <4>1. ReplyActions \in SUBSET Actions
        BY DEF Actions
      <4> QED
        BY <1>4, <4>1
    <3>2. x \in Items /\ items' = Append(items, x)
      BY <1>1
    <3> HIDE DEF W, U
    <3> QED
      BY <1>3, <3>1, <3>2, WhenSent
  <2>3. CASE waitsFor = "none"
    <3>1. /\ Silent(toServer, W) /\ Silent(items, U)
          /\ Silent(toClient, Acknowledgements(ReplyActions))
      BY <2>3 DEF WireInv, OneCall
    <3>2. Silent(toServer', W) /\ Silent(items', U)
      BY <2>1, <2>2, <3>1
    <3> QED
      BY <1>2, <2>3, <3>1, <3>2 DEF OneCall
  <2>4. CASE waitsFor # "none"
    <3>1. waitsFor \in ReplyActions /\ waitsFor \in Actions
      BY <2>4 DEF WireInv, Kinds, Actions
    <3>2. CASE /\ Only(toServer, W, Ask(waitsFor)) /\ Silent(items, U)
               /\ Silent(toClient, Acknowledgements(ReplyActions))
      <4>1. CASE m = Ask(waitsFor) /\ Silent(toServer', W)
        <5>1. m \in W
          BY <3>1, <4>1 DEF Asks
        <5>2. items' = Append(items, AskItem(waitsFor)) /\ AskItem(waitsFor) \in Items
          BY <1>1, <1>4, <1>5, <3>1, <4>1, <5>1
        <5>3. Only(items', U, AskItem(waitsFor))
          BY <1>3, <3>2, <5>2, WhenSent
        <5> QED
          BY <1>2, <2>4, <3>2, <4>1, <5>3 DEF OneCall
      <4>2. CASE m \notin W /\ Only(toServer', W, Ask(waitsFor))
        BY <1>2, <2>2, <2>4, <3>2, <4>2 DEF OneCall
      <4> QED
        BY <2>1, <3>2, <4>1, <4>2
    <3>3. CASE /\ Silent(toServer, W) /\ Only(items, U, AskItem(waitsFor))
               /\ Silent(toClient, Acknowledgements(ReplyActions))
      <4>1. Silent(toServer', W) /\ Only(items', U, AskItem(waitsFor))
        BY <2>1, <2>2, <3>3
      <4> QED
        BY <1>2, <2>4, <3>3, <4>1 DEF OneCall
    <3>4. CASE /\ Silent(toServer, W) /\ Silent(items, U)
               /\ Only(toClient, Acknowledgements(ReplyActions), Acknowledgement(waitsFor))
      <4>1. Silent(toServer', W) /\ Silent(items', U)
        BY <2>1, <2>2, <3>4
      <4> QED
        BY <1>2, <2>4, <3>4, <4>1 DEF OneCall
    <3> QED
      BY <2>4, <3>2, <3>3, <3>4 DEF WireInv, OneCall
  <2> QED
    BY <2>3, <2>4
<1>10. AllArrive'
  <2> SUFFICES ASSUME NEW var \in Variables \ {"sphereCount"} PROVE Arrives(var)'
    BY DEF AllArrive
  <2> DEFINE value == copies.client[var]
             W == Updates(var, VariableValues)
             V == Updates(var, {value})
             Wi == UpdateItems(var, VariableValues)
             Vi == UpdateItems(var, {value})
  <2>1. Arrives(var)
    BY <1>8 DEF WireInv, AllArrive
  <2>2. value \in Nat /\ value \in VariableValues
    BY ValuesFacts DEF WireInv, Kinds
  <2>3. /\ Settles(toServer, W, V) => Settles(toServer', W, V) \/ (m \in V /\ Silent(toServer', W))
        /\ Silent(toServer, W) => m \notin W /\ Silent(toServer', W)
    <3> HIDE DEF W, V
    <3> QED
      BY <1>1, <1>3, WhenTaken DEF m
  <2>4. m \in V => Settles(items', Wi, Vi)
    <3> SUFFICES ASSUME m \in V PROVE Settles(items', Wi, Vi)
      OBVIOUS
    <3>1. x \in Vi
      BY <1>4, <2>2
    <3>2. m \notin Asks(StepActions)
      BY <1>5, <2>2
    <3>3. items' = Append(items, x) /\ x \in Items
      BY <1>1, <3>2
    <3> HIDE DEF Wi, Vi
    <3> QED
      BY <1>3, <3>1, <3>3, WhenSent
  <2>5. m \notin W => /\ Settles(items, Wi, Vi) => Settles(items', Wi, Vi)
                      /\ Silent(items, Wi) => Silent(items', Wi)
    <3> SUFFICES ASSUME m \notin W, items' # items
                 PROVE  /\ Settles(items, Wi, Vi) => Settles(items', Wi, Vi)
                        /\ Silent(items, Wi) => Silent(items', Wi)
      OBVIOUS
    <3>1. x \notin Wi
      BY <1>4
    <3>2. x \in Items /\ items' = Append(items, x)
      BY <1>1
    <3> HIDE DEF Wi, Vi
    <3> QED
      BY <1>3, <3>1, <3>2, WhenSent
  <2>6. Converted("server", var, copies.client[var])' = Converted("server", var, copies.client[var])
    BY <1>2, ConvertedKept
  <2>7. copies'.client[var] = value /\ copies'.server[var] = copies.server[var]
    BY <1>2
  <2>8. CASE Settles(toServer, W, V)
    BY <2>3, <2>4, <2>7, <2>8 DEF Arrives
  <2>9. CASE ~Settles(toServer, W, V)
    BY <2>1, <2>3, <2>5, <2>6, <2>7, <2>9 DEF Arrives
  <2> QED
    BY <2>8, <2>9
<1>11. Counting'
  <2> DEFINE W == Updates("sphereCount", VariableValues)
             V == W \ Updates("sphereCount", {1})
             A == Asks(Actions)
             Wi == UpdateItems("sphereCount", VariableValues)
             Vi == Wi \ UpdateItems("sphereCount", {1})
             Ai == AskItems(Actions)
  <2>1. /\ Silent(toServer, V) /\ Silent(items, Vi)
        /\ NotBefore(toServer, A, W) /\ NotBefore(items, Ai, Wi)
        /\ Silent(toServer, W) \/ Silent(items, Ai)
    BY DEF WireInv, Counting, Opening
  <2>2. /\ m \notin V /\ Silent(toServer', V)
        /\ NotBefore(toServer', A, W) /\ (m \in A => Silent(toServer', W))
        /\ Silent(toServer, W) => m \notin W /\ Silent(toServer', W)
    <3> HIDE DEF W, V, A
    <3> QED
      BY <1>1, <1>3, <2>1, WhenTaken DEF m
  <2>3. /\ m \notin W => x \notin Wi
        /\ x \notin Vi
        /\ m \notin A => x \notin Ai
    <3>1. m \notin W => x \notin Wi
      BY <1>4, VariableNames
    <3>2. m \in Updates("sphereCount", {1}) => x \in UpdateItems("sphereCount", {1})
      BY <1>4, VariableNames
    <3>3. m \notin A => x \notin Ai
      BY <1>4
    <3> QED
      BY <2>2, <3>1, <3>2, <3>3
  <2> HIDE DEF W, V, A, Wi, Vi, Ai
  <2>4. Silent(items', Vi)
    <3>1. CASE items' = items
      BY <2>1, <3>1
    <3>2. CASE x \in Items /\ items' = Append(items, x)
      BY <1>3, <2>1, <2>3, <3>2, WhenSent
    <3> QED
      BY <1>1, <3>1, <3>2
  <2>5. /\ m \notin W => (Silent(items, Wi) => Silent(items', Wi))
        /\ m \notin A => (Silent(items, Ai) => Silent(items', Ai))
    <3>1. CASE items' = items
      BY <3>1
    <3>2. CASE x \in Items /\ items' = Append(items, x)
      BY <1>3, <2>3, <3>2, WhenSent
    <3> QED
      BY <1>1, <3>1, <3>2
  <2>6. NotBefore(items', Ai, Wi)
    <3>1. CASE items' = items
      BY <2>1, <3>1
    <3>2. CASE x \in Items /\ items' = Append(items, x)
      <4>1. x \notin Wi \/ Silent(items, Ai)
        BY <2>1, <2>2, <2>3
      <4> QED
        BY <1>3, <2>1, <3>2, <4>1, WhenSent
    <3> QED
      BY <1>1, <3>1, <3>2
  <2>7. Silent(toServer', W) \/ Silent(items', Ai)
    BY <2>1, <2>2, <2>5
  <2>8. Opening'
    BY <2>2, <2>4, <2>6, <2>7 DEF Opening, W, V, A, Wi, Vi, Ai
  <2>9. CASE CountsOpen
    <3>1. CountsOpen'
      BY <1>2, <2>9 DEF CountsOpen
    <3> QED
      BY <2>8, <3>1 DEF Counting
  <2>10. CASE CountsFollow
    <3>1. Silent(toServer, W) /\ Silent(items, Wi)
      BY <2>10 DEF CountsFollow, W, Wi
    <3>2. Silent(toServer', W) /\ Silent(items', Wi)
      BY <2>2, <2>5, <3>1
    <3>3. CountsFollow'
      BY <1>2, <2>10, <3>2 DEF CountsFollow, W, Wi
    <3> QED
      BY <2>8, <3>3 DEF Counting
  <2> QED
    BY <2>9, <2>10 DEF WireInv, Counting
<1>12. Understood'
  BY <1>1 DEF WireInv, Understood
<1> QED
  BY <1>6, <1>7, <1>8, <1>9, <1>10, <1>11, <1>12 DEF WireInv

\* The worker handles an update.
LEMMA UpdateKeeps ==
  ASSUME WireInv, HandleVariable
  PROVE  WireInv'
<1> DEFINE h == Head(items)
<1>1. /\ items # <<>> /\ items' = Tail(items) /\ Understood'
      /\ \E var \in Variables : h \in UpdateItems(var, VariableValues)
      /\ \A var \in Variables, V \in SUBSET VariableValues :
           h \in UpdateItems(var, V)
             => \E value \in V : copies' = [copies EXCEPT !["server"][var]
                                              = Converted("server", var, value)]
  BY WhenUpdated DEF WireInv
<1>2. /\ scalar' = scalar /\ ready' = ready /\ waitsFor' = waitsFor /\ toClient' = toClient
      /\ toServer' = toServer
  BY DEF HandleVariable
<1>3. items \in Seq(Items) /\ copies \in [{"client", "server"} -> [Variables -> VariableValues]]
  BY DEF WireInv, Kinds
<1>4. PICK w \in Variables : h \in UpdateItems(w, VariableValues)
  BY <1>1
<1>5. /\ h \notin AskItems(ReplyActions) /\ h \notin AskItems(Actions)
      /\ \A var \in Variables \ {w} : h \notin UpdateItems(var, VariableValues)
  <2>1. PICK type \in VariableTypes, value \in VariableValues : h = UpdateItem(type, w, value)
    BY <1>4 DEF UpdateItems
  <2>2. value \in Nat /\ ReplyActions \in SUBSET Actions
    BY ValuesFacts DEF Actions
  <2> HIDE DEF h
  <2>3. h \notin AskItems(ReplyActions) /\ h \notin AskItems(Actions)
    BY <2>1, <2>2, RequestsApart
  <2>4. \A var \in Variables \ {w} : h \notin UpdateItems(var, VariableValues)
    BY <2>1, <2>2, UpdatesApart, ValuesFacts
  <2> QED
    BY <2>3, <2>4
<1> HIDE DEF h
<1>6. ASSUME NEW V \in SUBSET VariableValues, h \in UpdateItems(w, V)
      PROVE  \E value \in V :
               /\ copies' \in [{"client", "server"} -> [Variables -> VariableValues]]
               /\ \A t \in {"client", "server"}, u \in Variables :
                    copies'[t][u] = IF t = "server" /\ u = w THEN Converted("server", w, value)
                                    ELSE copies[t][u]
  <2>1. PICK value \in V : copies' = [copies EXCEPT !["server"][w]
                                        = Converted("server", w, value)]
    BY <1>1, <1>6
  <2>2. Converted("server", w, value) \in VariableValues
    BY ConvertedFacts DEF WireInv, Kinds
  <2>3. ASSUME NEW c \in VariableValues
        PROVE  LET e == [copies EXCEPT !["server"][w] = c]
               IN  /\ e \in [{"client", "server"} -> [Variables -> VariableValues]]
                   /\ \A t \in {"client", "server"}, u \in Variables :
                        e[t][u] = IF t = "server" /\ u = w THEN c ELSE copies[t][u]
    BY <1>3, CopySet
  <2>4. /\ copies' \in [{"client", "server"} -> [Variables -> VariableValues]]
        /\ \A t \in {"client", "server"}, u \in Variables :
             copies'[t][u] = IF t = "server" /\ u = w THEN Converted("server", w, value)
                             ELSE copies[t][u]
    BY <2>1, <2>2, <2>3
  <2> QED
    BY <2>4
<1>7. /\ copies' \in [{"client", "server"} -> [Variables -> VariableValues]]
      /\ \A t \in {"client", "server"}, u \in Variables :
           (t = "server" /\ u = w) \/ copies'[t][u] = copies[t][u]
  BY <1>4, <1>6
<1>8. Kinds'
  <2>1. items' \in Seq(Items)
    BY <1>1, <1>3, HeadTailProperties
  <2> QED
    BY <1>2, <1>7, <2>1 DEF WireInv, Kinds
<1>9. Held'
  <2> SUFFICES ASSUME NEW u \in Variables
               PROVE  Converted("client", u, copies.client[u])' = copies'.client[u]
    BY DEF Held
  <2>1. copies'.client[u] = copies.client[u]
    BY <1>7
  <2> QED
    BY <1>2, <2>1, ConvertedKept DEF WireInv, Held
<1>10. ready /\ Quiet'
  BY <1>1, <1>2 DEF WireInv, Quiet
<1>11. OneCall'
  <2> DEFINE U == AskItems(ReplyActions)
  <2>1. /\ Silent(items, U) => Silent(items', U)
        /\ \A y : Only(items, U, y) => \/ h = y /\ Silent(items', U)
                                       \/ h \notin U /\ Only(items', U, y)
    <3> HIDE DEF U
    <3> QED
      BY <1>1, <1>3, WhenTaken DEF h
  <2>2. waitsFor # "none" => AskItem(waitsFor) # h
    <3>1. waitsFor # "none" => AskItem(waitsFor) \in U
      BY DEF WireInv, Kinds, AskItems
    <3> QED
      BY <1>5, <3>1
  <2> QED
    BY <1>2, <2>1, <2>2 DEF WireInv, OneCall
<1>12. AllArrive'
  <2> SUFFICES ASSUME NEW var \in Variables \ {"sphereCount"} PROVE Arrives(var)'
    BY DEF AllArrive
  <2> DEFINE value == copies.client[var]
             Wi == UpdateItems(var, VariableValues)
             Vi == UpdateItems(var, {value})
  <2>1. Arrives(var)
    BY <1>10 DEF WireInv, AllArrive
  <2>2. /\ Settles(items, Wi, Vi) => Settles(items', Wi, Vi) \/ (h \in Vi /\ Silent(items', Wi))
        /\ Silent(items, Wi) => h \notin Wi /\ Silent(items', Wi)
    <3> HIDE DEF Wi, Vi
    <3> QED
      BY <1>1, <1>3, WhenTaken DEF h
  <2>3. copies'.client[var] = value /\ value \in VariableValues
    BY <1>3, <1>7
  <2>4. h \in Vi => copies'.server[var] = Converted("server", var, value)
    <3> SUFFICES ASSUME h \in Vi PROVE copies'.server[var] = Converted("server", var, value)
      OBVIOUS
    <3>1. h \in UpdateItems(var, VariableValues)
      BY <2>3 DEF UpdateItems
    <3>2. var = w
      BY <1>5, <3>1
    <3> QED
      BY <1>6, <2>3, <3>2
  <2>5. h \notin Wi => copies'.server[var] = copies.server[var]
    BY <1>4, <1>7
  <2>6. Converted("server", var, copies.client[var])' = Converted("server", var, value)
    BY <1>2, <2>3, ConvertedKept
  <2> QED
    BY <1>2, <2>1, <2>2, <2>3, <2>4, <2>5, <2>6 DEF Arrives
<1>13. Counting'
  <2> DEFINE W == Updates("sphereCount", VariableValues)
             Wi == UpdateItems("sphereCount", VariableValues)
             Vi == Wi \ UpdateItems("sphereCount", {1})
             Ai == AskItems(Actions)
  <2>1. /\ Silent(items, Vi) /\ NotBefore(items, Ai, Wi)
        /\ Silent(toServer, W) \/ Silent(items, Ai)
    BY DEF WireInv, Counting, Opening
  <2>2. /\ h \notin Vi /\ Silent(items', Vi) /\ NotBefore(items', Ai, Wi)
        /\ Silent(items, Ai) => Silent(items', Ai)
        /\ Silent(items, Wi) => h \notin Wi /\ Silent(items', Wi)
    <3> HIDE DEF Wi, Vi, Ai
    <3> QED
      BY <1>1, <1>3, <2>1, WhenTaken DEF h
  <2>3. Opening'
    BY <1>2, <2>1, <2>2 DEF WireInv, Counting, Opening
  <2>4. copies'.client.sphereCount = copies.client.sphereCount
    BY <1>7, VariableNames
  <2>5. CASE CountsOpen
    <3>1. copies'.server.sphereCount = 1
      <4>1. CASE w = "sphereCount"
        <5>1. h \in UpdateItems(w, {1}) /\ {1} \in SUBSET VariableValues
          BY <1>4, <2>2, <4>1, ValuesFacts
        <5>2. copies'["server"][w] = Converted("server", w, 1)
          BY <1>6, <5>1
        <5>3. Converted("server", "sphereCount", 1) = 1
          BY <5>1, VariableNames, ConvertedFacts DEF WireInv, Kinds
        <5> QED
          BY <4>1, <5>2, <5>3
      <4>2. CASE w # "sphereCount"
        BY <1>7, <2>5, <4>2, VariableNames DEF CountsOpen
      <4> QED
        BY <4>1, <4>2
    <3>2. CountsOpen'
      BY <1>2, <2>4, <2>5, <3>1 DEF CountsOpen
    <3> QED
      BY <2>3, <3>2 DEF Counting
  <2>6. CASE CountsFollow
    <3>1. h \notin Wi /\ Silent(items', Wi)
      BY <2>2, <2>6 DEF CountsFollow
    <3>2. copies'.server.sphereCount = copies.server.sphereCount
      BY <1>4, <1>7, <3>1, VariableNames
    <3>3. CountsFollow'
      BY <1>2, <2>4, <2>6, <3>1, <3>2 DEF CountsFollow
    <3> QED
      BY <2>3, <3>3 DEF Counting
  <2> QED
    BY <2>5, <2>6 DEF WireInv, Counting
<1> QED
  BY <1>1, <1>8, <1>9, <1>10, <1>11, <1>12, <1>13 DEF WireInv

\* The worker handles another action.
LEMMA HandleKeeps ==
  ASSUME WireInv, HandleAction
  PROVE  WireInv'
<1> DEFINE h == Head(items)
<1>1. /\ items # <<>> /\ items' = Tail(items) /\ Understood'
      /\ \E action \in Actions \ StepActions, n \in VariableValues, between \in Seq(ReplyMessages) :
           /\ h = AskItem(action)
           /\ copies' = [copies EXCEPT !["server"]["sphereCount"] = n]
           /\ \/ between = toClient /\ copies' = copies
              \/ between = Append(toClient, CountReply(n))
           /\ toClient' = IF action \in ReplyActions
                          THEN Append(between, Acknowledgement(action)) ELSE between
  BY WhenHandled DEF WireInv
<1>2. /\ scalar' = scalar /\ ready' = ready /\ waitsFor' = waitsFor /\ toServer' = toServer
  BY DEF HandleAction
<1>3. PICK action \in Actions \ StepActions, n \in VariableValues, between \in Seq(ReplyMessages) :
           /\ h = AskItem(action)
           /\ copies' = [copies EXCEPT !["server"]["sphereCount"] = n]
           /\ \/ between = toClient /\ copies' = copies
              \/ between = Append(toClient, CountReply(n))
           /\ toClient' = IF action \in ReplyActions
                          THEN Append(between, Acknowledgement(action)) ELSE between
  BY <1>1
<1>4. /\ items \in Seq(Items) /\ toClient \in Seq(ReplyMessages)
      /\ copies \in [{"client", "server"} -> [Variables -> VariableValues]]
  BY DEF WireInv, Kinds
<1>5. /\ h \in AskItems(Actions)
      /\ \A var \in Variables : h \notin UpdateItems(var, VariableValues)
      /\ action \in ReplyActions <=> h \in AskItems(ReplyActions)
  <2>1. ReplyActions \in SUBSET Actions
    BY DEF Actions
  <2> HIDE DEF h
  <2> QED
    BY <1>3, <2>1, RequestsApart, ValuesFacts DEF AskItems
<1> HIDE DEF h
<1>6. /\ copies' \in [{"client", "server"} -> [Variables -> VariableValues]]
      /\ \A t \in {"client", "server"}, u \in Variables :
           copies'[t][u] = IF t = "server" /\ u = "sphereCount" THEN n ELSE copies[t][u]
  BY <1>3, <1>4, VariableNames, CopySet
<1>7. /\ n \in Nat /\ CountReply(n) \in ReplyMessages /\ CountReply(n) \in CountReplies(VariableValues)
      /\ CountReply(n) \notin Acknowledgements(ReplyActions)
      /\ CountReply(n) \in CountReplies({n})
  BY ValuesFacts, RepliesApart DEF ReplyMessages, CountReplies
<1>8. action \in ReplyActions => /\ Acknowledgement(action) \in ReplyMessages
                                 /\ Acknowledgement(action) \notin CountReplies(VariableValues)
  BY AcknowledgementFacts, RepliesApart, ValuesFacts
<1>9. Kinds'
  <2>1. items' \in Seq(Items)
    BY <1>1, <1>4, HeadTailProperties
  <2>2. toClient' \in Seq(ReplyMessages)
    BY <1>3, <1>8, AppendProperties
  <2> QED
    BY <1>2, <1>6, <2>1, <2>2 DEF WireInv, Kinds
<1>10. Held'
  <2> SUFFICES ASSUME NEW u \in Variables
               PROVE  Converted("client", u, copies.client[u])' = copies'.client[u]
    BY DEF Held
  <2>1. copies'.client[u] = copies.client[u]
    BY <1>6
  <2> QED
    BY <1>2, <2>1, ConvertedKept DEF WireInv, Held
<1>11. ready /\ Quiet'
  BY <1>1, <1>2 DEF WireInv, Quiet
<1>12. OneCall'
  <2> DEFINE U == AskItems(ReplyActions)
             W == Acknowledgements(ReplyActions)
  <2>1. /\ Silent(items, U) => h \notin U /\ Silent(items', U)
        /\ \A y : Only(items, U, y) => \/ h = y /\ Silent(items', U)
                                       \/ h \notin U /\ Only(items', U, y)
    <3> HIDE DEF U
    <3> QED
      BY <1>1, <1>4, WhenTaken DEF h
  <2>2. /\ Silent(toClient, W) => Silent(between, W)
        /\ \A y : Only(toClient, W, y) => Only(between, W, y)
    <3>1. CASE between = toClient
      BY <3>1
    <3>2. CASE between = Append(toClient, CountReply(n))
      <4>1. CountReply(n) \notin W
        BY <1>7
      <4> HIDE DEF W
      <4> QED
        BY <1>4, <1>7, <3>2, <4>1, WhenSent
    <3> QED
      BY <1>3, <3>1, <3>2
  <2>3. CASE action \in ReplyActions
    <3>1. h \in U
      BY <1>5, <2>3
    <3>2. /\ waitsFor # "none" /\ Silent(toServer, Asks(ReplyActions))
          /\ Only(items, U, AskItem(waitsFor)) /\ Silent(toClient, W)
      BY <2>1, <3>1 DEF WireInv, OneCall
    <3>3. h = AskItem(waitsFor) /\ Silent(items', U)
      BY <2>1, <3>1, <3>2
    <3>4. action = waitsFor
      BY <1>3, <3>3 DEF AskItem
    <3>5. Only(toClient', W, Acknowledgement(waitsFor))
      <4>1. toClient' = Append(between, Acknowledgement(waitsFor)) /\ Silent(between, W)
        BY <1>3, <2>2, <2>3, <3>2, <3>4
      <4>2. Acknowledgement(waitsFor) \in ReplyMessages
        BY <1>8, <2>3, <3>4
      <4> HIDE DEF W
      <4> QED
        BY <4>1, <4>2, WhenSent
    <3> QED
      BY <1>2, <3>2, <3>3, <3>5 DEF OneCall
  <2>4. CASE action \notin ReplyActions
    <3>1. h \notin U /\ toClient' = between
      BY <1>3, <1>5, <2>4
    <3>2. \A y : Only(items, U, y) /\ h # y => Only(items', U, y)
      BY <2>1
    <3>3. waitsFor # "none" => AskItem(waitsFor) # h
      <4>1. waitsFor # "none" => AskItem(waitsFor) \in U
        BY DEF WireInv, Kinds, AskItems
      <4> QED
        BY <3>1, <4>1
    <3> QED
      BY <1>2, <2>1, <2>2, <3>1, <3>2, <3>3 DEF WireInv, OneCall
  <2> QED
    BY <2>3, <2>4
<1>13. AllArrive'
  <2> SUFFICES ASSUME NEW var \in Variables \ {"sphereCount"} PROVE Arrives(var)'
    BY DEF AllArrive
  <2> DEFINE value == copies.client[var]
             Wi == UpdateItems(var, VariableValues)
             Vi == UpdateItems(var, {value})
  <2>1. Arrives(var)
    BY <1>11 DEF WireInv, AllArrive
  <2>2. value \in VariableValues /\ h \notin Wi /\ h \notin Vi
    <3>1. value \in VariableValues
      BY <1>4
    <3>2. h \notin Wi
      BY <1>5
    <3>3. Vi \subseteq Wi
      BY <3>1 DEF UpdateItems
    <3> QED
      BY <3>1, <3>2, <3>3
  <2>3. /\ Settles(items, Wi, Vi) => Settles(items', Wi, Vi)
        /\ Silent(items, Wi) => Silent(items', Wi)
    <3> HIDE DEF Wi, Vi
    <3> QED
      BY <1>1, <1>4, <2>2, WhenTaken DEF h
  <2>4. copies'.client[var] = value /\ copies'.server[var] = copies.server[var]
    BY <1>6
  <2>5. Converted("server", var, copies.client[var])' = Converted("server", var, value)
    BY <1>2, <2>4, ConvertedKept
  <2> QED
    BY <1>2, <2>1, <2>3, <2>4, <2>5 DEF Arrives
<1>14. Counting'
  <2> DEFINE W == Updates("sphereCount", VariableValues)
             Wi == UpdateItems("sphereCount", VariableValues)
             Vi == Wi \ UpdateItems("sphereCount", {1})
             Ai == AskItems(Actions)
             C == CountReplies(VariableValues)
             S == CountReplies({copies.server.sphereCount})
  <2>1. /\ Silent(items, Vi) /\ NotBefore(items, Ai, Wi)
        /\ Silent(toServer, W) \/ Silent(items, Ai)
    BY DEF WireInv, Counting, Opening
  <2>2. h \in Ai
    BY <1>5
  <2>3. /\ Silent(items', Vi) /\ NotBefore(items', Ai, Wi) /\ Silent(items', Wi)
        /\ ~Silent(items, Ai)
    <3> HIDE DEF Wi, Vi, Ai
    <3> QED
      BY <1>1, <1>4, <2>1, <2>2, WhenTaken DEF h
  <2>4. Silent(toServer', W)
    BY <1>2, <2>1, <2>3
  <2>5. Opening'
    BY <1>2, <2>3, <2>4 DEF WireInv, Counting, Opening
  <2>6. /\ copies'.client.sphereCount = copies.client.sphereCount
        /\ copies'.server.sphereCount = n
    BY <1>6, VariableNames
  <2>7. \/ Settles(toClient, C, S)
        \/ Silent(toClient, C) /\ copies.client.sphereCount = copies.server.sphereCount
    BY DEF WireInv, Counting, CountsOpen, CountsFollow
  <2> DEFINE T == CountReplies({n})
  <2>8. \/ Settles(between, C, T)
        \/ Silent(between, C) /\ copies'.client.sphereCount = n
    <3>1. CASE between = toClient /\ copies' = copies
      BY <2>6, <2>7, <3>1
    <3>2. CASE between = Append(toClient, CountReply(n))
      <4>1. CountReply(n) \in T
        BY <1>7
      <4> HIDE DEF C, T
      <4>2. Settles(between, C, T)
        BY <1>4, <1>7, <3>2, <4>1, WhenSent
      <4> QED
        BY <4>2
    <3> QED
      BY <1>3, <3>1, <3>2
  <2>9. \/ Settles(toClient', C, T)
        \/ Silent(toClient', C) /\ copies'.client.sphereCount = n
    <3>1. CASE action \in ReplyActions
      <4>1. toClient' = Append(between, Acknowledgement(action))
        BY <1>3, <3>1
      <4>2. Acknowledgement(action) \notin C /\ Acknowledgement(action) \in ReplyMessages
        BY <1>8, <3>1
      <4> HIDE DEF C, T
      <4>3. /\ Settles(between, C, T) => Settles(toClient', C, T)
            /\ Silent(between, C) => Silent(toClient', C)
        BY <4>1, <4>2, WhenSent
      <4> QED
        BY <2>8, <4>3
    <3>2. CASE action \notin ReplyActions
      BY <1>3, <2>8, <3>2
    <3> QED
      BY <3>1, <3>2
  <2>10. CountsFollow'
    BY <2>3, <2>4, <2>6, <2>9 DEF CountsFollow
  <2> QED
    BY <2>5, <2>10 DEF Counting
<1> QED
  BY <1>1, <1>9, <1>10, <1>11, <1>12, <1>13, <1>14 DEF WireInv

\* The client reads a message.
LEMMA ReplyKeeps ==
  ASSUME WireInv, ReadReply
  PROVE  WireInv'
<1> DEFINE m == Head(toClient)
           A == Acknowledgements(ReplyActions)
           C == CountReplies(VariableValues)
           S == CountReplies({copies.server.sphereCount})
<1>1. /\ toClient # <<>> /\ toClient' = Tail(toClient)
      /\ \/ m = Frame /\ UNCHANGED <<waitsFor, copies>> /\ Understood'
         \/ /\ m \in C /\ waitsFor' = waitsFor /\ Understood'
            /\ \A n \in VariableValues : m = CountReply(n)
                 => copies' = [copies EXCEPT !["client"]["sphereCount"]
                                 = Converted("client", "sphereCount", n)]
         \/ /\ m \in A /\ waitsFor' = "none" /\ copies' = copies
            /\ waitsFor \in ReplyActions /\ m = Acknowledgement(waitsFor) => Understood'
  BY WhenReplied DEF WireInv
<1>2. scalar' = scalar /\ ready' = ready /\ toServer' = toServer /\ items' = items
  BY DEF ReadReply
<1>3. /\ toClient \in Seq(ReplyMessages)
      /\ copies \in [{"client", "server"} -> [Variables -> VariableValues]]
  BY DEF WireInv, Kinds
<1>4. /\ Silent(toClient, A) => m \notin A /\ Silent(toClient', A)
      /\ \A y : Only(toClient, A, y) => \/ m = y /\ Silent(toClient', A)
                                        \/ m \notin A /\ Only(toClient', A, y)
      /\ Silent(toClient, C) => m \notin C /\ Silent(toClient', C)
      /\ Settles(toClient, C, S) => Settles(toClient', C, S) \/ (m \in S /\ Silent(toClient', C))
  <2> HIDE DEF A, C, S
  <2> QED
    BY <1>1, <1>3, WhenTaken DEF m
<1>5. toClient' \in Seq(ReplyMessages)
  BY <1>1, <1>3, HeadTailProperties
<1>6. /\ Frame \notin A /\ Frame \notin C
      /\ m \in A => m \notin C
      /\ copies.server.sphereCount \in VariableValues
  BY <1>3, RepliesApart, ValuesFacts, VariableNames DEF Acknowledgements
<1>7. S \subseteq C
  BY <1>6 DEF CountReplies
<1> HIDE DEF m
<1>8. ready /\ Quiet'
  BY <1>1, <1>2 DEF WireInv, Quiet
<1>9. waitsFor = "none" \/ waitsFor \in ReplyActions
  BY DEF WireInv, Kinds
<1>10. Opening'
  BY <1>2 DEF WireInv, Counting, Opening
<1>11. m \in A => /\ Understood' /\ Silent(toClient', A)
                  /\ Silent(toServer, Asks(ReplyActions))
                  /\ Silent(items, AskItems(ReplyActions))
  <2> SUFFICES ASSUME m \in A
               PROVE  /\ Understood' /\ Silent(toClient', A)
                      /\ Silent(toServer, Asks(ReplyActions))
                      /\ Silent(items, AskItems(ReplyActions))
    OBVIOUS
  <2>1. /\ waitsFor # "none" /\ Only(toClient, A, Acknowledgement(waitsFor))
        /\ Silent(toServer, Asks(ReplyActions)) /\ Silent(items, AskItems(ReplyActions))
    BY <1>4 DEF WireInv, OneCall
  <2>2. m = Acknowledgement(waitsFor) /\ Silent(toClient', A)
    BY <1>4, <2>1
  <2> QED
    BY <1>1, <1>6, <1>9, <2>1, <2>2
<1>12. Understood'
  BY <1>1, <1>11
<1>13. OneCall'
  <2>1. CASE m \in A
    <3>1. waitsFor' = "none"
      BY <1>1, <1>6, <2>1
    <3> QED
      BY <1>2, <1>11, <2>1, <3>1 DEF OneCall
  <2>2. CASE m \notin A
    <3>1. waitsFor' = waitsFor
      BY <1>1, <2>2
    <3>2. /\ Silent(toClient, A) => Silent(toClient', A)
          /\ waitsFor # "none" => (Only(toClient, A, Acknowledgement(waitsFor))
                                 => Only(toClient', A, Acknowledgement(waitsFor)))
      <4>1. waitsFor # "none" => Acknowledgement(waitsFor) \in A
        BY <1>9 DEF Acknowledgements
      <4> QED
        BY <1>4, <2>2, <4>1
    <3> QED
      BY <1>2, <3>1, <3>2 DEF WireInv, OneCall
  <2> QED
    BY <2>1, <2>2
<1>14. CASE m \in C
  <2>1. PICK n \in VariableValues : m = CountReply(n)
    BY <1>14 DEF CountReplies
  <2>2. ASSUME NEW k \in VariableValues, m = CountReply(k)
        PROVE  /\ copies' \in [{"client", "server"} -> [Variables -> VariableValues]]
               /\ \A t \in {"client", "server"}, u \in Variables :
                    copies'[t][u] = IF t = "client" /\ u = "sphereCount" THEN k
                                    ELSE copies[t][u]
    <3>1. copies' = [copies EXCEPT !["client"]["sphereCount"]
                       = Converted("client", "sphereCount", k)]
      BY <1>1, <1>6, <1>14, <2>2
    <3>2. Converted("client", "sphereCount", k) = k
      BY VariableNames, ConvertedFacts DEF WireInv, Kinds
    <3> QED
      BY <1>3, <3>1, <3>2, VariableNames, CopySet
  <2>3. /\ copies' \in [{"client", "server"} -> [Variables -> VariableValues]]
        /\ \A t \in {"client", "server"}, u \in Variables :
             (t = "client" /\ u = "sphereCount") \/ copies'[t][u] = copies[t][u]
    BY <2>1, <2>2
  <2>4. waitsFor' = waitsFor
    BY <1>1, <1>6, <1>14
  <2>5. Kinds'
    BY <1>2, <1>5, <2>3, <2>4 DEF WireInv, Kinds
  <2>6. Held'
    <3> SUFFICES ASSUME NEW u \in Variables
                 PROVE  Converted("client", u, copies.client[u])' = copies'.client[u]
      BY DEF Held
    <3>1. Converted("client", u, copies.client[u])' = Converted("client", u, copies'.client[u])
      BY <1>2, ConvertedKept
    <3>2. CASE u = "sphereCount"
      <4>1. copies'.client[u] = n
        BY <2>1, <2>2, <3>2
      <4>2. Converted("client", "sphereCount", n) = n
        BY VariableNames, ConvertedFacts DEF WireInv, Kinds
      <4> QED
        BY <3>1, <3>2, <4>1, <4>2
    <3>3. CASE u # "sphereCount"
      BY <2>3, <3>1, <3>3 DEF WireInv, Held
    <3> QED
      BY <3>2, <3>3
  <2>7. AllArrive'
    <3> SUFFICES ASSUME NEW var \in Variables \ {"sphereCount"} PROVE Arrives(var)'
      BY DEF AllArrive
    <3>1. copies'.client[var] = copies.client[var] /\ copies'.server[var] = copies.server[var]
      BY <2>3
    <3>2. Converted("server", var, copies.client[var])' = Converted("server", var, copies.client[var])
      BY <1>2, <3>1, ConvertedKept
    <3>3. Arrives(var)
      BY <1>8 DEF WireInv, AllArrive
    <3> QED
      BY <1>2, <3>1, <3>2, <3>3 DEF Arrives
  <2>8. CountsFollow'
    <3>1. /\ Silent(toServer, Updates("sphereCount", VariableValues))
          /\ Silent(items, UpdateItems("sphereCount", VariableValues))
          /\ Settles(toClient, C, S)
      BY <1>4, <1>14 DEF WireInv, Counting, CountsOpen, CountsFollow
    <3>2. copies'.server.sphereCount = copies.server.sphereCount
      BY <2>3, VariableNames
    <3>3. \/ Settles(toClient', C, S)
          \/ Silent(toClient', C) /\ copies'.client.sphereCount = copies'.server.sphereCount
      <4>1. CASE m \in S
        <5>1. m = CountReply(copies.server.sphereCount)
          BY <4>1 DEF CountReplies
        <5>2. copies'.client.sphereCount = copies.server.sphereCount
          BY <1>6, <2>2, <5>1, VariableNames
        <5> QED
          BY <1>4, <3>1, <3>2, <5>2
      <4>2. CASE m \notin S
        BY <1>4, <3>1, <4>2
      <4> QED
        BY <4>1, <4>2
    <3> QED
      BY <1>2, <3>1, <3>2, <3>3 DEF CountsFollow
  <2>9. Counting'
    BY <1>10, <2>8 DEF Counting
  <2> QED
    BY <1>8, <1>12, <1>13, <2>5, <2>6, <2>7, <2>9 DEF WireInv
<1>15. CASE m \notin C
  <2>1. copies' = copies /\ waitsFor' \in ReplyActions \union {"none"}
    BY <1>1, <1>9, <1>15
  <2>2. Kinds'
    BY <1>2, <1>5, <2>1 DEF WireInv, Kinds
  <2>3. Held'
    BY <1>2, <2>1, ConvertedKept DEF WireInv, Held
  <2>4. AllArrive'
    BY <1>2, <2>1, ConvertedKept DEF WireInv, AllArrive, Arrives
  <2>5. /\ Silent(toClient, C) => Silent(toClient', C)
        /\ Settles(toClient, C, S) => Settles(toClient', C, S)
    BY <1>4, <1>7, <1>15
  <2>6. (CountsOpen \/ CountsFollow)'
    BY <1>2, <2>1, <2>5 DEF WireInv, Counting, CountsOpen, CountsFollow
  <2>7. Counting'
    BY <1>10, <2>6 DEF Counting
  <2> QED
    BY <1>8, <1>12, <1>13, <2>2, <2>3, <2>4, <2>7 DEF WireInv
<1> QED
  BY <1>14, <1>15

-----------------------------------------------------------------------------
(* The theorems *)

\* The invariant holds at the start.
LEMMA WireInvStart ==
  ASSUME WireInit
  PROVE  WireInv
<1>1. /\ scalar \in [{"client", "server"} -> {"float", "double"}]
      /\ ready = FALSE /\ waitsFor = "none" /\ toServer = <<>> /\ toClient = <<>> /\ items = <<>>
      /\ copies = [side \in {"client", "server"} |->
                     [var \in Variables |-> Converted(side, var, 1)]]
      /\ heard = Hear(<<>>, <<>>)
  BY DEF WireInit
<1>2. \A side \in {"client", "server"}, var \in Variables :
        /\ Converted(side, var, 1) \in VariableValues
        /\ Converted(side, var, Converted(side, var, 1)) = Converted(side, var, 1)
        /\ Converted(side, "sphereCount", 1) = 1
  BY <1>1, ValuesFacts, ConvertedFacts
<1>3. Kinds
  <2>1. <<>> \in Seq(Requests) /\ <<>> \in Seq(Items) /\ <<>> \in Seq(ReplyMessages)
    BY EmptySeq
  <2>2. copies \in [{"client", "server"} -> [Variables -> VariableValues]]
    BY <1>1, <1>2
  <2> QED
    BY <1>1, <2>1, <2>2 DEF Kinds
<1>4. Held
  BY <1>1, <1>2 DEF Held
<1>5. copies.client.sphereCount = 1 /\ copies.server.sphereCount = 1
  BY <1>1, <1>2, VariableNames
<1>6. Quiet /\ OneCall /\ AllArrive
  BY <1>1, <1>5, WithoutMessages DEF Quiet, OneCall, AllArrive
<1>7. Counting
  BY <1>1, <1>5, WithoutMessages DEF Counting, Opening, CountsOpen
<1>8. Understood
  <2>1. <<>> \in Seq(Fields) /\ FloatsLast(<<>>, <<>>) /\ Encode(<<>>) = <<>>
    BY EmptySeq, EncodeFacts DEF FloatsLast
  <2>2. Hear(Encode(<<>>), <<>>) = [expected |-> Meant(<<>>), values |-> Meant(<<>>),
                                    left |-> 0, past |-> FALSE]
    BY <2>1, HearEncoded
  <2> QED
    BY <1>1, <2>1, <2>2 DEF Understood
<1> QED
  BY <1>3, <1>4, <1>6, <1>7, <1>8 DEF WireInv

\* Every step keeps it.
LEMMA WireInvStep ==
  ASSUME WireInv, [WireNext]_wireVars
  PROVE  WireInv'
<1>1. CASE WireNext
  BY <1>1, SendAllKeeps, CallKeeps, SetKeeps, ReplyKeeps, ReceiveKeeps, UpdateKeeps,
     HandleKeeps, FrameKeeps DEF WireNext
<1>2. CASE UNCHANGED wireVars
  <2>1. /\ scalar' = scalar /\ ready' = ready /\ waitsFor' = waitsFor /\ toServer' = toServer
        /\ toClient' = toClient /\ items' = items /\ copies' = copies /\ heard' = heard
    BY <1>2 DEF wireVars
  <2>2. Kinds' /\ Quiet' /\ Understood'
    BY <2>1 DEF WireInv, Kinds, Quiet, Understood
  <2>3. OneCall'
    BY <2>1 DEF WireInv, OneCall
  <2>4. Held' /\ AllArrive'
    BY <2>1, ConvertedKept DEF WireInv, Held, AllArrive, Arrives
  <2>5. Counting'
    BY <2>1 DEF WireInv, Counting, Opening, CountsOpen, CountsFollow
  <2> QED
    BY <2>2, <2>3, <2>4, <2>5 DEF WireInv
<1> QED
  BY <1>1, <1>2

\* Whatever the floating types of the two builds, and however requests, settings and
\* frames mix: the invariant of what is under way holds.
LEMMA WireInvariance == WireSpec => []WireInv
<1>1. WireInit => WireInv
  BY WireInvStart
<1>2. WireInv /\ [WireNext]_wireVars => WireInv'
  BY WireInvStep
<1> QED
  BY <1>1, <1>2, PTL DEF WireSpec

\* Every request, reply, frame and variable is read as it was written: each value
\* arrives where it is meant to and no byte is left over.
THEOREM UnderstoodCorrect == WireSpec => []MessagesAreUnderstood
<1>1. WireInv => MessagesAreUnderstood
  BY DEF WireInv, Understood, MessagesAreUnderstood
<1> QED
  BY <1>1, WireInvariance, PTL

\* The longest string is no longer than a buffer has room for, with the two headers.
StringsFit == \A value \in Numbers : value + 15 <= BufferLength

\* No reader stores more bytes than its destination has, and every message fits the
\* buffer, provided that the only string, a version, does.
THEOREM BoundsCorrect ==
  ASSUME StringsFit
  PROVE  WireSpec => []ReadsStayInBounds
<1>1. \A value \in VariableValues : value \in Nat /\ value + 15 <= BufferLength
  <2>1. \A n \in Numbers : n \in Nat
    BY WireFormatAssumption
  <2> QED
    BY <2>1 DEF VariableValues, StringsFit, BufferLength
<1>2. \A m \in Requests : Len(m) <= BufferLength
  <2> SUFFICES ASSUME NEW m \in Requests PROVE Len(m) <= BufferLength
    OBVIOUS
  <2>1. CASE m \in Asks(Actions)
    <3>1. PICK action \in Actions : m = Ask(action)
      BY <2>1 DEF Asks
    <3>2. m \in Seq(AllBytes) /\ Len(m) <= 100
      <4>1. Len(m) <= 100
        BY <3>1, AskFacts
      <4>2. PICK size \in 0 .. 90 : Sized(RequestFields(action), size)
        BY RequestFacts
      <4>3. RequestFields(action) \in Seq(Fields)
        BY <4>2 DEF Sized
      <4> QED
        BY <3>1, <4>1, <4>3, RequestHeader DEF Ask
    <3>3. Len(m) \in Nat
      BY <3>2, LenProperties
    <3> QED
      BY <3>2, <3>3 DEF BufferLength
  <2>2. CASE m \notin Asks(Actions)
    <3>1. PICK type \in VariableTypes, var \in Variables, value \in VariableValues :
            m = Update(type, var, value)
      BY <2>2 DEF Requests, Updates
    <3>2. value \in Nat /\ value + 15 <= BufferLength
      BY <1>1
    <3>3. Len(m) <= 37 \/ Len(m) = 15 + value
      BY <3>1, <3>2, UpdateFacts
    <3>4. FieldsFor(type, var, value) \in Seq(Fields)
      BY <3>2, VariableHeader
    <3>5. m \in Seq(AllBytes)
      BY <3>1, <3>4, RequestHeader DEF Update
    <3>6. Len(m) \in Nat
      BY <3>5, LenProperties
    <3> QED
      BY <3>2, <3>3, <3>6 DEF BufferLength
  <2> QED
    BY <2>1, <2>2
<1>3. \A m \in ReplyMessages : Len(m) <= BufferLength
  <2> SUFFICES ASSUME NEW m \in ReplyMessages PROVE Len(m) <= BufferLength
    OBVIOUS
  <2>1. CASE m = Frame
    BY <2>1, FrameMessageFacts DEF BufferLength
  <2>2. CASE m \in Acknowledgements(ReplyActions)
    <3>1. PICK action \in ReplyActions : m = Acknowledgement(action)
      BY <2>2 DEF Acknowledgements
    <3>2. Len(m) <= 100
      BY <3>1, AcknowledgementFacts
    <3>3. PICK size \in 0 .. 90 : Sized(ReplyFields(action), size)
      BY ReplyFacts
    <3>4. ReplyFields(action) \in Seq(Fields)
      BY <3>3 DEF Sized
    <3>5. m \in Seq(AllBytes)
      BY <3>1, <3>4, ReplyHeader DEF Acknowledgement
    <3>6. Len(m) \in Nat
      BY <3>5, LenProperties
    <3> QED
      BY <3>2, <3>6 DEF BufferLength
  <2>3. CASE m \in CountReplies(VariableValues)
    <3>1. PICK n \in VariableValues : m = CountReply(n)
      BY <2>3 DEF CountReplies
    <3>2. n \in Nat /\ n + 15 <= BufferLength
      BY <1>1
    <3>3. Len(m) <= 37 \/ Len(m) = 15 + n
      BY <3>1, <3>2, CountReplyFacts
    <3>4. FieldsFor("int", "sphereCount", n) \in Seq(Fields)
      <4>1. "int" \in VariableTypes /\ "sphereCount" \in Variables
        BY VariableNames DEF VariableTypes
      <4> QED
        BY <3>2, <4>1, VariableHeader
    <3>5. m \in Seq(AllBytes)
      BY <3>1, <3>4, ReplyHeader DEF CountReply
    <3>6. Len(m) \in Nat
      BY <3>5, LenProperties
    <3> QED
      BY <3>2, <3>3, <3>6 DEF BufferLength
  <2> QED
    BY <2>1, <2>2, <2>3 DEF ReplyMessages
<1>4. WireInv => ReadsStayInBounds
  <2> SUFFICES ASSUME WireInv PROVE ReadsStayInBounds
    OBVIOUS
  <2>1. \A n \in DOMAIN toServer : toServer[n] \in Requests
    BY ElementOfSeq DEF WireInv, Kinds
  <2>2. \A n \in DOMAIN toClient : toClient[n] \in ReplyMessages
    BY ElementOfSeq DEF WireInv, Kinds
  <2>3. ~heard.past
    BY DEF WireInv, Understood
  <2> QED
    BY <1>2, <1>3, <2>1, <2>2, <2>3 DEF ReadsStayInBounds
<1> QED
  BY <1>4, WireInvariance, PTL

\* When nothing is under way, the server has every variable of the client as exactly as
\* its types allow.
THEOREM CopiesAgreeCorrect == WireSpec => []CopiesAgree
<1>1. WireInv => CopiesAgree
  <2> SUFFICES ASSUME WireInv, ready, toServer = <<>>, items = <<>>, toClient = <<>>,
                      NEW var \in Variables
               PROVE  copies.server[var] = Converted("server", var, copies.client[var])
    BY DEF CopiesAgree
  <2>1. CASE var # "sphereCount"
    <3>1. Arrives(var)
      BY <2>1 DEF WireInv, AllArrive
    <3> QED
      BY <3>1, WithoutMessages DEF Arrives
  <2>2. CASE var = "sphereCount"
    <3>1. copies.client.sphereCount = copies.server.sphereCount
      BY WithoutMessages DEF WireInv, Counting, CountsOpen, CountsFollow
    <3>2. copies.client.sphereCount \in VariableValues
      BY VariableNames DEF WireInv, Kinds
    <3>3. Converted("server", "sphereCount", copies.client.sphereCount)
            = copies.client.sphereCount
      BY <3>2, VariableNames, ConvertedFacts DEF WireInv, Kinds
    <3> QED
      BY <2>2, <3>1, <3>3
  <2> QED
    BY <2>1, <2>2
<1> QED
  BY <1>1, WireInvariance, PTL
=============================================================================
