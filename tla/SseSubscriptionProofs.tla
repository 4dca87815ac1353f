----------------------- MODULE SseSubscriptionProofs -----------------------
(***************************************************************************)
(* The safety properties of SseSubscription, for every number of frames,   *)
(* chunk size and number of calls, overlapping or not; and that it         *)
(* implements FrameChannel.                                                *)
(***************************************************************************)
EXTENDS SseSubscription, AsyncQueueProofs

\* The queue's lemmas apply whenever the invariant holds.
LEMMA QueueIsSound == IInv => QueueInv
BY DEF IInv, TypeOK, QueueInv

\* A step that leaves the queue and the frames alone.
LEMMA QuietStep ==
  ASSUME IInv, UNCHANGED <<queueVars, chunk, received>>,
         loop' \in Stage, cause' \in Cause, aborted' \in BOOLEAN,
         aborted => aborted', LoopInv'
  PROVE  IInv'
<1>1. TypeOK' /\ WaiterIsIdle' /\ OneOutcome' /\ FramesInOrder'
  BY DEF IInv, TypeOK, QueueTypeOK, queueVars, WaiterIsIdle, OneOutcome, Told, FramesInOrder
<1>2. ToldInv' /\ EndIsFinal'
  BY DEF IInv, queueVars, ToldInv, Told, EndIsFinal
<1> QED
  BY <1>1, <1>2 DEF IInv

\* A step that finishes.
LEMMA FinishStep ==
  ASSUME IInv, NEW err \in BOOLEAN, Finish(err), UNCHANGED <<chunk, received>>,
         loop' \in Stage, cause' \in Cause, aborted' \in BOOLEAN,
         aborted => aborted', LoopInv'
  PROVE  IInv'
<1>1. /\ QueueInv'
      /\ queue' = queue /\ handed' = handed
      /\ DOMAIN answer' = DOMAIN answer
      /\ \A i \in DOMAIN answer :
           \/ answer'[i] = answer[i]
           \/ i = Len(answer) /\ answer'[i] \in Outcome /\ queue = <<>> /\ ~done
  BY QueueIsSound, FinishEffect
<1>2. TypeOK' /\ WaiterIsIdle' /\ OneOutcome'
  BY <1>1 DEF IInv, TypeOK, QueueInv
<1>3. FramesInOrder'
  BY <1>1 DEF IInv, FramesInOrder
<1>4. ToldInv'
  BY <1>1 DEF IInv, ToldInv, Told
<1>5. EndIsFinal'
  <2>1. answer \in Seq(Answer) /\ DOMAIN answer = 1 .. Len(answer) /\ Len(answer) \in Nat
    BY DEF IInv, TypeOK, QueueTypeOK
  <2>2. SUFFICES ASSUME NEW i \in DOMAIN answer, NEW j \in DOMAIN answer, i < j,
                        answer'[i] \in {"end", "failed"}, answer'[j] = "frame"
                 PROVE  aborted'
    BY <1>1 DEF EndIsFinal
  <2>3. i # Len(answer)
    BY <2>1, <2>2
  <2>4. answer[i] = answer'[i]
    BY <1>1, <2>3
  <2>5. answer[j] = "frame"
    BY <1>1, <2>2 DEF Outcome
  <2> QED
    BY <2>2, <2>4, <2>5 DEF IInv, EndIsFinal
<1> QED
  BY <1>2, <1>3, <1>4, <1>5 DEF IInv
-----------------------------------------------------------------------------
LEMMA InitInv == Init => IInv
<1> SUFFICES ASSUME Init PROVE IInv
  OBVIOUS
<1> USE DEF Init, QueueInit
<1>1. TypeOK
  BY EmptySeq DEF TypeOK, QueueTypeOK, Stage, Cause
<1>2. FramesInOrder
  <2>1. [i \in 1 .. 0 |-> i] = <<>>
    OBVIOUS
  <2>2. <<>> \o <<>> \o <<>> = <<>>
    BY EmptySeq, ConcatEmptySeq
  <2> QED
    BY <2>1, <2>2 DEF FramesInOrder
<1>3. WaiterIsIdle /\ OneOutcome /\ LoopInv /\ ToldInv /\ EndIsFinal
  BY DEF WaiterIsIdle, OneOutcome, Told, LoopInv, ToldInv, EndIsFinal
<1> QED
  BY <1>1, <1>2, <1>3 DEF IInv

LEMMA ArriveInv == IInv /\ Arrive => IInv'
<1> SUFFICES ASSUME IInv, Arrive PROVE IInv'
  OBVIOUS
<1>1. PICK n \in 0 .. MaxChunk : chunk' = Frames(n) /\ received' = received + n
  BY DEF Arrive
<1>2. received \in Nat /\ n \in Nat
  BY DEF IInv, TypeOK
<1>3. chunk = <<>> /\ handed \in Seq(Nat) /\ queue \in Seq(Nat)
  BY DEF IInv, TypeOK, QueueTypeOK, LoopInv, Arrive
<1>4. handed \o queue = [i \in 1 .. received |-> i]
  <2>1. handed \o queue \in Seq(Nat)
    BY <1>3, ConcatProperties
  <2>2. (handed \o queue) \o <<>> = handed \o queue
    BY <2>1, ConcatEmptySeq
  <2> QED
    BY <1>3, <2>2 DEF IInv, FramesInOrder
<1>5. FramesInOrder'
  <2>1. chunk' \in Seq(Nat)
        /\ (handed \o queue) \o chunk' = [i \in 1 .. received + n |-> i]
    BY <1>1, <1>2, <1>4, MoreFrames DEF Frames
  <2> QED
    BY <1>1, <2>1 DEF Arrive, queueVars, FramesInOrder
<1>6. TypeOK'
  <2>1. chunk' \in Seq(Nat) /\ received' \in Nat
    BY <1>1, <1>2, MoreFrames DEF Frames
  <2> QED
    BY <2>1 DEF IInv, TypeOK, QueueTypeOK, Arrive, queueVars, Stage
<1>7. WaiterIsIdle' /\ OneOutcome' /\ LoopInv' /\ ToldInv' /\ EndIsFinal'
  BY DEF IInv, Arrive, queueVars, WaiterIsIdle, OneOutcome, Told, LoopInv, ToldInv, EndIsFinal
<1> QED
  BY <1>5, <1>6, <1>7 DEF IInv

\* While a chunk is held the subscription is open, or it was aborted: an outcome
\* that nobody asked for has not been told.
LEMMA NotToldAtPump ==
  ASSUME IInv, loop = "chunk"
  PROVE  ~Told("failed") /\ (aborted \/ ~Told("end"))
BY DEF IInv, OneOutcome, LoopInv

LEMMA PumpInv == IInv /\ Pump => IInv'
<1> SUFFICES ASSUME IInv, Pump PROVE IInv'
  OBVIOUS
<1>1. chunk \in Seq(Nat) /\ Push(chunk) /\ chunk' = <<>>
  BY DEF IInv, TypeOK, Pump
<1>2. /\ QueueInv'
      /\ handed' \o queue' = (handed \o queue) \o chunk
      /\ done' = done /\ error' = error
      /\ \A x \in Outcome : Told(x)' => Told(x)
  BY <1>1, QueueIsSound, PushEffect
<1>3. ~Told("failed")' /\ (aborted' \/ ~Told("end")')
  BY <1>2, NotToldAtPump DEF Pump, Outcome
<1>4. TypeOK' /\ WaiterIsIdle' /\ OneOutcome'
  BY <1>1, <1>2, EmptySeq DEF IInv, TypeOK, QueueInv, Pump, Stage
<1>5. FramesInOrder'
  <2>1. handed' \o queue' \in Seq(Nat)
    BY <1>2, ConcatProperties DEF QueueInv, QueueTypeOK
  <2>2. (handed' \o queue') \o <<>> = handed' \o queue'
    BY <2>1, ConcatEmptySeq
  <2> QED
    BY <1>1, <1>2, <2>2 DEF IInv, FramesInOrder, Pump
<1>6. LoopInv'
  BY <1>1, <1>2 DEF IInv, LoopInv, Pump
<1>7. ToldInv' /\ EndIsFinal'
  BY <1>3 DEF ToldInv, EndIsFinal, Told
<1> QED
  BY <1>4, <1>5, <1>6, <1>7 DEF IInv

LEMMA TakeInv == IInv /\ Take => IInv'
<1> SUFFICES ASSUME IInv, Take PROVE IInv'
  OBVIOUS
<1>1. /\ QueueInv'
      /\ handed' \o queue' = handed \o queue
      /\ done' = done /\ error' = error
      /\ DOMAIN answer' = 1 .. Len(answer) + 1
      /\ \A i \in 1 .. Len(answer) : answer'[i] = answer[i]
      /\ answer'[Len(answer) + 1] = "frame" => queue # <<>>
      /\ answer'[Len(answer) + 1] \in Outcome => queue = <<>>
      /\ queue = <<>> => queue' = <<>>
  BY QueueIsSound, CallEffect DEF Take
<1>2. TypeOK' /\ WaiterIsIdle' /\ OneOutcome' /\ LoopInv' /\ FramesInOrder'
  BY <1>1 DEF IInv, TypeOK, QueueInv, LoopInv, FramesInOrder, Take, sseVars
<1>3. PICK n \in Nat : n = Len(answer) /\ DOMAIN answer = 1 .. n
  BY DEF IInv, TypeOK, QueueTypeOK
<1>4. ToldInv'
  <2>1. ASSUME NEW x \in Outcome, NEW i \in 1 .. n + 1, answer'[i] = x
        PROVE  Told(x) \/ queue = <<>>
    <3>1. CASE i \in 1 .. n
      BY <3>1, <2>1, <1>1, <1>3 DEF Told
    <3>2. CASE i = n + 1
      BY <3>2, <2>1, <1>1, <1>3
    <3> QED
      BY <3>1, <3>2
  <2>2. \A x \in Outcome : Told(x)' => Told(x) \/ queue = <<>>
    BY <2>1, <1>1, <1>3 DEF Told
  <2> QED
    BY <2>2, <1>1 DEF IInv, ToldInv, Outcome, Take, sseVars
<1>5. EndIsFinal'
  <2>1. SUFFICES ASSUME NEW i \in 1 .. n + 1, NEW j \in 1 .. n + 1, i < j,
                        answer'[i] \in {"end", "failed"}, answer'[j] = "frame"
                 PROVE  aborted'
    BY <1>1, <1>3 DEF EndIsFinal
  <2>2. i \in 1 .. n
    BY <2>1
  <2>3. answer[i] = answer'[i]
    BY <1>1, <1>3, <2>2
  <2>4. CASE j \in 1 .. n
    BY <2>1, <2>2, <2>3, <2>4, <1>1, <1>3 DEF IInv, EndIsFinal, Take, sseVars
  <2>5. CASE j = n + 1
    <3>1. queue # <<>>
      BY <2>1, <2>5, <1>1, <1>3
    <3>2. Told("end") \/ Told("failed")
      BY <2>1, <2>2, <2>3, <1>3 DEF Told
    <3> QED
      BY <3>1, <3>2 DEF IInv, ToldInv, Take, sseVars
  <2> QED
    BY <2>4, <2>5
<1> QED
  BY <1>2, <1>4, <1>5 DEF IInv

LEMMA NextInv == IInv /\ [Next]_vars => IInv'
<1> SUFFICES ASSUME IInv, [Next]_vars PROVE IInv'
  OBVIOUS
<1>0. LoopInv /\ loop \in Stage /\ cause \in Cause /\ aborted \in BOOLEAN
  BY DEF IInv, TypeOK
<1> USE DEF Stage, Cause
<1>1. CASE Respond
  <2>1. LoopInv'
    BY <1>0, <1>1 DEF Respond, LoopInv, queueVars
  <2> QED
    BY <1>0, <1>1, <2>1, QuietStep DEF Respond
<1>2. CASE Refuse
  <2>1. LoopInv'
    BY <1>0, <1>2 DEF Refuse, LoopInv, queueVars
  <2> QED
    BY <1>0, <1>2, <2>1, QuietStep DEF Refuse
<1>3. CASE Arrive
  BY <1>3, ArriveInv
<1>4. CASE Break
  <2>1. LoopInv'
    BY <1>0, <1>4 DEF Break, LoopInv, queueVars
  <2> QED
    BY <1>0, <1>4, <2>1, QuietStep DEF Break
<1>5. CASE EndOfStream
  <2>1. LoopInv'
    BY <1>0, <1>5 DEF EndOfStream, LoopInv, queueVars
  <2> QED
    BY <1>0, <1>5, <2>1, QuietStep DEF EndOfStream
<1>6. CASE Reject
  <2>1. LoopInv'
    BY <1>0, <1>6 DEF Reject, LoopInv, queueVars
  <2> QED
    BY <1>0, <1>6, <2>1, QuietStep DEF Reject
<1>7. CASE Pump
  BY <1>7, PumpInv
<1>8. CASE End
  <2>1. done' /\ error' = IF done THEN error ELSE FALSE
    BY <1>8, QueueIsSound, FinishEffect DEF End
  <2>2. LoopInv'
    BY <1>0, <1>8, <2>1 DEF End, LoopInv
  <2> QED
    BY <1>0, <1>8, <2>2, FinishStep DEF End
<1>9. CASE Catch
  <2>1. (~aborted) \in BOOLEAN
    BY <1>0
  <2>2. done' /\ error' = IF done THEN error ELSE ~aborted
    BY <1>9, <2>1, QueueIsSound, FinishEffect DEF Catch
  <2>3. LoopInv'
    BY <1>0, <1>9, <2>2 DEF Catch, LoopInv
  <2> QED
    BY <1>0, <1>9, <2>1, <2>3, FinishStep DEF Catch
<1>10. CASE Take
  BY <1>10, TakeInv
<1>11. CASE Close
  <2>1. done' /\ error' = IF done THEN error ELSE FALSE
    BY <1>11, QueueIsSound, FinishEffect DEF Close
  <2>2. LoopInv'
    BY <1>0, <1>11, <2>1 DEF Close, LoopInv
  <2> QED
    BY <1>0, <1>11, <2>2, FinishStep DEF Close
<1>12. CASE Abort
  <2>1. LoopInv'
    BY <1>0, <1>12 DEF Abort, LoopInv, queueVars
  <2> QED
    BY <1>0, <1>12, <2>1, QuietStep DEF Abort
<1>13. CASE UNCHANGED vars
  <2>1. LoopInv'
    BY <1>0, <1>13 DEF vars, sseVars, LoopInv, queueVars
  <2> QED
    BY <1>0, <1>13, <2>1, QuietStep DEF vars, sseVars
<1> QED
  BY <1>1, <1>2, <1>3, <1>4, <1>5, <1>6, <1>7, <1>8, <1>9, <1>10, <1>11, <1>12, <1>13
     DEF Next, Network, Loop, Consumer

\* The inductive invariant holds in every reachable state of sseSubscribe.
THEOREM Invariance == Spec => []IInv
BY InitInv, NextInv, PTL DEF Spec

\* The variables of sseSubscribe keep their types.
THEOREM TypeCorrect == Spec => []TypeOK
<1>1. IInv => TypeOK
  BY DEF IInv
<1> QED
  BY <1>1, Invariance, PTL

\* A call of next() never sleeps on while there is a frame or an end to report.
THEOREM NoLostWakeUp == Spec => []WaiterIsIdle
<1>1. IInv => WaiterIsIdle
  BY DEF IInv
<1> QED
  BY <1>1, Invariance, PTL

\* No frame of the body is lost, repeated or moved on its way to the consumer.
THEOREM InOrder == Spec => []FramesInOrder
<1>1. IInv => FramesInOrder
  BY DEF IInv
<1> QED
  BY <1>1, Invariance, PTL

\* A failure, or an end the consumer did not ask for, comes after every frame.
THEOREM FramesFirst == Spec => []EndsAfterFrames
<1>1. IInv => EndsAfterFrames
  <2> SUFFICES ASSUME IInv, Told("failed") \/ (Told("end") /\ ~aborted)
               PROVE  Len(handed) = received
    BY DEF EndsAfterFrames
  <2>1. queue = <<>> /\ chunk = <<>>
    BY DEF IInv, ToldInv, OneOutcome, LoopInv
  <2>2. handed \in Seq(Nat) /\ received \in Nat
    BY DEF IInv, TypeOK, QueueTypeOK
  <2>3. handed \o <<>> \o <<>> = handed
    BY <2>2, ConcatEmptySeq
  <2>4. handed = [i \in 1 .. received |-> i]
    BY <2>1, <2>3 DEF IInv, FramesInOrder
  <2> QED
    BY <2>2, <2>4, MoreFrames
<1> QED
  BY <1>1, Invariance, PTL

\* A broken connection is never reported as the end of the stream, nor an abort
\* as a failure.
THEOREM CleanEnd == Spec => []CleanEndIsTrue
<1>1. IInv => CleanEndIsTrue
  BY DEF IInv, OneOutcome, LoopInv, CleanEndIsTrue
<1> QED
  BY <1>1, Invariance, PTL

\* No frame follows an end that the consumer did not ask for.
THEOREM LastWord == Spec => []EndIsFinal
<1>1. IInv => EndIsFinal
  BY DEF IInv
<1> QED
  BY <1>1, Invariance, PTL

\* After an abort no error surfaces that had not been recorded before.
THEOREM CleanAbort == Spec => AbortIsClean
<1>1. IInv /\ [Next]_vars => [aborted /\ ~error => ~error']_vars
  <2> SUFFICES ASSUME IInv, Next, aborted, ~error
               PROVE  ~error'
    OBVIOUS
  <2>1. error' = error \/ (\E err \in BOOLEAN : Finish(err) /\ err = FALSE)
    BY DEF Next, Network, Loop, Consumer, Respond, Refuse, Arrive, Break, EndOfStream, Reject,
           Pump, Push, End, Catch, Take, Call, Close, Abort, queueVars
  <2>2. CASE \E err \in BOOLEAN : Finish(err) /\ err = FALSE
    BY <2>2 DEF Finish, queueVars
  <2> QED
    BY <2>1, <2>2
<1> QED
  BY <1>1, Invariance, PTL DEF Spec, AbortIsClean
-----------------------------------------------------------------------------
(***************************************************************************)
(* The subscription implements FrameChannel.                               *)
(***************************************************************************)
Tellings == {outcome \in {"end", "failed"} : Told(outcome)}

\* What has come is what was handed over and what is queued.
LEMMA LengthsOf ==
  ASSUME NEW h \in Seq(Nat), NEW q \in Seq(Nat), NEW c \in Seq(Nat), NEW n \in Nat,
         h \o q \o c = [i \in 1 .. n |-> i]
  PROVE  /\ Len(h) \in Nat /\ Len(q) \in Nat /\ Len(c) \in Nat
         /\ n - Len(c) = Len(h) + Len(q)
<1>1. Len(h) \in Nat /\ Len(q) \in Nat /\ Len(c) \in Nat
  OBVIOUS
<1>2. h \o q \in Seq(Nat) /\ Len(h \o q) = Len(h) + Len(q)
  BY ConcatProperties
<1>3. Len(h \o q \o c) = Len(h) + Len(q) + Len(c)
  BY <1>2, ConcatProperties
<1>4. Len(h \o q \o c) = n
  BY MoreFrames
<1> QED
  BY <1>1, <1>3, <1>4

LEMMA Lengths ==
  ASSUME IInv
  PROVE  /\ Len(handed) \in Nat /\ Len(queue) \in Nat
         /\ received \in Nat /\ Len(chunk) \in Nat
         /\ received - Len(chunk) = Len(handed) + Len(queue)
<1>1. /\ handed \in Seq(Nat) /\ queue \in Seq(Nat) /\ chunk \in Seq(Nat) /\ received \in Nat
      /\ handed \o queue \o chunk = [i \in 1 .. received |-> i]
  BY DEF IInv, TypeOK, QueueTypeOK, FramesInOrder
<1> QED
  BY <1>1, LengthsOf

LEMMA LengthsNext ==
  ASSUME IInv'
  PROVE  /\ Len(handed') \in Nat /\ Len(queue') \in Nat
         /\ received' \in Nat /\ Len(chunk') \in Nat
         /\ received' - Len(chunk') = Len(handed') + Len(queue')
<1>1. /\ handed' \in Seq(Nat) /\ queue' \in Seq(Nat) /\ chunk' \in Seq(Nat) /\ received' \in Nat
      /\ handed' \o queue' \o chunk' = [i \in 1 .. received' |-> i]
  BY DEF IInv, TypeOK, QueueTypeOK, FramesInOrder
<1> QED
  BY <1>1, LengthsOf

\* What is handed over is the frame that follows.
LEMMA HandsNext ==
  ASSUME IInv, IInv', NEW x \in Nat, handed' = Append(handed, x)
  PROVE  handed' = Channel!Taken
<1>1. /\ handed \in Seq(Nat) /\ handed' \in Seq(Nat)
      /\ queue' \in Seq(Nat) /\ chunk' \in Seq(Nat) /\ received' \in Nat
      /\ handed' \o queue' \o chunk' = [i \in 1 .. received' |-> i]
  BY DEF IInv, TypeOK, QueueTypeOK, FramesInOrder
<1>2. handed' \o queue' \in Seq(Nat)
  BY <1>1
<1>3. \A i \in 1 .. Len((handed' \o queue') \o chunk') : ((handed' \o queue') \o chunk')[i] = i
  BY <1>1, MoreFrames
<1>4. \A i \in 1 .. Len(handed' \o queue') : (handed' \o queue')[i] = i
  BY <1>1, <1>2, <1>3, BeginningCounts
<1>5. \A i \in 1 .. Len(handed') : handed'[i] = i
  BY <1>1, <1>4, BeginningCounts
<1> QED
  BY <1>1, <1>5, NextFrame DEF Channel!Taken

\* A step that neither tells nor hands over anything is no step of the channel,
\* or its cancellation.
LEMMA QuietChannel ==
  ASSUME IInv, UNCHANGED <<answer, handed>>,
         received' - Len(chunk') = received - Len(chunk),
         aborted' = aborted \/ aborted' = TRUE
  PROVE  [Channel!Next]_(Channel!vars)
BY DEF Channel!Next, Channel!Cancel, Channel!vars, Told

\* A step that finishes tells the call that waits.
LEMMA FinishChannel ==
  ASSUME IInv, NEW err \in BOOLEAN, Finish(err), UNCHANGED <<chunk, received>>,
         \/ loop # "chunk" /\ aborted' = aborted
         \/ ~err /\ aborted' = TRUE
  PROVE  [Channel!Next]_(Channel!vars)
<1>1. CASE answer' = answer
  BY <1>1, QuietChannel DEF Finish, queueVars
<1>2. CASE answer' # answer
  <2> DEFINE a == IF err THEN "failed" ELSE "end"
  <2>1. /\ waiter # 0 /\ ~done
        /\ answer' = [answer EXCEPT ![waiter] = a]
        /\ handed' = handed
    BY <1>2 DEF Finish, queueVars
  <2>2. queue = <<>>
    BY <2>1 DEF IInv, WaiterIsIdle
  <2>3. \A x \in Outcome : Told(x)' <=> Told(x) \/ x = a
    BY <2>1, QueueIsSound, ReplaceTells DEF Outcome, Answer
  <2>4. Tellings = {} /\ Tellings' = {a}
    BY <2>1, <2>3 DEF IInv, OneOutcome, Tellings, Outcome
  <2>5. Len(handed) = received - Len(chunk)
    BY <2>2, Lengths, EmptySeq
  <2> QED
    BY <2>1, <2>4, <2>5
       DEF Channel!Next, Channel!Cancel, Channel!Tell, Channel!vars, Tellings
<1> QED
  BY <1>1, <1>2

LEMMA PumpChannel ==
  ASSUME IInv, IInv', Pump
  PROVE  [Channel!Next]_(Channel!vars)
<1>1. chunk \in Seq(Nat) /\ Push(chunk) /\ chunk' = <<>> /\ Len(chunk') = 0
  BY EmptySeq DEF IInv, TypeOK, Pump
<1>2. \A x \in Outcome : Told(x)' <=> Told(x)
  BY <1>1, QueueIsSound, PushTells
<1>3. Tellings' = Tellings
  BY <1>2 DEF Tellings, Outcome
<1>4. Tellings = {} \/ aborted
  BY NotToldAtPump DEF Tellings, Pump
<1>5. received' = received /\ aborted' = aborted
  BY DEF Pump
<1>6. CASE chunk = <<>>
  <2>1. UNCHANGED <<answer, handed>>
    BY <1>1, <1>6 DEF Push
  <2> QED
    BY <1>1, <1>5, <1>6, <2>1, QuietChannel
<1>7. CASE chunk # <<>>
  <2>1. Len(chunk) \in Nat /\ Len(chunk) > 0
    BY <1>1, <1>7, EmptySeq
  <2>2. handed \in Seq(Nat) /\ (chunk # <<>> => Head(chunk) \in Nat)
    BY <1>1 DEF IInv, TypeOK, QueueTypeOK
  <2>3. handed' = handed \/ handed' = Channel!Taken
    BY <1>1, <1>7, <2>2, HandsNext DEF Push
  <2>4. /\ received' - Len(chunk') \in Nat
        /\ received' - Len(chunk') > received - Len(chunk)
        /\ Len(handed') <= received' - Len(chunk')
    BY <1>1, <1>5, <2>1, Lengths, LengthsNext
  <2> QED
    BY <1>3, <1>4, <1>5, <2>3, <2>4
       DEF Channel!Next, Channel!Come, Channel!vars, Tellings
<1> QED
  BY <1>6, <1>7

LEMMA TakeChannel ==
  ASSUME IInv, IInv', Take
  PROVE  [Channel!Next]_(Channel!vars)
<1>1. Call /\ UNCHANGED <<chunk, received, aborted>>
  BY DEF Take, sseVars
<1>2. answer \in Seq(Answer) /\ handed \in Seq(Nat) /\ queue \in Seq(Nat)
  BY DEF IInv, TypeOK, QueueTypeOK
<1>3. ASSUME queue # <<>>
      PROVE  [Channel!Next]_(Channel!vars)
  <2>1. answer' = Append(answer, "frame") /\ handed' = Append(handed, Head(queue))
    BY <1>1, <1>3 DEF Call
  <2>2. Tellings' = Tellings
    BY <2>1, <1>2, AppendTells DEF Tellings, Answer
  <2>3. Head(queue) \in Nat /\ Len(queue) > 0
    BY <1>2, <1>3, EmptySeq
  <2>4. handed' = Channel!Taken
    BY <2>1, <2>3, HandsNext
  <2>5. Len(handed) < received - Len(chunk)
    BY <2>3, Lengths
  <2> QED
    BY <2>2, <2>4, <2>5, <1>1 DEF Channel!Next, Channel!Take, Channel!vars, Tellings
<1>4. ASSUME queue = <<>>, done
      PROVE  [Channel!Next]_(Channel!vars)
  <2> DEFINE a == IF error THEN "failed" ELSE "end"
  <2>1. answer' = Append(answer, a) /\ handed' = handed
    BY <1>1, <1>4 DEF Call
  <2>2. \A x : Told(x)' <=> Told(x) \/ x = a
    BY <2>1, <1>2, AppendTells DEF Answer
  <2>3. Tellings' = {a} /\ Tellings \subseteq {a}
    BY <2>2 DEF Tellings, IInv, OneOutcome
  <2>4. CASE Tellings = {a}
    BY <2>1, <2>3, <2>4, <1>1 DEF Channel!vars, Tellings
  <2>5. CASE Tellings = {}
    <3>1. a = "failed" \/ ~aborted => chunk = <<>>
      BY <1>4 DEF IInv, LoopInv
    <3>2. Len(handed) = received - Len(chunk) \/ (aborted /\ a = "end")
      BY <3>1, <1>4, Lengths, EmptySeq
    <3> QED
      BY <2>1, <2>3, <2>5, <3>2, <1>1
         DEF Channel!Next, Channel!Tell, Channel!vars, Tellings
  <2> QED
    BY <2>3, <2>4, <2>5
<1>5. ASSUME queue = <<>>, ~done
      PROVE  [Channel!Next]_(Channel!vars)
  <2>1. answer' = Append(answer, "waiting") /\ handed' = handed
    BY <1>1, <1>5 DEF Call
  <2>2. Tellings' = Tellings
    BY <2>1, <1>2, AppendTells DEF Tellings, Answer
  <2> QED
    BY <2>1, <2>2, <1>1 DEF Channel!vars, Tellings
<1> QED
  BY <1>3, <1>4, <1>5

\* sseSubscribe keeps the promise of a frame channel.
THEOREM Implementation == Spec => IsChannel
<1>1. Init => Channel!Init
  <2> SUFFICES ASSUME Init PROVE Channel!Init
    OBVIOUS
  <2>1. \A outcome : ~Told(outcome)
    BY DEF Init, QueueInit, Told
  <2>2. Len(chunk) = 0 /\ handed = <<>> /\ received = 0
    BY DEF Init, QueueInit
  <2>3. received - Len(chunk) = 0
    BY <2>2
  <2>4. {outcome \in {"end", "failed"} : Told(outcome)} = {}
    BY <2>1
  <2> QED
    BY <2>2, <2>3, <2>4 DEF Init, Channel!Init
<1>2. IInv /\ IInv' /\ [Next]_vars => [Channel!Next]_(Channel!vars)
  <2> SUFFICES ASSUME IInv, IInv', [Next]_vars PROVE [Channel!Next]_(Channel!vars)
    OBVIOUS
  <2>0. aborted \in BOOLEAN /\ (~aborted) \in BOOLEAN
    BY DEF IInv, TypeOK
  <2>1. CASE Respond \/ Refuse \/ Break \/ EndOfStream \/ Reject \/ Abort \/ UNCHANGED vars
    BY <2>1, QuietChannel
       DEF Respond, Refuse, Break, EndOfStream, Reject, Abort, queueVars, vars, sseVars
  <2>2. CASE Arrive
    <3>1. PICK n \in 0 .. MaxChunk : chunk' = Frames(n) /\ received' = received + n
      BY <2>2 DEF Arrive
    <3>2. Len(chunk) = 0 /\ received \in Nat /\ n \in Nat
      BY <2>2, EmptySeq DEF Arrive, IInv, TypeOK, LoopInv
    <3>3. Len(chunk') = n
      BY <3>1, <3>2 DEF Frames
    <3> QED
      BY <2>2, <3>1, <3>2, <3>3, QuietChannel DEF Arrive, queueVars
  <2>3. CASE Pump
    BY <2>3, PumpChannel
  <2>4. CASE End
    BY <2>4, FinishChannel DEF End
  <2>5. CASE Catch
    BY <2>0, <2>5, FinishChannel DEF Catch
  <2>6. CASE Take
    BY <2>6, TakeChannel
  <2>7. CASE Close
    BY <2>7, FinishChannel DEF Close
  <2> QED
    BY <2>1, <2>2, <2>3, <2>4, <2>5, <2>6, <2>7 DEF Next, Network, Loop, Consumer
<1> QED
  BY <1>1, <1>2, Invariance, PTL DEF Spec, IsChannel, Channel!Spec
=============================================================================
