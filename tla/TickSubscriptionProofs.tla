----------------------- MODULE TickSubscriptionProofs -----------------------
(***************************************************************************)
(* The safety properties of TickSubscription, for every number of messages *)
(* and of calls, overlapping or not; and that it implements FrameChannel.  *)
(***************************************************************************)
EXTENDS TickSubscription, AsyncQueueProofs

\* The queue's lemmas apply whenever the invariant holds.
LEMMA QueueIsSound == IInv => QueueInv
BY DEF IInv, TypeOK, QueueInv

\* A step that finishes.
LEMMA FinishStep ==
  ASSUME IInv, NEW err \in BOOLEAN, Finish(err), UNCHANGED received,
         socket' \in Socket, cancelled' \in BOOLEAN, broken' \in BOOLEAN,
         cancelled => cancelled', SocketInv'
  PROVE  IInv'
<1>1. /\ QueueInv'
      /\ queue' = queue /\ handed' = handed
      /\ DOMAIN answer' = DOMAIN answer
      /\ \A i \in DOMAIN answer :
           \/ answer'[i] = answer[i]
           \/ i = Len(answer) /\ answer'[i] \in Outcome /\ queue = <<>> /\ ~done
  BY QueueIsSound, FinishEffect
<1>2. TypeOK' /\ WaiterIsIdle' /\ OneOutcome' /\ FramesInOrder'
  BY <1>1 DEF IInv, TypeOK, QueueInv, FramesInOrder
<1>3. ToldInv'
  BY <1>1 DEF IInv, ToldInv, Told
<1> QED
  BY <1>2, <1>3 DEF IInv

LEMMA InitInv == Init => IInv
<1> SUFFICES ASSUME Init PROVE IInv
  OBVIOUS
<1>1. PICK already \in BOOLEAN :
        /\ queue = <<>> /\ waiter = 0 /\ answer = <<>> /\ handed = <<>> /\ error = FALSE
        /\ done = already
        /\ socket = (IF already THEN "closing" ELSE "open")
        /\ received = 0
        /\ cancelled = already
        /\ broken = FALSE
  BY DEF Init
<1>2. TypeOK
  <2>1. <<>> \in Seq(Nat) /\ <<>> \in Seq(Answer)
    BY EmptySeq
  <2>2. socket \in Socket
    BY <1>1 DEF Socket
  <2> QED
    BY <1>1, <2>1, <2>2 DEF TypeOK, QueueTypeOK
<1>3. FramesInOrder
  <2>1. [i \in 1 .. 0 |-> i] = <<>>
    OBVIOUS
  <2>2. <<>> \o <<>> = <<>>
    BY EmptySeq, ConcatEmptySeq
  <2> QED
    BY <1>1, <2>1, <2>2 DEF FramesInOrder
<1>4. WaiterIsIdle /\ OneOutcome /\ SocketInv /\ ToldInv
  BY <1>1 DEF WaiterIsIdle, OneOutcome, Told, SocketInv, ToldInv
<1> QED
  BY <1>2, <1>3, <1>4 DEF IInv

\* While messages come the subscription is open or was cancelled: an outcome that
\* nobody asked for has not been told.
LEMMA NotToldAtMessage ==
  ASSUME IInv, socket \in {"open", "closing"}
  PROVE  ~Told("failed") /\ (cancelled \/ ~Told("end"))
BY DEF IInv, OneOutcome, SocketInv

LEMMA MessageInv == IInv /\ Message => IInv'
<1> SUFFICES ASSUME IInv, Message PROVE IInv'
  OBVIOUS
<1>1. PICK m \in Nat : m = received /\ received' = m + 1
  BY DEF IInv, TypeOK, Message
<1>2. <<m + 1>> \in Seq(Nat) /\ Push(<<m + 1>>)
  BY <1>1 DEF Message
<1>3. /\ QueueInv'
      /\ handed' \o queue' = (handed \o queue) \o <<m + 1>>
      /\ done' = done /\ error' = error
      /\ \A x \in Outcome : Told(x)' => Told(x)
  BY <1>2, QueueIsSound, PushEffect
<1>4. ~Told("failed")' /\ (cancelled' \/ ~Told("end")')
  BY <1>3, NotToldAtMessage DEF Message, Outcome
<1>5. TypeOK' /\ WaiterIsIdle' /\ OneOutcome' /\ SocketInv'
  BY <1>1, <1>3 DEF IInv, TypeOK, QueueInv, SocketInv, Message
<1>6. FramesInOrder'
  <2>1. <<m + 1>> = [i \in 1 .. 1 |-> m + i]
    OBVIOUS
  <2>2. [i \in 1 .. m |-> i] \o [i \in 1 .. 1 |-> m + i] = [i \in 1 .. m + 1 |-> i]
    BY MoreFrames
  <2> QED
    BY <1>1, <1>3, <2>1, <2>2 DEF IInv, FramesInOrder
<1> QED
  BY <1>4, <1>5, <1>6 DEF IInv, ToldInv

LEMMA TakeInv == IInv /\ Take => IInv'
<1> SUFFICES ASSUME IInv, Take PROVE IInv'
  OBVIOUS
<1>1. /\ QueueInv'
      /\ handed' \o queue' = handed \o queue
      /\ done' = done /\ error' = error
      /\ DOMAIN answer' = 1 .. Len(answer) + 1
      /\ \A i \in 1 .. Len(answer) : answer'[i] = answer[i]
      /\ answer'[Len(answer) + 1] \in Outcome => queue = <<>>
      /\ queue = <<>> => queue' = <<>>
  BY QueueIsSound, CallEffect DEF Take
<1>2. TypeOK' /\ WaiterIsIdle' /\ OneOutcome' /\ SocketInv' /\ FramesInOrder'
  BY <1>1 DEF IInv, TypeOK, QueueInv, SocketInv, FramesInOrder, Take, tickVars
<1>3. PICK n \in Nat : n = Len(answer) /\ DOMAIN answer = 1 .. n
  BY DEF IInv, TypeOK, QueueTypeOK
<1>4. ToldInv'
  <2>1. ASSUME NEW x \in Outcome, NEW i \in 1 .. n + 1, answer'[i] = x
        PROVE  Told(x) \/ queue = <<>>
    <3>1. CASE i \in 1 .. n
      BY <3>1, <2>1, <1>1, <1>3 DEF Told
    <3>2. CASE i = n + 1
      BY <3>2, <2>1, <1>1, <1>3
    <3> QED
      BY <3>1, <3>2
  <2>2. \A x \in Outcome : Told(x)' => Told(x) \/ queue = <<>>
    BY <2>1, <1>1, <1>3 DEF Told
  <2> QED
    BY <2>2, <1>1 DEF IInv, ToldInv, Outcome, Take, tickVars
<1> QED
  BY <1>2, <1>4 DEF IInv

LEMMA NextInv == IInv /\ [Next]_vars => IInv'
<1> SUFFICES ASSUME IInv, [Next]_vars PROVE IInv'
  OBVIOUS
<1>0. /\ SocketInv /\ socket \in Socket /\ cancelled \in BOOLEAN /\ broken \in BOOLEAN
      /\ done \in BOOLEAN /\ error \in BOOLEAN
  BY DEF IInv, TypeOK, QueueTypeOK
<1> USE DEF Socket
<1>1. CASE Message
  BY <1>1, MessageInv
<1>2. CASE ErrorEvent
  <2>1. done' /\ error' = IF done THEN error ELSE TRUE
    BY <1>2, QueueIsSound, FinishEffect DEF ErrorEvent
  <2>2. SocketInv'
    BY <1>0, <1>2, <2>1 DEF ErrorEvent, SocketInv
  <2>3. broken' \in BOOLEAN
    BY <1>0, <1>2 DEF ErrorEvent
  <2> QED
    BY <1>0, <1>2, <2>2, <2>3, FinishStep DEF ErrorEvent
<1>3. CASE CloseEvent
  <2>1. done' /\ error' = IF done THEN error ELSE FALSE
    BY <1>3, QueueIsSound, FinishEffect DEF CloseEvent
  <2>2. SocketInv'
    BY <1>0, <1>3, <2>1 DEF CloseEvent, SocketInv
  <2> QED
    BY <1>0, <1>3, <2>2, FinishStep DEF CloseEvent
<1>4. CASE Take
  BY <1>4, TakeInv
<1>5. CASE Close
  <2>1. done' /\ error' = IF done THEN error ELSE FALSE
    BY <1>5, QueueIsSound, FinishEffect DEF Close
  <2>2. SocketInv'
    BY <1>0, <1>5, <2>1 DEF Close, SocketInv
  <2> QED
    BY <1>0, <1>5, <2>2, FinishStep DEF Close
<1>6. CASE UNCHANGED vars
  <2>1. TypeOK' /\ WaiterIsIdle' /\ OneOutcome' /\ FramesInOrder' /\ SocketInv' /\ ToldInv'
    BY <1>6 DEF vars, tickVars, queueVars, IInv, TypeOK, QueueTypeOK, WaiterIsIdle,
                OneOutcome, Told, FramesInOrder, SocketInv, ToldInv
  <2> QED
    BY <2>1 DEF IInv
<1> QED
  BY <1>1, <1>2, <1>3, <1>4, <1>5, <1>6 DEF Next

\* The inductive invariant holds in every reachable state of subscribeTicks.
THEOREM Invariance == Spec => []IInv
BY InitInv, NextInv, PTL DEF Spec

\* No message is lost, repeated or moved on its way to the consumer.
THEOREM InOrder == Spec => []FramesInOrder
<1>1. IInv => FramesInOrder
  BY DEF IInv
<1> QED
  BY <1>1, Invariance, PTL

\* A call of next() waits only at an open socket that nobody cancelled.
THEOREM WaiterLives == Spec => []WaiterIsLive
<1>1. IInv => WaiterIsLive
  BY DEF IInv, TypeOK, SocketInv, WaiterIsIdle, WaiterIsLive
<1> QED
  BY <1>1, Invariance, PTL

\* Whoever did not cancel is told of an error exactly when there was one, and
\* after every message.
THEOREM Outcomes == Spec => []OutcomeIsTrue
<1>1. IInv => OutcomeIsTrue
  <2> SUFFICES ASSUME IInv PROVE OutcomeIsTrue
    OBVIOUS
  <2>1. ASSUME Told("failed") \/ (Told("end") /\ ~cancelled)
        PROVE  Len(handed) = received
    <3>1. queue = <<>>
      BY <2>1 DEF IInv, ToldInv
    <3>2. handed \in Seq(Nat) /\ received \in Nat
      BY DEF IInv, TypeOK, QueueTypeOK
    <3>3. handed = [i \in 1 .. received |-> i]
      BY <3>1, <3>2, ConcatEmptySeq DEF IInv, FramesInOrder
    <3> QED
      BY <3>2, <3>3, MoreFrames
  <2> QED
    BY <2>1 DEF IInv, OneOutcome, SocketInv, OutcomeIsTrue
<1> QED
  BY <1>1, Invariance, PTL
-----------------------------------------------------------------------------
(***************************************************************************)
(* The subscription implements FrameChannel.                               *)
(***************************************************************************)
Tellings == {outcome \in {"end", "failed"} : Told(outcome)}

\* What has come is what was handed over and what is queued.
LEMMA LengthsOf ==
  ASSUME NEW h \in Seq(Nat), NEW q \in Seq(Nat), NEW n \in Nat,
         h \o q = [i \in 1 .. n |-> i]
  PROVE  Len(h) \in Nat /\ Len(q) \in Nat /\ n = Len(h) + Len(q)
<1>1. Len(h) \in Nat /\ Len(q) \in Nat
  OBVIOUS
<1>2. Len(h \o q) = Len(h) + Len(q)
  BY ConcatProperties
<1> QED
  BY <1>1, <1>2, MoreFrames

LEMMA Lengths ==
  ASSUME IInv
  PROVE  Len(handed) \in Nat /\ Len(queue) \in Nat /\ received = Len(handed) + Len(queue)
<1>1. /\ handed \in Seq(Nat) /\ queue \in Seq(Nat) /\ received \in Nat
      /\ handed \o queue = [i \in 1 .. received |-> i]
  BY DEF IInv, TypeOK, QueueTypeOK, FramesInOrder
<1> QED
  BY <1>1, LengthsOf

\* What is handed over is the message that follows.
LEMMA HandsNext ==
  ASSUME IInv, IInv', NEW x \in Nat, handed' = Append(handed, x)
  PROVE  handed' = Channel!Taken
<1>1. /\ handed \in Seq(Nat) /\ handed' \in Seq(Nat)
      /\ queue' \in Seq(Nat) /\ received' \in Nat
      /\ handed' \o queue' = [i \in 1 .. received' |-> i]
  BY DEF IInv, TypeOK, QueueTypeOK, FramesInOrder
<1>2. \A i \in 1 .. Len(handed' \o queue') : (handed' \o queue')[i] = i
  BY <1>1, MoreFrames
<1>3. \A i \in 1 .. Len(handed') : handed'[i] = i
  BY <1>1, <1>2, BeginningCounts
<1> QED
  BY <1>1, <1>3, NextFrame DEF Channel!Taken

\* A step that finishes tells the call that waits, and has handed it everything.
LEMMA FinishChannel ==
  ASSUME IInv, NEW err \in BOOLEAN, Finish(err), UNCHANGED received,
         cancelled' = cancelled \/ (cancelled' = TRUE /\ ~err)
  PROVE  [Channel!Next]_(Channel!vars)
<1>1. CASE answer' = answer
  <2>1. handed' = handed
    BY DEF Finish, queueVars
  <2> QED
    BY <1>1, <2>1 DEF Channel!Next, Channel!Cancel, Channel!vars, Told
<1>2. CASE answer' # answer
  <2> DEFINE a == IF err THEN "failed" ELSE "end"
  <2>1. /\ waiter # 0 /\ ~done
        /\ answer' = [answer EXCEPT ![waiter] = a]
        /\ handed' = handed
    BY <1>2 DEF Finish, queueVars
  <2>2. queue = <<>>
    BY <2>1 DEF IInv, WaiterIsIdle
  <2>3. \A x \in Outcome : Told(x)' <=> Told(x) \/ x = a
    BY <2>1, QueueIsSound, ReplaceTells DEF Outcome, Answer
  <2>4. Tellings = {} /\ Tellings' = {a}
    BY <2>1, <2>3 DEF IInv, OneOutcome, Tellings, Outcome
  <2>5. Len(handed) = received
    BY <2>2, Lengths, EmptySeq
  <2> QED
    BY <2>1, <2>4, <2>5
       DEF Channel!Next, Channel!Cancel, Channel!Tell, Channel!vars, Tellings
<1> QED
  BY <1>1, <1>2

LEMMA MessageChannel ==
  ASSUME IInv, IInv', Message
  PROVE  [Channel!Next]_(Channel!vars)
<1>1. PICK m \in Nat : m = received /\ received' = m + 1
  BY DEF IInv, TypeOK, Message
<1>2. <<m + 1>> \in Seq(Nat) /\ Push(<<m + 1>>) /\ <<m + 1>> # <<>> /\ Head(<<m + 1>>) = m + 1
  BY <1>1 DEF Message
<1>3. \A x \in Outcome : Told(x)' <=> Told(x)
  BY <1>2, QueueIsSound, PushTells
<1>4. Tellings' = Tellings
  BY <1>3 DEF Tellings, Outcome
<1>5. Tellings = {} \/ cancelled
  BY NotToldAtMessage DEF Tellings, Message
<1>6. handed \in Seq(Nat)
  BY DEF IInv, TypeOK, QueueTypeOK
<1>7. handed' = handed \/ handed' = Append(handed, m + 1)
  BY <1>2 DEF Push
<1>8. handed' = handed \/ handed' = Channel!Taken
  BY <1>7, HandsNext
<1>9. Len(handed') <= received'
  <2>1. Len(handed') = Len(handed) \/ Len(handed') = Len(handed) + 1
    BY <1>6, <1>7
  <2> QED
    BY <1>1, <2>1, Lengths
<1> QED
  BY <1>1, <1>4, <1>5, <1>8, <1>9
     DEF Channel!Next, Channel!Come, Channel!vars, Tellings, Message

LEMMA TakeChannel ==
  ASSUME IInv, IInv', Take
  PROVE  [Channel!Next]_(Channel!vars)
<1>1. Call /\ UNCHANGED <<received, cancelled>>
  BY DEF Take, tickVars
<1>2. answer \in Seq(Answer) /\ handed \in Seq(Nat) /\ queue \in Seq(Nat)
  BY DEF IInv, TypeOK, QueueTypeOK
<1>3. ASSUME queue # <<>>
      PROVE  [Channel!Next]_(Channel!vars)
  <2>1. answer' = Append(answer, "frame") /\ handed' = Append(handed, Head(queue))
    BY <1>1, <1>3 DEF Call
  <2>2. Tellings' = Tellings
    BY <2>1, <1>2, AppendTells DEF Tellings, Answer
  <2>3. Head(queue) \in Nat /\ Len(queue) > 0
    BY <1>2, <1>3, EmptySeq
  <2>4. handed' = Channel!Taken
    BY <2>1, <2>3, HandsNext
  <2>5. Len(handed) < received
    BY <2>3, Lengths
  <2> QED
    BY <2>2, <2>4, <2>5, <1>1 DEF Channel!Next, Channel!Take, Channel!vars, Tellings
<1>4. ASSUME queue = <<>>, done
      PROVE  [Channel!Next]_(Channel!vars)
  <2> DEFINE a == IF error THEN "failed" ELSE "end"
  <2>1. answer' = Append(answer, a) /\ handed' = handed
    BY <1>1, <1>4 DEF Call
  <2>2. \A x : Told(x)' <=> Told(x) \/ x = a
    BY <2>1, <1>2, AppendTells DEF Answer
  <2>3. Tellings' = {a} /\ Tellings \subseteq {a}
    BY <2>2 DEF Tellings, IInv, OneOutcome
  <2>4. CASE Tellings = {a}
    BY <2>1, <2>3, <2>4, <1>1 DEF Channel!vars, Tellings
  <2>5. CASE Tellings = {}
    <3>1. Len(handed) = received
      BY <1>4, Lengths, EmptySeq
    <3> QED
      BY <2>1, <2>3, <2>5, <3>1, <1>1
         DEF Channel!Next, Channel!Tell, Channel!vars, Tellings
  <2> QED
    BY <2>3, <2>4, <2>5
<1>5. ASSUME queue = <<>>, ~done
      PROVE  [Channel!Next]_(Channel!vars)
  <2>1. answer' = Append(answer, "waiting") /\ handed' = handed
    BY <1>1, <1>5 DEF Call
  <2>2. Tellings' = Tellings
    BY <2>1, <1>2, AppendTells DEF Tellings, Answer
  <2> QED
    BY <2>1, <2>2, <1>1 DEF Channel!vars, Tellings
<1> QED
  BY <1>3, <1>4, <1>5

\* subscribeTicks keeps the promise of a frame channel.
THEOREM Implementation == Spec => IsChannel
<1>1. Init => Channel!Init
  <2> SUFFICES ASSUME Init PROVE Channel!Init
    OBVIOUS
  <2>1. \A outcome : ~Told(outcome)
    BY DEF Init, Told
  <2>2. handed = <<>> /\ received = 0 /\ cancelled \in BOOLEAN
    BY DEF Init
  <2>3. {outcome \in {"end", "failed"} : Told(outcome)} = {}
    BY <2>1
  <2> QED
    BY <2>2, <2>3 DEF Channel!Init
<1>2. IInv /\ IInv' /\ [Next]_vars => [Channel!Next]_(Channel!vars)
  <2> SUFFICES ASSUME IInv, IInv', [Next]_vars PROVE [Channel!Next]_(Channel!vars)
    OBVIOUS
  <2>1. CASE Message
    BY <2>1, MessageChannel
  <2>2. CASE ErrorEvent
    <3>1. Finish(TRUE) /\ received' = received /\ cancelled' = cancelled
      BY <2>2 DEF ErrorEvent
    <3> QED
      BY <3>1, FinishChannel
  <2>3. CASE CloseEvent
    BY <2>3, FinishChannel DEF CloseEvent
  <2>4. CASE Take
    BY <2>4, TakeChannel
  <2>5. CASE Close
    BY <2>5, FinishChannel DEF Close
  <2>6. CASE UNCHANGED vars
    <3>1. UNCHANGED <<answer, handed, received, cancelled>>
      BY <2>6 DEF vars, tickVars, queueVars
    <3>2. Tellings' = Tellings
      BY <3>1 DEF Tellings, Told
    <3> QED
      BY <3>1, <3>2 DEF Channel!vars, Tellings
  <2> QED
    BY <2>1, <2>2, <2>3, <2>4, <2>5, <2>6 DEF Next
<1> QED
  BY <1>1, <1>2, Invariance, PTL DEF Spec, IsChannel, Channel!Spec
=============================================================================
