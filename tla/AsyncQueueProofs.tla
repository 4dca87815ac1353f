-------------------------- MODULE AsyncQueueProofs --------------------------
(***************************************************************************)
(* What Push, Finish and Call do to the queue of a subscription, for every *)
(* sequence of frames and calls.  The proofs of both transports cite these *)
(* lemmas.                                                                 *)
(***************************************************************************)
EXTENDS AsyncQueue, SequenceTheorems, TLAPS

\* The part of the invariant that speaks of the queue alone.
QueueInv == QueueTypeOK /\ WaiterIsIdle /\ OneOutcome

\* An outcome, as opposed to a frame.
Outcome == {"end", "failed"}
-----------------------------------------------------------------------------
\* Handing over the first frame of a sequence leaves the order as it was.
LEMMA FirstMoves ==
  ASSUME NEW h \in Seq(Nat), NEW q \in Seq(Nat), q # <<>>
  PROVE  /\ Append(h, Head(q)) \in Seq(Nat)
         /\ Tail(q) \in Seq(Nat)
         /\ Append(h, Head(q)) \o Tail(q) = h \o q
<1>1. Head(q) \in Nat /\ Tail(q) \in Seq(Nat) /\ Len(Tail(q)) = Len(q) - 1
      /\ \A i \in 1 .. Len(Tail(q)) : Tail(q)[i] = q[i + 1]
  BY HeadTailProperties
<1>2. PICK a \in Seq(Nat) : a = Append(h, Head(q))
  <2>1. PICK x \in Nat : x = Head(q)
    BY <1>1
  <2>2. Append(h, x) \in Seq(Nat)
    OBVIOUS
  <2> QED
    BY <2>1, <2>2
<1>3. /\ Len(a) = Len(h) + 1
      /\ \A i \in 1 .. Len(h) : a[i] = h[i]
      /\ a[Len(h) + 1] = q[1]
  BY <1>2, <1>1
<1>4. Len(h) \in Nat /\ Len(q) \in Nat /\ Len(q) >= 1
  BY EmptySeq, LenProperties
<1>5. a \o Tail(q) = h \o q
  <2>1. /\ a \o Tail(q) \in Seq(Nat) /\ Len(a \o Tail(q)) = Len(a) + Len(Tail(q))
        /\ \A i \in 1 .. Len(a) + Len(Tail(q)) :
             (a \o Tail(q))[i] = IF i <= Len(a) THEN a[i] ELSE Tail(q)[i - Len(a)]
    BY <1>1, ConcatProperties
  <2>2. /\ h \o q \in Seq(Nat) /\ Len(h \o q) = Len(h) + Len(q)
        /\ \A i \in 1 .. Len(h) + Len(q) :
             (h \o q)[i] = IF i <= Len(h) THEN h[i] ELSE q[i - Len(h)]
    BY ConcatProperties
  <2>3. Len(a \o Tail(q)) = Len(h \o q)
    BY <2>1, <2>2, <1>1, <1>3, <1>4
  <2>4. ASSUME NEW i \in 1 .. Len(h) + Len(q)
        PROVE  (a \o Tail(q))[i] = (h \o q)[i]
    <3>1. i \in 1 .. Len(a) + Len(Tail(q))
      BY <1>1, <1>3, <1>4
    <3>2. CASE i <= Len(h)
      BY <3>1, <3>2, <2>1, <2>2, <1>3, <1>4
    <3>3. CASE i = Len(h) + 1
      BY <3>1, <3>3, <2>1, <2>2, <1>3, <1>4
    <3>4. CASE i > Len(h) + 1
      <4>1. /\ i - Len(a) \in 1 .. Len(Tail(q))
            /\ (i - Len(a)) + 1 = i - Len(h)
            /\ ~(i <= Len(a)) /\ ~(i <= Len(h))
        BY <3>4, <3>1, <1>1, <1>3, <1>4
      <4> QED
        BY <4>1, <3>1, <2>1, <2>2, <1>1
    <3>5. i <= Len(h) \/ i = Len(h) + 1 \/ i > Len(h) + 1
      BY <1>4
    <3> QED
      BY <3>2, <3>3, <3>4, <3>5
  <2> QED
    BY <2>1, <2>2, <2>3, <2>4, SeqEqual
<1> QED
  BY <1>1, <1>2, <1>5

\* A stream of m frames followed by its next n frames is a stream of m + n.
LEMMA MoreFrames ==
  ASSUME NEW m \in Nat, NEW n \in Nat
  PROVE  /\ [i \in 1 .. m |-> i] \in Seq(Nat)
         /\ Len([i \in 1 .. m |-> i]) = m
         /\ [i \in 1 .. n |-> m + i] \in Seq(Nat)
         /\ [i \in 1 .. m |-> i] \o [i \in 1 .. n |-> m + i] = [i \in 1 .. m + n |-> i]
<1>1. PICK s : s = [i \in 1 .. m |-> i]
  OBVIOUS
<1>2. PICK t : t = [i \in 1 .. n |-> m + i]
  OBVIOUS
<1>3. PICK u : u = [i \in 1 .. m + n |-> i]
  OBVIOUS
<1>4. s \in Seq(Nat) /\ Len(s) = m
  BY <1>1
<1>5. t \in Seq(Nat) /\ Len(t) = n
  BY <1>2
<1>6. u \in Seq(Nat) /\ Len(u) = m + n
  BY <1>3
<1>7. /\ s \o t \in Seq(Nat) /\ Len(s \o t) = m + n
      /\ \A i \in 1 .. m + n : (s \o t)[i] = IF i <= m THEN s[i] ELSE t[i - m]
  BY <1>4, <1>5, ConcatProperties
<1>8. ASSUME NEW i \in 1 .. m + n PROVE (s \o t)[i] = u[i]
  <2>1. CASE i <= m
    BY <2>1, <1>7, <1>1, <1>3
  <2>2. CASE ~(i <= m)
    <3>1. i - m \in 1 .. n /\ m + (i - m) = i
      BY <2>2
    <3> QED
      BY <3>1, <2>2, <1>7, <1>2, <1>3
  <2> QED
    BY <2>1, <2>2
<1>9. s \o t = u
  BY <1>6, <1>7, <1>8, SeqEqual
<1> QED
  BY <1>1, <1>2, <1>3, <1>4, <1>5, <1>9

\* A sequence that begins a stream counts its frames.
LEMMA BeginningCounts ==
  ASSUME NEW s \in Seq(Nat), NEW t \in Seq(Nat),
         \A i \in 1 .. Len(s \o t) : (s \o t)[i] = i
  PROVE  \A i \in 1 .. Len(s) : s[i] = i
<1>1. Len(s) \in Nat /\ Len(t) \in Nat /\ Len(s \o t) = Len(s) + Len(t)
  BY ConcatProperties
<1>2. \A i \in 1 .. Len(s) : i \in 1 .. Len(s \o t) /\ (s \o t)[i] = s[i]
  BY <1>1, ConcatProperties
<1> QED
  BY <1>2

\* A frame that is handed over next is the one that follows those handed before.
LEMMA NextFrame ==
  ASSUME NEW h \in Seq(Nat), NEW x \in Nat,
         \A i \in 1 .. Len(Append(h, x)) : Append(h, x)[i] = i
  PROVE  x = Len(h) + 1
<1>1. Len(h) \in Nat /\ Len(Append(h, x)) = Len(h) + 1 /\ Append(h, x)[Len(h) + 1] = x
  OBVIOUS
<1> QED
  BY <1>1

\* Push: the frames are behind all that came before; no outcome is told by it.
LEMMA PushEffect ==
  ASSUME QueueInv, NEW frames \in Seq(Nat), Push(frames)
  PROVE  /\ QueueInv'
         /\ handed' \o queue' = (handed \o queue) \o frames
         /\ done' = done /\ error' = error
         /\ \A x \in Outcome : Told(x)' => Told(x)
<1> USE DEF QueueInv, QueueTypeOK
<1>1. CASE /\ waiter # 0 /\ frames # <<>>
           /\ answer' = [answer EXCEPT ![waiter] = "frame"]
           /\ handed' = Append(handed, Head(frames))
           /\ waiter' = 0
           /\ queue' = queue \o Tail(frames)
           /\ UNCHANGED <<done, error>>
  <2>1. /\ queue = <<>> /\ ~done /\ answer[waiter] = "waiting" /\ waiter = Len(answer)
    BY <1>1 DEF WaiterIsIdle
  <2>2. queue' = Tail(frames) /\ queue' \in Seq(Nat) /\ handed' \in Seq(Nat)
        /\ handed' \o queue' = handed \o frames
    <3>1. /\ Append(handed, Head(frames)) \in Seq(Nat)
          /\ Tail(frames) \in Seq(Nat)
          /\ Append(handed, Head(frames)) \o Tail(frames) = handed \o frames
      BY <1>1, FirstMoves
    <3>2. queue \o Tail(frames) = Tail(frames)
      BY <2>1, <3>1, ConcatEmptySeq
    <3> QED
      BY <1>1, <3>1, <3>2
  <2>3. handed \o queue = handed
    BY <2>1, ConcatEmptySeq
  <2>4. /\ answer' \in Seq(Answer)
        /\ DOMAIN answer' = DOMAIN answer
        /\ \A i \in DOMAIN answer : answer'[i] \in Outcome => answer[i] = answer'[i]
    BY <1>1, <2>1 DEF Answer, Outcome
  <2>5. \A x \in Outcome : Told(x)' => Told(x)
    BY <2>4 DEF Told
  <2>6. OneOutcome'
    BY <2>5, <1>1 DEF OneOutcome, Outcome
  <2>7. QueueTypeOK' /\ WaiterIsIdle'
    BY <1>1, <2>2, <2>4 DEF WaiterIsIdle
  <2> QED
    BY <1>1, <2>2, <2>3, <2>5, <2>6, <2>7
<1>2. CASE /\ waiter = 0 \/ frames = <<>>
           /\ queue' = queue \o frames
           /\ UNCHANGED <<waiter, done, error, answer, handed>>
  <2>1. queue' \in Seq(Nat) /\ handed' \o queue' = (handed \o queue) \o frames
    <3>1. queue \o frames \in Seq(Nat)
      BY ConcatProperties
    <3>2. (handed \o queue) \o frames = handed \o (queue \o frames)
      BY SMTT(30), ConcatAssociative
    <3> QED
      BY <1>2, <3>1, <3>2
  <2>2. \A x \in Outcome : Told(x)' = Told(x)
    BY <1>2 DEF Told
  <2>3. QueueTypeOK' /\ OneOutcome'
    BY <1>2, <2>1, <2>2 DEF OneOutcome, Outcome
  <2>4. WaiterIsIdle'
    BY <1>2, ConcatEmptySeq DEF WaiterIsIdle
  <2> QED
    BY <1>2, <2>1, <2>2, <2>3, <2>4
<1> QED
  BY <1>1, <1>2 DEF Push

\* finish: it is done, the first outcome stays, and what it tells, it tells the
\* latest call, which waited at an empty queue.
LEMMA FinishEffect ==
  ASSUME QueueInv, NEW err \in BOOLEAN, Finish(err)
  PROVE  /\ QueueInv'
         /\ queue' = queue /\ handed' = handed
         /\ done'
         /\ error' = IF done THEN error ELSE err
         /\ DOMAIN answer' = DOMAIN answer
         /\ \A i \in DOMAIN answer :
              \/ answer'[i] = answer[i]
              \/ i = Len(answer) /\ answer'[i] \in Outcome /\ queue = <<>> /\ ~done
<1> USE DEF QueueInv, QueueTypeOK
<1>1. CASE done /\ UNCHANGED queueVars
  BY <1>1 DEF queueVars, WaiterIsIdle, OneOutcome, Told
<1>2. CASE /\ ~done
           /\ done' = TRUE
           /\ error' = err
           /\ waiter' = 0
           /\ answer' = IF waiter = 0 THEN answer
                        ELSE [answer EXCEPT ![waiter] = IF err THEN "failed" ELSE "end"]
           /\ UNCHANGED <<queue, handed>>
  <2>1. /\ answer' \in Seq(Answer)
        /\ DOMAIN answer' = DOMAIN answer
        /\ \A i \in DOMAIN answer :
             \/ answer'[i] = answer[i]
             \/ i = Len(answer) /\ queue = <<>> /\ answer'[i] = IF err THEN "failed" ELSE "end"
    <3>1. CASE waiter = 0
      BY <3>1, <1>2
    <3>2. CASE waiter # 0
      <4>1. waiter = Len(answer) /\ queue = <<>> /\ waiter \in Nat
        BY <3>2 DEF WaiterIsIdle
      <4> QED
        BY <3>2, <4>1, <1>2 DEF Answer
    <3> QED
      BY <3>1, <3>2
  <2>2. ~Told("failed") /\ ~Told("end")
    BY <1>2 DEF OneOutcome
  <2>3. OneOutcome'
    BY <2>1, <2>2, <1>2 DEF OneOutcome, Told
  <2> QED
    BY <1>2, <2>1, <2>3 DEF WaiterIsIdle, Outcome
<1> QED
  BY <1>1, <1>2 DEF Finish

\* next(): the order stays, and an outcome is told when the queue is empty.
LEMMA CallEffect ==
  ASSUME QueueInv, Call
  PROVE  /\ QueueInv'
         /\ handed' \o queue' = handed \o queue
         /\ done' = done /\ error' = error
         /\ DOMAIN answer' = 1 .. Len(answer) + 1
         /\ \A i \in 1 .. Len(answer) : answer'[i] = answer[i]
         /\ answer'[Len(answer) + 1] = "frame" => queue # <<>>
         /\ answer'[Len(answer) + 1] \in Outcome => queue = <<>>
         /\ queue = <<>> => queue' = <<>>
<1> USE DEF QueueInv, QueueTypeOK
<1>0. PICK a : answer' = Append(answer, a) /\ a \in Answer
  BY DEF Call, Answer
<1>1. /\ answer' \in Seq(Answer)
      /\ Len(answer') = Len(answer) + 1
      /\ DOMAIN answer' = 1 .. Len(answer) + 1
      /\ \A i \in 1 .. Len(answer) : answer'[i] = answer[i]
      /\ answer'[Len(answer) + 1] = a
  BY <1>0
<1>2. ASSUME a \notin Outcome PROVE \A x \in Outcome : Told(x)' => Told(x)
  <2>1. PICK n \in Nat : n = Len(answer)
    OBVIOUS
  <2>2. /\ DOMAIN answer = 1 .. n
        /\ DOMAIN answer' = 1 .. n + 1
        /\ \A i \in 1 .. n : answer'[i] = answer[i]
        /\ answer'[n + 1] = a
    BY <1>1, <2>1
  <2>3. ASSUME NEW x \in Outcome, NEW i \in 1 .. n + 1, answer'[i] = x
        PROVE  i \in 1 .. n /\ answer[i] = x
    <3>1. i # n + 1
      BY <1>2, <2>2, <2>3
    <3> QED
      BY <2>2, <2>3, <3>1
  <2> QED
    BY <2>2, <2>3 DEF Told
<1>3. CASE /\ queue # <<>>
           /\ answer' = Append(answer, "frame")
           /\ handed' = Append(handed, Head(queue))
           /\ queue' = Tail(queue)
           /\ UNCHANGED <<waiter, done, error>>
  <2>1. a = "frame" /\ waiter = 0
    BY <1>0, <1>1, <1>3 DEF WaiterIsIdle
  <2>2. OneOutcome'
    BY <2>1, <1>2, <1>3 DEF OneOutcome, Outcome
  <2> QED
    BY <1>1, <1>3, <2>1, <2>2, FirstMoves DEF WaiterIsIdle, Outcome
<1>4. CASE /\ queue = <<>> /\ done
           /\ answer' = Append(answer, IF error THEN "failed" ELSE "end")
           /\ UNCHANGED <<queue, waiter, done, error, handed>>
  <2>1. a = (IF error THEN "failed" ELSE "end") /\ waiter = 0
    BY <1>0, <1>1, <1>4 DEF WaiterIsIdle
  <2>2. OneOutcome'
    <3>1. \A x \in Outcome : Told(x)' => Told(x) \/ x = a
      BY SMTT(30), <1>1 DEF Told
    <3> QED
      BY <3>1, <2>1, <1>4 DEF OneOutcome, Outcome
  <2> QED
    BY <1>1, <1>4, <2>1, <2>2 DEF WaiterIsIdle, Outcome
<1>5. CASE /\ queue = <<>> /\ ~done
           /\ answer' = Append(answer, "waiting")
           /\ waiter' = Len(answer) + 1
           /\ UNCHANGED <<queue, done, error, handed>>
  <2>1. a = "waiting"
    BY <1>0, <1>1, <1>5
  <2>2. OneOutcome'
    BY <2>1, <1>2, <1>5 DEF OneOutcome, Outcome
  <2> QED
    BY <1>1, <1>5, <2>1, <2>2 DEF WaiterIsIdle, Outcome
<1> QED
  BY <1>3, <1>4, <1>5 DEF Call
-----------------------------------------------------------------------------
(***************************************************************************)
(* Which outcomes a step tells.                                            *)
(***************************************************************************)

\* A new call that is answered with a.
LEMMA AppendTells ==
  ASSUME answer \in Seq(Answer), NEW a \in Answer, answer' = Append(answer, a)
  PROVE  \A x : Told(x)' <=> Told(x) \/ x = a
<1>1. PICK n \in Nat : n = Len(answer)
  OBVIOUS
<1>2. /\ DOMAIN answer = 1 .. n
      /\ DOMAIN answer' = 1 .. n + 1
      /\ \A i \in 1 .. n : answer'[i] = answer[i]
      /\ answer'[n + 1] = a
  BY <1>1
<1>3. \A i \in 1 .. n : i \in 1 .. n + 1
  OBVIOUS
<1>4. \A i \in 1 .. n + 1 : i \in 1 .. n \/ i = n + 1
  OBVIOUS
<1>5. n + 1 \in 1 .. n + 1
  OBVIOUS
<1> QED
  BY <1>2, <1>3, <1>4, <1>5 DEF Told

\* The waiting call that is answered with a.
LEMMA ReplaceTells ==
  ASSUME QueueInv, waiter # 0, NEW a \in Answer, answer' = [answer EXCEPT ![waiter] = a]
  PROVE  \A x \in Outcome : Told(x)' <=> Told(x) \/ x = a
<1>1. waiter \in DOMAIN answer /\ answer[waiter] = "waiting"
  BY DEF QueueInv, QueueTypeOK, WaiterIsIdle
<1>2. /\ DOMAIN answer' = DOMAIN answer
      /\ answer'[waiter] = a
      /\ \A i \in DOMAIN answer : i # waiter => answer'[i] = answer[i]
  BY <1>1
<1> QED
  BY <1>1, <1>2 DEF Told, Outcome

\* Push tells no outcome and takes none back.
LEMMA PushTells ==
  ASSUME QueueInv, NEW frames \in Seq(Nat), Push(frames)
  PROVE  \A x \in Outcome : Told(x)' <=> Told(x)
<1>1. CASE waiter # 0 /\ answer' = [answer EXCEPT ![waiter] = "frame"]
  BY <1>1, ReplaceTells DEF Answer, Outcome
<1>2. CASE answer' = answer
  BY <1>2 DEF Told
<1> QED
  BY <1>1, <1>2 DEF Push
=============================================================================
