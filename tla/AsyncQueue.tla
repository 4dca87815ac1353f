----------------------------- MODULE AsyncQueue -----------------------------
(***************************************************************************)
(* The queue, the waiter and the end of a subscription in streams.ts.      *)
(* sseSubscribe and subscribeTicks each hold one copy of it: the producer  *)
(* pushes frames and finishes, the consumer calls next().  The operators   *)
(* below are the bodies of the callbacks; the modules of the two           *)
(* transports call them from their actions.                                *)
(*                                                                         *)
(* A frame is the number under which the server sent it.                   *)
(***************************************************************************)
EXTENDS Naturals, Sequences

VARIABLES
  queue,   \* frames that arrived while nobody waited
  waiter,  \* the call of next() whose resolve is kept, 0 for none
  done,    \* finish has run
  error,   \* finish was given an error
  answer,  \* answer[i]: how the i-th promise returned by next() was settled
  handed   \* history: the frames handed to the consumer, in that order

queueVars == <<queue, waiter, done, error, answer, handed>>

Answer == {"waiting", "frame", "end", "failed"}

QueueTypeOK ==
  /\ queue \in Seq(Nat)
  /\ waiter \in {0, Len(answer)}
  /\ done \in BOOLEAN
  /\ error \in BOOLEAN
  /\ answer \in Seq(Answer)
  /\ handed \in Seq(Nat)

QueueInit ==
  /\ queue = <<>>
  /\ waiter = 0
  /\ done = FALSE
  /\ error = FALSE
  /\ answer = <<>>
  /\ handed = <<>>

\* A mutation: the newest frame is queued in front of the older ones.
PushInFront(frames) ==
  \/ /\ waiter # 0 /\ frames # <<>>
     /\ answer' = [answer EXCEPT ![waiter] = "frame"]
     /\ handed' = Append(handed, Head(frames))
     /\ waiter' = 0
     /\ queue' = Tail(frames) \o queue
     /\ UNCHANGED <<done, error>>
  \/ /\ waiter = 0 \/ frames = <<>>
     /\ queue' = frames \o queue
     /\ UNCHANGED <<waiter, done, error, answer, handed>>

\* The loop over the frames of one chunk: the first goes to a consumer that
\* waits, the others are queued.  `done' is not looked at.
Push(frames) ==
  \/ /\ waiter # 0 /\ frames # <<>>
     /\ answer' = [answer EXCEPT ![waiter] = "frame"]
     /\ handed' = Append(handed, Head(frames))
     /\ waiter' = 0
     /\ queue' = queue \o Tail(frames)
     /\ UNCHANGED <<done, error>>
  \/ /\ waiter = 0 \/ frames = <<>>
     /\ queue' = queue \o frames
     /\ UNCHANGED <<waiter, done, error, answer, handed>>

\* A mutation: a second call replaces the outcome of the first.
FinishAgain(err) ==
  /\ done' = TRUE
  /\ error' = err
  /\ waiter' = 0
  /\ answer' = IF waiter = 0 THEN answer
               ELSE [answer EXCEPT ![waiter] = IF err THEN "failed" ELSE "end"]
  /\ UNCHANGED <<queue, handed>>

\* finish(err): only the first call counts.
Finish(err) ==
  \/ done /\ UNCHANGED queueVars
  \/ /\ ~done
     /\ done' = TRUE
     /\ error' = err
     /\ waiter' = 0
     /\ answer' = IF waiter = 0 THEN answer
                  ELSE [answer EXCEPT ![waiter] = IF err THEN "failed" ELSE "end"]
     /\ UNCHANGED <<queue, handed>>

\* next(): queued frames first, then the end; otherwise this call becomes the
\* waiter, in the place of any call that was.
Call ==
  \/ /\ queue # <<>>
     /\ answer' = Append(answer, "frame")
     /\ handed' = Append(handed, Head(queue))
     /\ queue' = Tail(queue)
     /\ UNCHANGED <<waiter, done, error>>
  \/ /\ queue = <<>> /\ done
     /\ answer' = Append(answer, IF error THEN "failed" ELSE "end")
     /\ UNCHANGED <<queue, waiter, done, error, handed>>
  \/ /\ queue = <<>> /\ ~done
     /\ answer' = Append(answer, "waiting")
     /\ waiter' = Len(answer) + 1
     /\ UNCHANGED <<queue, done, error, handed>>

-----------------------------------------------------------------------------
Told(outcome) == \E i \in DOMAIN answer : answer[i] = outcome

\* Some call of next() has not been answered.
Pending == Told("waiting")

\* No lost wake-up: a call is kept waiting only while there is nothing to hand
\* it and the subscription has not ended.
WaiterIsIdle ==
  waiter # 0 => /\ queue = <<>> /\ ~done
                /\ answer[waiter] = "waiting"

\* The consumer hears one outcome, the first that finish was given.
OneOutcome ==
  /\ Told("failed") => done /\ error
  /\ Told("end") => done /\ ~error
=============================================================================
