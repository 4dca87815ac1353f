-------------------------- MODULE TickSubscription --------------------------
(***************************************************************************)
(* subscribeTicks in streams.ts: the tick stream over a WebSocket.  The    *)
(* socket's events call into the queue; the consumer calls next(), close() *)
(* or return(), or aborts its signal, which calls close().  After close()  *)
(* the socket goes through its closing handshake: its events still come.   *)
(***************************************************************************)
EXTENDS AsyncQueue

CONSTANTS
  MaxFrames,  \* bound: messages the server sends
  MaxCalls,   \* bound: calls of next()
  Overlap     \* the consumer may call next() while an earlier call waits

ASSUME TickAssumption ==
  /\ MaxFrames \in Nat
  /\ MaxCalls \in Nat
  /\ Overlap \in BOOLEAN

VARIABLES
  socket,    \* the WebSocket
  received,  \* how many messages have come
  cancelled, \* history: the consumer has called close() or return(), or aborted
  broken     \* history: the socket had an error before it was cancelled

tickVars == <<socket, received, cancelled, broken>>
vars     == <<queueVars, tickVars>>

Socket == {"open", "closing", "failed", "closed"}

\* `open' stands for a connecting socket as well.  A signal that is aborted
\* already closes the socket before it has opened.
Init ==
  \E already \in BOOLEAN :
    /\ queue = <<>> /\ waiter = 0 /\ answer = <<>> /\ handed = <<>> /\ error = FALSE
    /\ done = already
    /\ socket = IF already THEN "closing" ELSE "open"
    /\ received = 0
    /\ cancelled = already
    /\ broken = FALSE
-----------------------------------------------------------------------------
(***************************************************************************)
(* The socket's events.                                                    *)
(***************************************************************************)

\* A message that parses.  One that does not is ignored and changes nothing.
\* (A socket that is closing may still deliver messages.)
Message ==
  /\ socket \in {"open", "closing"}
  /\ received < MaxFrames
  /\ received' = received + 1
  /\ Push(<<received + 1>>)
  /\ UNCHANGED <<socket, cancelled, broken>>

\* A mutation: an error ends the subscription as a close does.
ErrorAsClose ==
  /\ socket \in {"open", "closing"}
  /\ socket' = "failed"
  /\ broken' = (broken \/ ~cancelled)
  /\ Finish(FALSE)
  /\ UNCHANGED <<received, cancelled>>

ErrorEvent ==
  /\ socket \in {"open", "closing"}
  /\ socket' = "failed"
  /\ broken' = (broken \/ ~cancelled)
  /\ Finish(TRUE)
  /\ UNCHANGED <<received, cancelled>>

\* The connection is gone, after a handshake, an error, or without either.
CloseEvent ==
  /\ socket # "closed"
  /\ socket' = "closed"
  /\ Finish(FALSE)
  /\ UNCHANGED <<received, cancelled, broken>>
-----------------------------------------------------------------------------
(***************************************************************************)
(* The consumer.                                                           *)
(***************************************************************************)
Take ==
  /\ Len(answer) < MaxCalls
  /\ Pending => Overlap
  /\ Call
  /\ UNCHANGED tickVars

\* close(), return(), and the abort of the signal.
Close ==
  /\ socket' = IF socket = "open" THEN "closing" ELSE socket
  /\ cancelled' = TRUE
  /\ Finish(FALSE)
  /\ UNCHANGED <<received, broken>>
-----------------------------------------------------------------------------
Next == Message \/ ErrorEvent \/ CloseEvent \/ Take \/ Close

Spec == Init /\ [][Next]_vars
-----------------------------------------------------------------------------
(***************************************************************************)
(* Properties.                                                             *)
(***************************************************************************)
TypeOK ==
  /\ QueueTypeOK
  /\ socket \in Socket
  /\ received \in Nat
  /\ cancelled \in BOOLEAN
  /\ broken \in BOOLEAN

\* No lost wake-up: a call waits only while there is nothing to hand it and
\* neither the socket nor the consumer has ended the subscription.
WaiterIsLive == WaiterIsIdle /\ (waiter # 0 => socket = "open" /\ ~cancelled)

\* Every message is handed over once and in order, or is queued, also when it
\* comes while the socket is closing or when calls of next() overlap.
FramesInOrder == handed \o queue = [i \in 1 .. received |-> i]

\* A consumer that did not cancel is told of an error if and only if there was
\* one, and only after it has been given every message.
OutcomeIsTrue ==
  /\ Told("failed") => broken
  /\ Told("end") /\ ~cancelled => ~broken
  /\ Told("failed") \/ (Told("end") /\ ~cancelled) => Len(handed) = received

Channel == INSTANCE FrameChannel WITH
  came <- received,
  taken <- handed,
  cancelled <- cancelled,
  told <- {outcome \in {"end", "failed"} : Told(outcome)}

\* The tick stream keeps the same promise as the server-sent events.
IsChannel == Channel!Spec
-----------------------------------------------------------------------------
\* The subscription is done exactly when the socket is no longer open, and it
\* failed only if the socket broke before it was cancelled.
SocketInv ==
  /\ done <=> socket # "open"
  /\ cancelled => socket # "open"
  /\ error => broken /\ socket \in {"failed", "closed"}
  /\ broken => error
  /\ done /\ ~cancelled => socket \in {"failed", "closed"}

ToldInv == Told("failed") \/ (Told("end") /\ ~cancelled) => queue = <<>>

IInv ==
  /\ TypeOK
  /\ WaiterIsIdle
  /\ OneOutcome
  /\ FramesInOrder
  /\ SocketInv
  /\ ToldInv
=============================================================================
