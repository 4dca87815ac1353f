-------------------------- MODULE SseSubscription --------------------------
(***************************************************************************)
(* sseSubscribe in streams.ts: one server-sent-event subscription.         *)
(*                                                                         *)
(* A background loop fetches the stream and pumps the frames of each chunk *)
(* into the queue; the consumer calls next(), close() or return(), or      *)
(* aborts the signal it passed in.  Between the moment an awaited promise  *)
(* settles and the moment the loop goes on, the consumer may act: the loop *)
(* is then at one of the stages refused, chunk, eof or threw.              *)
(***************************************************************************)
EXTENDS AsyncQueue

CONSTANTS
  MaxFrames,  \* bound: frames the server sends
  MaxChunk,   \* bound: frames completed by one chunk
  MaxCalls,   \* bound: calls of next()
  Overlap     \* the consumer may call next() while an earlier call waits

ASSUME SseAssumption ==
  /\ MaxFrames \in Nat
  /\ MaxChunk \in Nat
  /\ MaxCalls \in Nat
  /\ Overlap \in BOOLEAN

VARIABLES
  loop,      \* where the background loop is
  chunk,     \* the frames of the chunk that reader.read() resolved with
  received,  \* how many frames have come out of the response body
  aborted,   \* controller.signal.aborted
  cause      \* history: what ended the transport

sseVars == <<loop, chunk, received, aborted, cause>>
vars    == <<queueVars, sseVars>>

Stage == {"fetch", "refused", "read", "chunk", "eof", "threw", "over"}
Cause == {"none", "eof", "failure", "abort"}

\* The next n frames of the stream.
Frames(n) == [i \in 1 .. n |-> received + i]

\* The signal passed in may be aborted already.
Init ==
  /\ QueueInit
  /\ loop = "fetch"
  /\ chunk = <<>>
  /\ received = 0
  /\ aborted \in BOOLEAN
  /\ cause = "none"
-----------------------------------------------------------------------------
(***************************************************************************)
(* The background loop, and the network it awaits (external).              *)
(***************************************************************************)

\* fetch resolves with a stream, or with a 429 or another failure status whose
\* body is awaited before the throw (for as long as the server takes, or until
\* an abort).
Respond ==
  /\ loop = "fetch" /\ ~aborted
  /\ loop' \in {"read", "refused"}
  /\ UNCHANGED <<queueVars, chunk, received, aborted, cause>>

Refuse ==
  /\ loop = "refused"
  /\ loop' = "threw"
  /\ cause' = "failure"
  /\ UNCHANGED <<queueVars, chunk, received, aborted>>

\* reader.read() resolves with a chunk that completes n frames, perhaps none.
Arrive ==
  /\ loop = "read" /\ ~aborted
  /\ \E n \in 0 .. MaxChunk :
       /\ received + n <= MaxFrames
       /\ chunk' = Frames(n)
       /\ received' = received + n
  /\ loop' = "chunk"
  /\ UNCHANGED <<queueVars, aborted, cause>>

\* The connection breaks, before the response or in the body.
Break ==
  /\ loop \in {"fetch", "read"} /\ ~aborted
  /\ loop' = "threw"
  /\ cause' = "failure"
  /\ UNCHANGED <<queueVars, chunk, received, aborted>>

\* The server ends the stream: reader.read() resolves with done.
EndOfStream ==
  /\ loop = "read" /\ ~aborted
  /\ loop' = "eof"
  /\ cause' = "eof"
  /\ UNCHANGED <<queueVars, chunk, received, aborted>>

\* An aborted fetch or read rejects.
Reject ==
  /\ loop \in {"fetch", "read"} /\ aborted
  /\ loop' = "threw"
  /\ cause' = "abort"
  /\ UNCHANGED <<queueVars, chunk, received, aborted>>

Pump ==
  /\ loop = "chunk"
  /\ Push(chunk)
  /\ chunk' = <<>>
  /\ loop' = "read"
  /\ UNCHANGED <<received, aborted, cause>>

\* finish() after the loop.
End ==
  /\ loop = "eof"
  /\ Finish(FALSE)
  /\ loop' = "over"
  /\ UNCHANGED <<chunk, received, aborted, cause>>

\* Mutations: no throw is an error; nothing is told after an abort.
CatchNone ==
  /\ loop = "threw"
  /\ Finish(FALSE)
  /\ loop' = "over"
  /\ UNCHANGED <<chunk, received, aborted, cause>>

CatchQuietly ==
  /\ loop = "threw"
  /\ IF aborted THEN UNCHANGED queueVars ELSE Finish(TRUE)
  /\ loop' = "over"
  /\ UNCHANGED <<chunk, received, aborted, cause>>

\* The catch block: after an abort, whatever was thrown is a clean end.
Catch ==
  /\ loop = "threw"
  /\ Finish(~aborted)
  /\ loop' = "over"
  /\ UNCHANGED <<chunk, received, aborted, cause>>
-----------------------------------------------------------------------------
(***************************************************************************)
(* The consumer.                                                           *)
(***************************************************************************)
Take ==
  /\ Len(answer) < MaxCalls
  /\ Pending => Overlap
  /\ Call
  /\ UNCHANGED sseVars

\* close() and the iterator's return().
Close ==
  /\ aborted' = TRUE
  /\ Finish(FALSE)
  /\ UNCHANGED <<loop, chunk, received, cause>>

\* The consumer's signal aborts: only the controller is told.
Abort ==
  /\ aborted' = TRUE
  /\ UNCHANGED <<queueVars, loop, chunk, received, cause>>
-----------------------------------------------------------------------------
Network  == Respond \/ Refuse \/ Arrive \/ Break \/ EndOfStream
Loop     == (aborted /\ Refuse) \/ Reject \/ Pump \/ End \/ Catch
Consumer == Take \/ Close \/ Abort

Next == Network \/ Loop \/ Consumer

Spec == Init /\ [][Next]_vars

\* A settled promise is resumed: the loop goes on.  Nothing is assumed of the
\* server, which may stay silent, or of the consumer.
FairSpec == Spec /\ WF_vars(Loop)
-----------------------------------------------------------------------------
(***************************************************************************)
(* Properties.                                                             *)
(***************************************************************************)
TypeOK ==
  /\ QueueTypeOK
  /\ loop \in Stage
  /\ chunk \in Seq(Nat)
  /\ received \in Nat
  /\ aborted \in BOOLEAN
  /\ cause \in Cause

\* Whatever the interleaving of chunks, calls and aborts, and even when calls
\* of next() overlap: every frame that came out of the body is handed over once
\* and in the order of the stream, or is still on its way.
FramesInOrder == handed \o queue \o chunk = [i \in 1 .. received |-> i]

\* The consumer is told of a failure, or of an end it did not ask for, only
\* after it was given every frame that came before.
EndsAfterFrames ==
  Told("failed") \/ (Told("end") /\ ~aborted) => Len(handed) = received

\* A broken connection is not passed off as the end of the stream: a clean end
\* was asked for by the consumer or made by the server.  And an abort is not
\* passed off as a failure: the consumer is told of one only if the transport
\* failed by itself, before its reads were rejected for the abort.
\* (streams.ts 207-212)
CleanEndIsTrue ==
  /\ Told("end") => aborted \/ cause = "eof"
  /\ Told("failed") => cause = "failure"

\* "Aborts via close()/signal are expected; surface as a clean end"
\* (streams.ts:209): whatever the loop was waiting for when the abort came, and
\* whatever failed in the race with it, an error that had not been recorded
\* before the abort never surfaces.
AbortIsClean == [][aborted /\ ~error => ~error']_vars

\* After an end that the consumer did not ask for no call gets a frame.
EndIsFinal ==
  \A i, j \in DOMAIN answer :
    i < j /\ answer[i] \in {"end", "failed"} /\ answer[j] = "frame" => aborted

\* The call made last has been answered.  (An earlier one that it replaced while
\* it waited is never answered, whatever happens.)
LastCallAnswered == answer # <<>> => answer[Len(answer)] # "waiting"

\* The doc comment of the module: "pass an `AbortSignal` (or call the returned
\* `close()`) to stop" (streams.ts:18).  After an abort, and once the transport
\* has ended or failed, the consumer does not wait for ever, even if the server
\* stays silent and nobody calls again.
EndReleases == (aborted \/ loop \in {"eof", "threw", "over"}) ~> LastCallAnswered

Channel == INSTANCE FrameChannel WITH
  came <- received - Len(chunk),
  taken <- handed,
  cancelled <- aborted,
  told <- {outcome \in {"end", "failed"} : Told(outcome)}

\* The subscription is a channel of frames: FrameChannel says what that is.
IsChannel == Channel!Spec
-----------------------------------------------------------------------------
\* Where the loop and the queue stand, for the inductive invariant: frames are
\* held back only between a read and its pump, a subscription that nobody
\* aborted is done when the loop is over, and an error was a failure of the
\* transport.
LoopInv ==
  /\ loop # "chunk" => chunk = <<>>
  /\ done => aborted \/ loop = "over"
  /\ error => loop = "over" /\ cause = "failure"
  /\ loop = "eof" => cause = "eof"
  /\ loop = "threw" => aborted \/ cause = "failure"
  /\ done /\ ~error => aborted \/ cause = "eof"

\* An outcome is told when the queue is empty, and stays the last word.
ToldInv == Told("failed") \/ (Told("end") /\ ~aborted) => queue = <<>>

IInv ==
  /\ TypeOK
  /\ WaiterIsIdle
  /\ OneOutcome
  /\ FramesInOrder
  /\ LoopInv
  /\ ToldInv
  /\ EndIsFinal
=============================================================================
