---------------------------- MODULE FrameChannel ----------------------------
(***************************************************************************)
(* What a subscription promises its consumer, whatever the transport: the  *)
(* frames in the order they came, each once; then one outcome, which is    *)
(* told only when every frame was taken, unless the consumer cancelled;    *)
(* and nothing after an outcome that the consumer did not ask for.         *)
(***************************************************************************)
EXTENDS Naturals, Sequences

VARIABLES
  came,       \* how many frames came from the server
  taken,      \* the frames the consumer has, each the number it came under
  cancelled,  \* the consumer closed or aborted the subscription
  told        \* the outcomes that calls of next() were answered with

vars == <<came, taken, cancelled, told>>

Init ==
  /\ came = 0
  /\ taken = <<>>
  /\ cancelled \in BOOLEAN
  /\ told = {}

\* The consumer gets the frame that follows those it has.
Taken == Append(taken, Len(taken) + 1)

\* Frames come, and one of them may go straight to a consumer that waits.
Come ==
  /\ told = {} \/ cancelled
  /\ came' \in Nat /\ came' > came
  /\ taken' \in {taken, Taken}
  /\ Len(taken') <= came'
  /\ UNCHANGED <<cancelled, told>>

Take ==
  /\ Len(taken) < came
  /\ taken' = Taken
  /\ UNCHANGED <<came, cancelled, told>>

\* A failure is told after all the frames; so is an end, unless it is the answer
\* to a cancellation.
Tell(outcome) ==
  /\ told = {}
  /\ Len(taken) = came \/ (cancelled' /\ outcome = "end")
  /\ told' = {outcome}
  /\ UNCHANGED <<came, taken>>

Cancel ==
  /\ cancelled' = TRUE
  /\ \/ UNCHANGED told
     \/ Tell("end")
  /\ UNCHANGED <<came, taken>>

Next ==
  \/ Come \/ Take \/ Cancel
  \/ \E outcome \in {"end", "failed"} : Tell(outcome) /\ UNCHANGED cancelled

Spec == Init /\ [][Next]_vars
=============================================================================
