----------------------------- MODULE Submission -----------------------------
(***************************************************************************)
(* Placing and cancelling an order of one market (trading.ts), through the *)
(* relayer or directly on the chain, by a caller that repeats calls whose  *)
(* outcome it does not know: a submission that throws may have arrived.    *)
(*                                                                         *)
(* What keeps a repetition from executing twice is the replay number of    *)
(* the signed intent, a u64 that the caller picks or the helper draws.     *)
(* The program is external.  It has a rolling replay cache                 *)
(* (intent_reference.md:85): it refuses the numbers of its last Window     *)
(* executions and has forgotten those before, so that an intent without an *)
(* expiry can execute again.  It executes nothing outside its slots.  That *)
(* the numbers drawn differ from each other and from those that callers    *)
(* pick is an assumption.                                                  *)
(***************************************************************************)
EXTENDS Naturals, Sequences

CONSTANTS Ids,       \* the numbers that callers pick, for an order and for a replay number alike
          Draw,      \* the number that a helper draws in the n-th call
          Window,    \* how many executions the replay cache holds (harness.ts:136)
          MaxCalls,  \* bound: calls
          MaxExecutions, \* bound: executions
          MaxSlot,   \* bound: the slot
          Lifetime,  \* slots that a direct intent lives when no expiry was given: 20
          Default    \* a parameter that was not given

ASSUME SubmissionAssumption ==
  /\ MaxCalls \in Nat /\ MaxExecutions \in Nat /\ MaxSlot \in Nat /\ Window \in Nat
  /\ Lifetime \in Nat \ {0}
  /\ Default \notin Ids
  /\ \A call \in 1 .. MaxCalls : Draw[call] \notin Ids
  /\ \A call, other \in 1 .. MaxCalls : Draw[call] = Draw[other] => call = other

VARIABLES slot,      \* the slot of the chain
          pools,     \* the deployment's directPoolsInitialized
          asked,     \* how many calls were made
          posted,    \* signed intents that were sent
          landed     \* what the program executed, in order: the intent and the slot

submitVars == <<slot, pools, asked, posted, landed>>

\* What the caller gives: the client id of the order that is placed or cancelled, a replay number
\* (intentClientOrderId or nonce), and the bounds of execution.  Bound: not both bounds at a time.
Params ==
  {r \in [path : {"relayer", "direct"}, op : {"place", "cancel", "cancelAll"},
          clientOrderId : Ids \cup {Default}, replay : Ids \cup {Default},
          minExecuteSlot : {0, 1}, expiresAtSlot : {Default, 0, MaxSlot}] :
     /\ r.op = "cancel" => r.clientOrderId # Default
     /\ r.op = "cancelAll" => r.clientOrderId = Default
     /\ r.minExecuteSlot = 0 \/ r.expiresAtSlot = Default}

SubmitInit ==
  /\ slot = 0
  /\ pools \in BOOLEAN
  /\ asked = 0 /\ posted = {} /\ landed = << >>

\* Mutations: the relayer's place helper draws a number of its own as the other helpers do, and
\* the cancel helper signs under the number of the order it cancels.
RandomReplay(r, call) == IF r.replay # Default THEN r.replay ELSE Draw[call]
OrdersReplay(r, call) ==
  CASE r.replay # Default -> r.replay
    [] r.replay = Default /\ r.path = "relayer" /\ r.clientOrderId # Default -> r.clientOrderId
    [] OTHER -> Draw[call]

\* The replay number: as given; or, where an order is placed through the relayer, the client id
\* of the order; or drawn.
Replay(r, call) ==
  CASE r.replay # Default -> r.replay
    [] r.replay = Default /\ r.path = "relayer" /\ r.op = "place" /\ r.clientOrderId # Default -> r.clientOrderId
    [] OTHER -> Draw[call]

\* submitPerpIntentDirect refuses what the direct pool cannot do, and the builder under it an
\* intent that would never expire.
Refused(r) == r.path = "direct" /\ (~pools \/ r.minExecuteSlot # 0)
Unbuildable(r) == r.path = "direct" /\ r.expiresAtSlot = 0

\* A mutation: without an expiry of its own, an intent lives for ever on either path.
EndlessExpiries(r) == {IF r.expiresAtSlot = Default THEN 0 ELSE r.expiresAtSlot}

\* The slot after which the intent is dead; 0 is never.  The confirmed slot that a direct call
\* reads may be an old one.
Expiries(r) ==
  CASE r.expiresAtSlot # Default -> {r.expiresAtSlot}
    [] r.expiresAtSlot = Default /\ r.path = "relayer" -> {0}
    [] OTHER -> {seen + Lifetime : seen \in 0 .. slot}

\* A call ends: it throws before anything is signed, or the intent leaves.  Nothing is known of
\* it then, whether the call returns or throws.
SubmitCall(r) ==
  /\ asked < MaxCalls
  /\ asked' = asked + 1
  /\ IF Refused(r) \/ Unbuildable(r) THEN UNCHANGED posted
     ELSE \E expires \in Expiries(r) :
            posted' = posted \cup {[request |-> r, replay |-> Replay(r, asked'), call |-> asked', sent |-> slot, expires |-> expires]}
  /\ UNCHANGED <<slot, pools, landed>>

\* The replay cache holds the number of i.  Nothing here says whether the numbers of one path
\* also count on the other, or whether the executions of one take room in the cache of the other:
\* the model takes what allows the program most.
Remembered(i) ==
  \E k \in DOMAIN landed :
    /\ k + Window > Len(landed)
    /\ landed[k].intent.request.path = i.request.path /\ landed[k].intent.replay = i.replay

\* The program comes to an intent, for the first time or again: whoever has a signed intent can
\* hand it in as often as he likes.
Execute(i) ==
  /\ i \in posted /\ Len(landed) < MaxExecutions
  /\ ~Remembered(i)
  /\ slot >= i.request.minExecuteSlot
  /\ i.expires = 0 \/ slot <= i.expires
  /\ landed' = Append(landed, [intent |-> i, at |-> slot])
  /\ UNCHANGED <<slot, pools, asked, posted>>

Slot ==
  /\ slot < MaxSlot
  /\ slot' = slot + 1
  /\ UNCHANGED <<pools, asked, posted, landed>>

SubmitNext ==
  \/ \E r \in Params : SubmitCall(r)
  \/ \E i \in posted : Execute(i)
  \/ Slot

SubmitSpec == SubmitInit /\ [][SubmitNext]_submitVars

-----------------------------------------------------------------------------

\* The caller fixed the number: as such, or through the relayer by the client id of the order.
Fixed(r) == r.replay # Default \/ (r.path = "relayer" /\ r.op = "place" /\ r.clientOrderId # Default)

\* The same call, but for its bounds.
Repeats(r, s) ==
  r.path = s.path /\ r.op = s.op /\ r.clientOrderId = s.clientOrderId /\ r.replay = s.replay

\* A call repeated as it was, after an outcome its caller could not tell, does not execute beside
\* the first one while the replay cache holds that one, if the caller fixed the number.  Once
\* Window other intents have executed since, it can: the protection is no more than that.  On
\* the direct path the client id of the order does not give it.  (trading.ts 266-355)
ExecutedOnce ==
  \A j, k \in DOMAIN landed :
    /\ j < k
    /\ Repeats(landed[j].intent.request, landed[k].intent.request) /\ Fixed(landed[j].intent.request)
    => k - j > Window

\* What the program takes for a replay is a repetition of what it has, unless a caller gave the
\* number: a cancellation is never dropped in favour of the order that it cancels, nor an order
\* or a cancellation in favour of another one.  (trading.ts 244, 271-272, 362, 420)
ReplayIsRepeat ==
  \A i, j \in posted :
    i.replay = j.replay /\ i.request.replay = Default /\ j.request.replay = Default =>
      Repeats(i.request, j.request)

\* A direct call for which no expiry was given may have thrown although its intent arrived; once
\* Lifetime slots have passed since, nothing of it executes any more, forgotten or not, and the
\* order may be placed again without a number of its own.  (trading.ts 203-246, intents.ts 718-725)
DirectEnds ==
  \A k \in DOMAIN landed :
    LET i == landed[k].intent
    IN i.request.path = "direct" /\ i.request.expiresAtSlot = Default => landed[k].at <= i.sent + Lifetime

=============================================================================
