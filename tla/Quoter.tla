------------------------------- MODULE Quoter -------------------------------
(***************************************************************************)
(* RelayerPerpQuoterBot of quoter.ts: run() ticks until stop(); a tick     *)
(* reads the fair price and the market, cancels the last quote and submits *)
(* a new one.  Both requests go through the relayer, without a deadline:   *)
(* an answer may never come, and a request that was reported as failed may *)
(* have been accepted, or may still be.                                    *)
(*                                                                         *)
(* A quote is the number of its clientOrderId (Date.now() in the code).    *)
(***************************************************************************)
EXTENDS Naturals, FiniteSets

CONSTANTS
  Runs,      \* the calls of run()
  Patient,   \* after stop() the caller waits for run() to return before it calls it again
  MaxQuotes  \* bound: quotes submitted

ASSUME QuoterAssumption == Patient \in BOOLEAN /\ MaxQuotes \in Nat

VARIABLES
  running,  \* the bot's flag
  last,     \* lastClientOrderId, 0 for null
  loop,     \* loop[r]: where the loop of the call r of run() is
  book,     \* external: the bot's quotes that rest on the market
  stray,    \* external: requests reported as failed that may still arrive
  used,     \* history: how many quotes have been submitted
  lost,     \* history: the quotes whose submission was reported as failed
  late      \* history: how many quotes were submitted since stop()

botVars == <<running, last, loop>>
vars    == <<botVars, book, stray, used, lost, late>>

\* The stages of a call of run(), and the request it waits for: the quote it
\* names and whether the relayer has accepted it.
Stage == {"none", "tick", "cancel", "submit", "sleep", "ended"}
Loop  == [stage : Stage, quote : Nat, accepted : BOOLEAN]

At(stage, quote) == [stage |-> stage, quote |-> quote, accepted |-> FALSE]

Active(r) == loop[r].stage \notin {"none", "ended"}

\* A request names the kind of intent and the quote.
Request == [kind : {"cancel", "submit"}, quote : Nat]

\* What executing a request may make of the book.  A post-only order may be
\* refused, and cancelling a quote that is gone changes nothing.
Books(kind, quote) ==
  IF kind = "cancel" THEN {book \ {quote}} ELSE {book, book \cup {quote}}

Init ==
  /\ running = FALSE
  /\ last = 0
  /\ loop = [r \in Runs |-> At("none", 0)]
  /\ book = {}
  /\ stray = {}
  /\ used = 0
  /\ lost = {}
  /\ late = 0
-----------------------------------------------------------------------------
(***************************************************************************)
(* The caller.                                                             *)
(***************************************************************************)

\* After stop() and before run() has returned, the caller calls it if it cannot
\* wait.
MayCall == running \/ ~Patient \/ \A r \in Runs : ~Active(r)

\* A mutation: the flag is not looked at.
RunUnguarded(r) ==
  /\ loop[r].stage = "none"
  /\ MayCall
  /\ running' = TRUE
  /\ late' = 0
  /\ loop' = [loop EXCEPT ![r] = At("tick", 0)]
  /\ UNCHANGED <<last, book, stray, used, lost>>

\* run(): when the flag is set it throws `quoter is already running'.
Run(r) ==
  /\ loop[r].stage = "none"
  /\ MayCall
  /\ ~running
  /\ running' = TRUE
  /\ late' = 0
  /\ loop' = [loop EXCEPT ![r] = At("tick", 0)]
  /\ UNCHANGED <<last, book, stray, used, lost>>

\* stop(): the flag is all it changes.
Stop ==
  /\ running
  /\ running' = FALSE
  /\ late' = 0
  /\ UNCHANGED <<last, loop, book, stray, used, lost>>
-----------------------------------------------------------------------------
(***************************************************************************)
(* tick().                                                                 *)
(***************************************************************************)

\* The call of submitPerpOrderViaRelayer with a new clientOrderId.  (Bound.)
BeginSubmit(r) ==
  /\ used < MaxQuotes
  /\ used' = used + 1
  /\ late' = IF running THEN 0 ELSE late + 1
  /\ loop' = [loop EXCEPT ![r] = At("submit", used + 1)]

\* The price and the market state were read; the last quote, if there is one, is
\* cancelled first.
Quote(r) ==
  /\ loop[r].stage = "tick"
  /\ \/ /\ last # 0
        /\ loop' = [loop EXCEPT ![r] = At("cancel", last)]
        /\ UNCHANGED <<used, late>>
     \/ /\ last = 0
        /\ BeginSubmit(r)
  /\ UNCHANGED <<running, last, book, stray, lost>>

\* The price or the market state could not be read.
ReadFails(r) ==
  /\ loop[r].stage = "tick"
  /\ loop' = [loop EXCEPT ![r] = At("sleep", 0)]
  /\ UNCHANGED <<running, last, book, stray, used, lost, late>>

\* The relayer accepts the request (external).  Intents of a market are executed
\* in the order they are accepted, so the book changes with the acceptance.
Accept(r) ==
  LET n == loop[r] IN
  /\ n.stage \in {"cancel", "submit"} /\ ~n.accepted
  /\ book' \in Books(n.stage, n.quote)
  /\ loop' = [loop EXCEPT ![r] = [n EXCEPT !.accepted = TRUE]]
  /\ UNCHANGED <<running, last, stray, used, lost, late>>

Cancelled(r) ==
  /\ loop[r].stage = "cancel" /\ loop[r].accepted
  /\ BeginSubmit(r)
  /\ UNCHANGED <<running, last, book, stray, lost>>

Submitted(r) ==
  /\ loop[r].stage = "submit" /\ loop[r].accepted
  /\ last' = loop[r].quote
  /\ loop' = [loop EXCEPT ![r] = At("sleep", 0)]
  /\ UNCHANGED <<running, book, stray, used, lost, late>>

\* A mutation: a cancel that fails is ignored.
FailIgnored(r) ==
  LET n == loop[r] IN
  \/ /\ n.stage = "cancel"
     /\ BeginSubmit(r)
     /\ UNCHANGED <<running, last, book, stray, lost>>
  \/ /\ n.stage = "submit"
     /\ UNCHANGED stray
     /\ lost' = lost \cup {n.quote}
     /\ loop' = [loop EXCEPT ![r] = At("sleep", 0)]
     /\ UNCHANGED <<running, last, book, used, late>>

\* The request is rejected, whether or not it was accepted, and wherever it now
\* is; run() logs it.  The quote that was being submitted is not noted.
Fail(r) ==
  LET n == loop[r] IN
  /\ n.stage \in {"cancel", "submit"}
  /\ \/ UNCHANGED stray
     \/ ~n.accepted /\ stray' = stray \cup {[kind |-> n.stage, quote |-> n.quote]}
  /\ lost' = IF n.stage = "submit" THEN lost \cup {n.quote} ELSE lost
  /\ loop' = [loop EXCEPT ![r] = At("sleep", 0)]
  /\ UNCHANGED <<running, last, book, used, late>>

\* A mutation: the flag is not looked at again.
WakeAlways(r) ==
  /\ loop[r].stage = "sleep"
  /\ loop' = [loop EXCEPT ![r] = At("tick", 0)]
  /\ UNCHANGED <<running, last, book, stray, used, lost, late>>

\* The end of the interval, and the while condition.
Wake(r) ==
  /\ loop[r].stage = "sleep"
  /\ loop' = [loop EXCEPT ![r] = At(IF running THEN "tick" ELSE "ended", 0)]
  /\ UNCHANGED <<running, last, book, stray, used, lost, late>>
-----------------------------------------------------------------------------
(***************************************************************************)
(* The market (external).                                                  *)
(***************************************************************************)
Arrive(req) ==
  /\ stray' = stray \ {req}
  /\ book' \in Books(req.kind, req.quote)
  /\ UNCHANGED <<botVars, used, lost, late>>

Fill(quote) ==
  /\ book' = book \ {quote}
  /\ UNCHANGED <<botVars, stray, used, lost, late>>
-----------------------------------------------------------------------------
Step(r) ==
  \/ Quote(r) \/ ReadFails(r) \/ Accept(r) \/ Cancelled(r) \/ Submitted(r) \/ Fail(r) \/ Wake(r)

Next ==
  \/ \E r \in Runs : Run(r) \/ Step(r)
  \/ Stop
  \/ \E req \in stray : Arrive(req)
  \/ \E quote \in book : Fill(quote)

Spec == Init /\ [][Next]_vars

\* A timer that was set fires.  Nothing is assumed of the requests: they have no
\* deadline and may never be answered.
FairSpec == Spec /\ \A r \in Runs : WF_vars(Wake(r))
-----------------------------------------------------------------------------
(***************************************************************************)
(* Properties.                                                             *)
(***************************************************************************)
TypeOK ==
  /\ running \in BOOLEAN
  /\ last \in Nat
  /\ loop \in [Runs -> Loop]
  /\ book \in SUBSET (1 .. used)
  /\ stray \in SUBSET Request
  /\ used \in Nat
  /\ lost \in SUBSET Nat
  /\ late \in Nat

\* One bot has at most one loop, whatever the order of run() and stop(), if the
\* caller waits for a stopped loop to return.
OneLoop == \A r, q \in Runs : Active(r) /\ Active(q) => r = q

\* "quoter is already running" (quoter.ts:142), which run() throws to keep a
\* second loop out: no loop goes on to another tick beside a second one.
OneTicker ==
  [][\A r \in Runs : loop[r].stage = "sleep" /\ loop'[r].stage = "tick"
       => \A q \in Runs \ {r} : ~Active(q)]_loop

\* The bot knows the number of every quote it has on the market, and can cancel
\* it: only a submission that was reported as failed leaves one behind.
Tracked ==
  \A quote \in book \ lost :
    \/ quote = last
    \/ \E r \in Runs : loop[r].stage = "submit" /\ loop[r].quote = quote

\* However its requests fail, and over any number of stops and new runs, the bot
\* rests at most one quote beside those lost in a failed submission.
OneQuote == \A x, y \in book \ lost : x = y

\* A stopped bot finishes the tick it is in: it submits one quote at most.
LastQuote == ~running => late <= 1

\* One quote at a time: while a submission is open the last quote is cancelled
\* for good, since nothing that may still arrive can bring it back.
QuoteInv ==
  /\ \A r \in Runs :
       /\ loop[r].stage = "submit" => /\ last \notin book \ lost
                                      /\ loop[r].quote \in 1 .. used
                                      /\ loop[r].quote > last
       /\ loop[r].stage = "cancel" => /\ loop[r].quote = last
                                      /\ last # 0
                                      /\ loop[r].accepted => last \notin book \ lost
  /\ \A req \in stray : req.kind = "submit" => req.quote \in lost
  /\ \A req \in stray : req.quote \in 1 .. used
  /\ last <= used

\* A stopped bot has at most one tick in progress, and it has not yet submitted.
StopInv ==
  /\ \A r \in Runs : ~running /\ loop[r].stage \in {"tick", "cancel"} => late = 0
  /\ LastQuote

IInv == TypeOK /\ OneLoop /\ Tracked /\ QuoteInv /\ StopInv
=============================================================================
