---------------------------- MODULE QuoterProofs ----------------------------
(***************************************************************************)
(* Proofs about Quoter, for any number of calls of run() and of quotes: a  *)
(* bot whose caller waits for a stopped loop has at most one loop, knows   *)
(* the quotes it has on the market, rests at most one of them, and submits *)
(* at most one after stop().                                               *)
(*                                                                         *)
(* Only one loop is active, so a step of a loop finds no other one that    *)
(* moves the last quote.  A submission is begun with a fresh number, when  *)
(* the last quote is off the market or was lost.                           *)
(***************************************************************************)
EXTENDS Quoter, TLAPS

\* What one stage change leaves of the loops.
LEMMA LoopMoves ==
  ASSUME NEW r \in Runs, NEW m \in Loop,
         loop \in [Runs -> Loop],
         loop' = [loop EXCEPT ![r] = m]
  PROVE  /\ loop' \in [Runs -> Loop]
         /\ loop'[r] = m
         /\ \A q \in Runs \ {r} : loop'[q] = loop[q]
  OBVIOUS

LEMMA AtType ==
  ASSUME NEW stage \in Stage, NEW quote \in Nat
  PROVE  /\ At(stage, quote) \in Loop
         /\ At(stage, quote).stage = stage
         /\ At(stage, quote).quote = quote
         /\ At(stage, quote).accepted = FALSE
  BY DEF At, Loop

\* The loops of the other calls: each has not begun, or has returned.
Alone(r) == \A q \in Runs \ {r} : ~Active(q)

LEMMA OthersIdle ==
  ASSUME OneLoop, NEW r \in Runs, Active(r)
  PROVE  Alone(r)
  BY DEF OneLoop, Alone

\* IInv reads, of the loops, only the active one.
LEMMA MoveKeepsOneLoop ==
  ASSUME TypeOK, NEW r \in Runs, NEW m \in Loop, Alone(r),
         loop' = [loop EXCEPT ![r] = m]
  PROVE  /\ loop' \in [Runs -> Loop]
         /\ loop'[r] = m
         /\ OneLoop'
         /\ \A q \in Runs \ {r} : loop'[q].stage \in {"none", "ended"}
<1>1. loop \in [Runs -> Loop]
  BY DEF TypeOK
<1>2. /\ loop' \in [Runs -> Loop]
      /\ loop'[r] = m
      /\ \A q \in Runs \ {r} : loop'[q] = loop[q]
  BY <1>1, LoopMoves
<1>3. \A q \in Runs \ {r} : loop'[q].stage \in {"none", "ended"}
  BY <1>2 DEF Alone, Active
<1>4. OneLoop'
  BY <1>3 DEF OneLoop, Active
<1> QED
  BY <1>2, <1>3, <1>4

LEMMA InitInv == Init => IInv
<1> SUFFICES ASSUME Init PROVE IInv
  OBVIOUS
<1>1. \A r \in Runs : loop[r].stage = "none"
  BY DEF Init, At
<1>2. TypeOK
  <2>1. At("none", 0) \in Loop
    BY AtType DEF Stage
  <2> QED
    BY <2>1 DEF Init, TypeOK
<1>3. OneLoop
  BY <1>1 DEF OneLoop, Active
<1>4. Tracked
  BY DEF Init, Tracked
<1>5. QuoteInv
  BY <1>1 DEF Init, QuoteInv
<1>6. StopInv
  BY DEF Init, StopInv, LastQuote
<1> QED
  BY <1>2, <1>3, <1>4, <1>5, <1>6 DEF IInv

\* The caller waits: run() finds every earlier loop returned.
LEMMA RunInv ==
  ASSUME IInv, Patient, NEW r \in Runs, Run(r)
  PROVE  IInv'
<1>1. Alone(r)
  BY DEF Run, MayCall, Alone
<1>2. At("tick", 0) \in Loop /\ At("tick", 0).stage = "tick"
  BY AtType DEF Stage
<1>3. /\ loop' \in [Runs -> Loop]
      /\ loop'[r].stage = "tick"
      /\ OneLoop'
      /\ \A q \in Runs \ {r} : loop'[q].stage \in {"none", "ended"}
  BY <1>1, <1>2, MoveKeepsOneLoop DEF IInv, Run
<1>4. \A q \in Runs : loop[q].stage \in {"none", "ended"}
  BY DEF Run, MayCall, Active
<1>5. TypeOK'
  BY <1>3 DEF IInv, TypeOK, Run
<1>6. Tracked'
  BY <1>4 DEF IInv, Tracked, Run
<1>7. QuoteInv'
  BY <1>3 DEF IInv, QuoteInv, Run
<1>8. StopInv'
  BY DEF StopInv, LastQuote, Run
<1> QED
  BY <1>3, <1>5, <1>6, <1>7, <1>8 DEF IInv

LEMMA StopStepInv ==
  ASSUME IInv, Stop
  PROVE  IInv'
<1>1. TypeOK'
  BY DEF IInv, TypeOK, Stop
<1>2. OneLoop' /\ Tracked' /\ QuoteInv'
  BY DEF IInv, OneLoop, Active, Tracked, QuoteInv, Stop
<1>3. StopInv'
  BY DEF StopInv, LastQuote, Stop
<1> QED
  BY <1>1, <1>2, <1>3 DEF IInv

\* A submission begins when no quote is on the market but those that were lost.
LEMMA BeginSubmitInv ==
  ASSUME IInv, NEW r \in Runs, loop[r].stage \in {"tick", "cancel"},
         last \notin book \ lost,
         BeginSubmit(r),
         UNCHANGED <<running, last, book, stray, lost>>
  PROVE  IInv'
<1> DEFINE m == At("submit", used + 1)
<1>1. Alone(r)
  BY OthersIdle DEF IInv, Active
<1>2. used \in Nat /\ last \in Nat /\ late \in Nat /\ last <= used /\ book \subseteq 1 .. used
  BY DEF IInv, TypeOK, QuoteInv
<1>3. m \in Loop /\ m.stage = "submit" /\ m.quote = used + 1
  <2>1. "submit" \in Stage /\ used + 1 \in Nat
    BY <1>2 DEF Stage
  <2> QED
    BY <2>1, AtType
<1>4. /\ loop' \in [Runs -> Loop]
      /\ loop'[r] = m
      /\ OneLoop'
      /\ \A q \in Runs \ {r} : loop'[q].stage \in {"none", "ended"}
  <2>1. loop' = [loop EXCEPT ![r] = m]
    BY DEF BeginSubmit
  <2> HIDE DEF m
  <2> QED
    BY <1>1, <1>3, <2>1, MoveKeepsOneLoop DEF IInv
<1> HIDE DEF m
<1>5. used' = used + 1 /\ late' = (IF running THEN 0 ELSE late + 1)
  BY DEF BeginSubmit
<1>6. TypeOK'
  <2>1. book' \in SUBSET (1 .. used')
    BY <1>2, <1>5
  <2> QED
    BY <1>2, <1>4, <1>5, <2>1 DEF IInv, TypeOK
<1>7. \A q \in book \ lost : FALSE
  <2>1. \A q \in Runs : loop[q].stage # "submit"
    BY <1>1 DEF Alone, Active
  <2> QED
    BY <2>1 DEF IInv, Tracked
<1>8. Tracked'
  BY <1>7 DEF Tracked
<1>9. QuoteInv'
  <2>1. \A q \in Runs : loop'[q].stage = "submit" => q = r
    BY <1>4
  <2>2. \A q \in Runs : loop'[q].stage # "cancel"
    BY <1>3, <1>4
  <2>3. loop'[r].quote \in 1 .. used' /\ loop'[r].quote > last'
    BY <1>2, <1>3, <1>4, <1>5
  <2>4. \A req \in stray : req.quote \in 1 .. used'
    BY <1>2, <1>5 DEF IInv, QuoteInv
  <2>5. last' <= used'
    BY <1>2, <1>5
  <2> QED
    BY <2>1, <2>2, <2>3, <2>4, <2>5 DEF IInv, QuoteInv
<1>10. StopInv'
  <2>1. \A q \in Runs : loop'[q].stage \notin {"tick", "cancel"}
    BY <1>3, <1>4
  <2>2. ~running => late = 0
    BY DEF IInv, StopInv
  <2> QED
    BY <1>5, <2>1, <2>2 DEF StopInv, LastQuote
<1> QED
  BY <1>4, <1>6, <1>8, <1>9, <1>10 DEF IInv

LEMMA QuoteStepInv ==
  ASSUME IInv, NEW r \in Runs, Quote(r)
  PROVE  IInv'
<1>1. Alone(r) /\ last \in Nat
  BY OthersIdle DEF IInv, TypeOK, Active, Quote
<1>2. CASE last = 0
  <2>1. last \notin book \ lost
    BY <1>2 DEF IInv, TypeOK
  <2> QED
    BY <1>2, <2>1, BeginSubmitInv DEF Quote
<1>3. CASE last # 0
  <2> DEFINE m == At("cancel", last)
  <2>1. m \in Loop /\ m.stage = "cancel" /\ m.quote = last /\ ~m.accepted
    BY <1>1, AtType DEF Stage
  <2>2. loop' = [loop EXCEPT ![r] = m]
    BY <1>3 DEF Quote
  <2> HIDE DEF m
  <2>3. /\ loop' \in [Runs -> Loop]
        /\ loop'[r] = m
        /\ OneLoop'
        /\ \A q \in Runs \ {r} : loop'[q].stage \in {"none", "ended"}
    BY <1>1, <2>1, <2>2, MoveKeepsOneLoop DEF IInv
  <2>4. UNCHANGED <<running, last, book, stray, used, lost, late>>
    BY <1>3 DEF Quote
  <2>5. TypeOK'
    BY <2>3, <2>4 DEF IInv, TypeOK
  <2>6. Tracked'
    <3>1. \A q \in Runs : loop[q].stage # "submit"
      BY <1>1 DEF Alone, Active, Quote
    <3> QED
      BY <2>4, <3>1 DEF IInv, Tracked
  <2>7. QuoteInv'
    BY <1>3, <2>1, <2>3, <2>4 DEF IInv, QuoteInv
  <2>8. StopInv'
    <3>1. ~running => late = 0
      BY DEF IInv, StopInv, Quote
    <3> QED
      BY <2>3, <2>4, <3>1 DEF IInv, StopInv, LastQuote
  <2> QED
    BY <2>3, <2>5, <2>6, <2>7, <2>8 DEF IInv
<1> QED
  BY <1>2, <1>3

\* A loop that goes to sleep, to a tick of a running bot, or ends, and no quote
\* that leaves the bot's sight.
LEMMA RestInv ==
  ASSUME IInv, NEW r \in Runs, Active(r), NEW stage \in {"tick", "sleep", "ended"},
         loop[r].stage = "submit" => loop[r].quote \in lost',
         stage = "tick" => running,
         loop' = [loop EXCEPT ![r] = At(stage, 0)],
         lost' \in SUBSET Nat, lost \subseteq lost',
         stray' \in SUBSET Request,
         \A req \in stray' : /\ req.kind = "submit" => req.quote \in lost'
                             /\ req.quote \in 1 .. used,
         UNCHANGED <<running, last, book, used, late>>
  PROVE  IInv'
<1> DEFINE m == At(stage, 0)
<1>1. Alone(r)
  BY OthersIdle DEF IInv
<1>2. m \in Loop /\ m.stage = stage
  <2>1. stage \in Stage /\ 0 \in Nat
    BY DEF Stage
  <2> QED
    BY <2>1, AtType
<1> HIDE DEF m
<1>3. /\ loop' \in [Runs -> Loop]
      /\ loop'[r] = m
      /\ OneLoop'
      /\ \A q \in Runs \ {r} : loop'[q].stage \in {"none", "ended"}
  <2>1. loop' = [loop EXCEPT ![r] = m]
    BY DEF m
  <2> QED
    BY <1>1, <1>2, <2>1, MoveKeepsOneLoop DEF IInv
<1>4. TypeOK'
  BY <1>3 DEF IInv, TypeOK
<1>5. Tracked'
  <2>1. \A quote \in book \ lost' : quote = last
    <3>1. \A q \in Runs \ {r} : loop[q].stage # "submit"
      BY <1>1 DEF Alone, Active
    <3> QED
      BY <3>1 DEF IInv, Tracked
  <2> QED
    BY <2>1 DEF Tracked
<1>6. QuoteInv'
  <2>1. \A q \in Runs : loop'[q].stage \notin {"submit", "cancel"}
    BY <1>2, <1>3
  <2> QED
    BY <2>1 DEF IInv, QuoteInv
<1>7. StopInv'
  <2>1. \A q \in Runs : ~running => loop'[q].stage \notin {"tick", "cancel"}
    BY <1>2, <1>3
  <2> QED
    BY <2>1 DEF IInv, StopInv, LastQuote
<1> QED
  BY <1>3, <1>4, <1>5, <1>6, <1>7 DEF IInv

LEMMA ReadFailsInv ==
  ASSUME IInv, NEW r \in Runs, ReadFails(r)
  PROVE  IInv'
<1>1. Active(r) /\ loop[r].stage # "submit"
  BY DEF ReadFails, Active
<1>2. lost \in SUBSET Nat /\ stray \in SUBSET Request
  BY DEF IInv, TypeOK
<1>3. \A req \in stray : /\ req.kind = "submit" => req.quote \in lost
                         /\ req.quote \in 1 .. used
  BY DEF IInv, QuoteInv
<1> QED
  BY <1>1, <1>2, <1>3, RestInv DEF ReadFails

LEMMA WakeInv ==
  ASSUME IInv, NEW r \in Runs, Wake(r)
  PROVE  IInv'
<1>1. Active(r) /\ loop[r].stage # "submit"
  BY DEF Wake, Active
<1>2. lost \in SUBSET Nat /\ stray \in SUBSET Request
  BY DEF IInv, TypeOK
<1>3. \A req \in stray : /\ req.kind = "submit" => req.quote \in lost
                         /\ req.quote \in 1 .. used
  BY DEF IInv, QuoteInv
<1>4. CASE running
  BY <1>1, <1>2, <1>3, <1>4, RestInv DEF Wake
<1>5. CASE ~running
  BY <1>1, <1>2, <1>3, <1>5, RestInv DEF Wake
<1> QED
  BY <1>4, <1>5

\* A request that failed is lost sight of: its quote counts as lost if it was
\* being submitted, and is the last quote if it was being cancelled.
LEMMA FailInv ==
  ASSUME IInv, NEW r \in Runs, Fail(r)
  PROVE  IInv'
<1>1. Active(r) /\ loop[r].stage \in {"cancel", "submit"}
  BY DEF Fail, Active
<1>2. lost \in SUBSET Nat /\ stray \in SUBSET Request /\ used \in Nat /\ last \in Nat
  BY DEF IInv, TypeOK
<1>3. \A req \in stray : /\ req.kind = "submit" => req.quote \in lost
                         /\ req.quote \in 1 .. used
  BY DEF IInv, QuoteInv
<1>4. loop[r].quote \in 1 .. used
  <2>1. CASE loop[r].stage = "submit"
    BY <2>1 DEF IInv, QuoteInv
  <2>2. CASE loop[r].stage = "cancel"
    <3>1. loop[r].quote = last /\ last # 0 /\ last <= used
      BY <2>2 DEF IInv, QuoteInv
    <3> QED
      BY <1>2, <3>1
  <2> QED
    BY <1>1, <2>1, <2>2
<1>5. lost' \in SUBSET Nat /\ lost \subseteq lost'
  <2>1. lost' = lost \/ lost' = lost \cup {loop[r].quote}
    BY DEF Fail
  <2>2. loop[r].quote \in Nat
    BY <1>2, <1>4
  <2> QED
    BY <1>2, <2>1, <2>2
<1>6. loop[r].stage = "submit" => loop[r].quote \in lost'
  BY DEF Fail
<1> DEFINE new == [kind |-> loop[r].stage, quote |-> loop[r].quote]
<1>7. new \in Request /\ new.kind = loop[r].stage /\ new.quote = loop[r].quote
  BY <1>1, <1>2, <1>4 DEF Request
<1>8. stray' \subseteq stray \cup {new}
  BY DEF Fail
<1> HIDE DEF new
<1>9. stray' \in SUBSET Request
  BY <1>2, <1>7, <1>8
<1>10. \A req \in stray' : /\ req.kind = "submit" => req.quote \in lost'
                           /\ req.quote \in 1 .. used
  BY <1>3, <1>4, <1>5, <1>6, <1>7, <1>8
<1> QED
  BY <1>1, <1>5, <1>6, <1>9, <1>10, RestInv DEF Fail

\* The book may gain the quote that is being submitted, and loses the one that is
\* being cancelled.
LEMMA AcceptInv ==
  ASSUME IInv, NEW r \in Runs, Accept(r)
  PROVE  IInv'
<1> DEFINE m == [loop[r] EXCEPT !.accepted = TRUE]
<1>1. Alone(r) /\ loop[r] \in Loop /\ loop[r].stage \in {"cancel", "submit"}
  BY OthersIdle DEF IInv, TypeOK, Active, Accept
<1>2. /\ m \in Loop
      /\ m.stage = loop[r].stage /\ m.quote = loop[r].quote
  BY <1>1 DEF Loop
<1>3. loop' = [loop EXCEPT ![r] = m]
  BY DEF Accept
<1> HIDE DEF m
<1>4. /\ loop' \in [Runs -> Loop]
      /\ loop'[r] = m
      /\ OneLoop'
      /\ \A q \in Runs \ {r} : loop'[q].stage \in {"none", "ended"}
  BY <1>1, <1>2, <1>3, MoveKeepsOneLoop DEF IInv
<1>5. UNCHANGED <<running, last, stray, used, lost, late>>
  BY DEF Accept
<1>6. last \in Nat /\ used \in Nat /\ book \subseteq 1 .. used
  BY DEF IInv, TypeOK
<1>7. \/ loop[r].stage = "cancel" /\ book' = book \ {loop[r].quote}
      \/ loop[r].stage = "submit" /\ book' \in {book, book \cup {loop[r].quote}}
  BY <1>1 DEF Accept, Books
<1>8. \A quote \in book \ lost : quote = last \/ (loop[r].stage = "submit" /\ quote = loop[r].quote)
  BY <1>1 DEF IInv, Tracked, Alone, Active
<1>9. loop[r].stage = "submit" => /\ last \notin book \ lost
                                  /\ loop[r].quote \in 1 .. used
                                  /\ loop[r].quote > last
  BY DEF IInv, QuoteInv
<1>10. TypeOK'
  <2>1. book' \in SUBSET (1 .. used')
    BY <1>5, <1>6, <1>7, <1>9
  <2> QED
    BY <1>4, <1>5, <2>1 DEF IInv, TypeOK
<1>11. Tracked'
  <2>1. \A quote \in book' \ lost : quote = last \/ (m.stage = "submit" /\ quote = m.quote)
    BY <1>2, <1>7, <1>8
  <2> QED
    BY <1>4, <1>5, <2>1 DEF Tracked
<1>12. QuoteInv'
  <2>1. m.stage = "submit" => /\ last \notin book' \ lost
                              /\ m.quote \in 1 .. used
                              /\ m.quote > last
    BY <1>2, <1>6, <1>7, <1>9
  <2>2. m.stage = "cancel" => /\ m.quote = last
                              /\ last # 0
                              /\ last \notin book' \ lost
    BY <1>2, <1>7 DEF IInv, QuoteInv
  <2> QED
    BY <1>4, <1>5, <2>1, <2>2 DEF IInv, QuoteInv
<1>13. StopInv'
  BY <1>2, <1>4, <1>5 DEF IInv, StopInv, LastQuote
<1> QED
  BY <1>4, <1>10, <1>11, <1>12, <1>13 DEF IInv

LEMMA CancelledInv ==
  ASSUME IInv, NEW r \in Runs, Cancelled(r)
  PROVE  IInv'
  BY BeginSubmitInv DEF Cancelled, IInv, QuoteInv

\* The quote that was submitted becomes the last one; the one before is off the
\* market.
LEMMA SubmittedInv ==
  ASSUME IInv, NEW r \in Runs, Submitted(r)
  PROVE  IInv'
<1> DEFINE m == At("sleep", 0)
<1>1. Alone(r) /\ loop[r].stage = "submit"
  BY OthersIdle DEF IInv, Active, Submitted
<1>2. m \in Loop /\ m.stage = "sleep"
  BY AtType DEF Stage
<1>3. loop' = [loop EXCEPT ![r] = m]
  BY DEF Submitted
<1> HIDE DEF m
<1>4. /\ loop' \in [Runs -> Loop]
      /\ loop'[r] = m
      /\ OneLoop'
      /\ \A q \in Runs \ {r} : loop'[q].stage \in {"none", "ended"}
  BY <1>1, <1>2, <1>3, MoveKeepsOneLoop DEF IInv
<1>5. last' = loop[r].quote /\ UNCHANGED <<running, book, stray, used, lost, late>>
  BY DEF Submitted
<1>6. used \in Nat /\ last \in Nat
  BY DEF IInv, TypeOK
<1>7. loop[r].quote \in 1 .. used /\ last \notin book \ lost
  BY <1>1 DEF IInv, QuoteInv
<1>8. TypeOK'
  BY <1>4, <1>5, <1>6, <1>7 DEF IInv, TypeOK
<1>9. Tracked'
  <2>1. \A quote \in book \ lost : quote = loop[r].quote
    BY <1>1, <1>7 DEF IInv, Tracked, Alone, Active
  <2> QED
    BY <1>5, <2>1 DEF Tracked
<1>10. QuoteInv'
  <2>1. \A q \in Runs : loop'[q].stage \notin {"submit", "cancel"}
    BY <1>2, <1>4
  <2>2. last' <= used'
    BY <1>5, <1>6, <1>7
  <2> QED
    BY <1>5, <2>1, <2>2 DEF IInv, QuoteInv
<1>11. StopInv'
  <2>1. \A q \in Runs : loop'[q].stage \notin {"tick", "cancel"}
    BY <1>2, <1>4
  <2> QED
    BY <1>5, <2>1 DEF IInv, StopInv, LastQuote
<1> QED
  BY <1>4, <1>8, <1>9, <1>10, <1>11 DEF IInv

\* The market changes only the book: it takes quotes away, or adds a lost one.
LEMMA MarketInv ==
  ASSUME IInv, UNCHANGED <<botVars, used, lost, late>>,
         stray' \subseteq stray,
         \A quote \in book' : quote \in book \/ (quote \in lost /\ quote \in 1 .. used)
  PROVE  IInv'
<1>1. TypeOK'
  BY DEF IInv, TypeOK, botVars
<1>2. OneLoop'
  BY DEF IInv, OneLoop, Active, botVars
<1>3. book' \ lost \subseteq book \ lost
  OBVIOUS
<1>4. Tracked'
  BY <1>3 DEF IInv, Tracked, botVars
<1>5. QuoteInv'
  BY <1>3 DEF IInv, QuoteInv, botVars
<1>6. StopInv'
  BY DEF IInv, StopInv, LastQuote, botVars
<1> QED
  BY <1>1, <1>2, <1>4, <1>5, <1>6 DEF IInv

LEMMA StepInv ==
  ASSUME IInv, Patient, [Next]_vars
  PROVE  IInv'
<1>1. ASSUME NEW r \in Runs, Run(r) PROVE IInv'
  BY <1>1, RunInv
<1>2. ASSUME NEW r \in Runs, Step(r) PROVE IInv'
  BY <1>2, QuoteStepInv, ReadFailsInv, AcceptInv, CancelledInv, SubmittedInv, FailInv, WakeInv
  DEF Step
<1>3. CASE Stop
  BY <1>3, StopStepInv
<1>4. ASSUME NEW req \in stray, Arrive(req) PROVE IInv'
  <2>1. /\ req.kind = "submit" => req.quote \in lost
        /\ req.quote \in 1 .. used
        /\ req.kind \in {"cancel", "submit"}
    BY DEF IInv, QuoteInv, TypeOK, Request
  <2>2. \A quote \in book' : quote \in book \/ (quote \in lost /\ quote \in 1 .. used)
    BY <1>4, <2>1 DEF Arrive, Books
  <2> QED
    BY <1>4, <2>2, MarketInv DEF Arrive
<1>5. ASSUME NEW quote \in book, Fill(quote) PROVE IInv'
  BY <1>5, MarketInv DEF Fill
<1>6. CASE UNCHANGED vars
  BY <1>6, MarketInv DEF vars
<1> QED
  BY <1>1, <1>2, <1>3, <1>4, <1>5, <1>6 DEF Next

-----------------------------------------------------------------------------
\* The inductive invariant, for a caller that waits for a stopped loop.
THEOREM Invariance == ASSUME Patient PROVE Spec => []IInv
<1>1. Init => IInv
  BY InitInv
<1>2. IInv /\ [Next]_vars => IInv'
  BY StepInv
<1> QED
  BY <1>1, <1>2, PTL DEF Spec

\* One bot never has two loops (the guard of run(), quoter.ts:141).
THEOREM SingleLoop == ASSUME Patient PROVE Spec => []OneLoop
<1>1. IInv => OneLoop
  BY DEF IInv
<1> QED
  BY <1>1, Invariance, PTL

\* The bot can cancel every quote it has on the market, but for those whose
\* submission was reported as failed.
THEOREM AllTracked == ASSUME Patient PROVE Spec => []Tracked
<1>1. IInv => Tracked
  BY DEF IInv
<1> QED
  BY <1>1, Invariance, PTL

\* Of the quotes whose submission was not reported as failed, at most one rests
\* on the market, however requests fail (the cancel that goes before each
\* submission, quoter.ts:106).  A quote reported as failed may rest beside it.
THEOREM SingleQuote == ASSUME Patient PROVE Spec => []OneQuote
<1>1. IInv => OneQuote
  <2> SUFFICES ASSUME IInv, NEW x \in book \ lost, NEW y \in book \ lost
               PROVE  x = y
    BY DEF OneQuote
  <2>1. CASE \E r \in Runs : loop[r].stage = "submit"
    <3>1. PICK r \in Runs : loop[r].stage = "submit"
      BY <2>1
    <3>2. \A q \in Runs : loop[q].stage = "submit" => q = r
      BY <3>1 DEF IInv, OneLoop, Active
    <3>3. last \notin book \ lost
      BY <3>1 DEF IInv, QuoteInv
    <3> QED
      BY <3>2, <3>3 DEF IInv, Tracked
  <2>2. CASE ~\E r \in Runs : loop[r].stage = "submit"
    BY <2>2 DEF IInv, Tracked
  <2> QED
    BY <2>1, <2>2
<1> QED
  BY <1>1, Invariance, PTL

\* Between stop() and the next run() at most one quote is submitted: the one of
\* the tick that was under way (the while condition, quoter.ts:146).
THEOREM LastOne == ASSUME Patient PROVE Spec => []LastQuote
<1>1. IInv => LastQuote
  BY DEF IInv, StopInv
<1> QED
  BY <1>1, Invariance, PTL
=============================================================================
