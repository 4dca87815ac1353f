---------------------------- MODULE TriggerOrders ----------------------------
(***************************************************************************)
(* Stop-loss and take-profit legs (triggerOrders.ts): built, signed,       *)
(* submitted one by one, and cancelled, by a caller that holds the legs as *)
(* plain objects and may change them at any time.  The relayer, the keeper *)
(* that holds the legs, and the network are external, as                   *)
(* docs/trigger-orders.md describes them.                                  *)
(***************************************************************************)
EXTENDS Integers

CONSTANTS Positions,   \* "long", "short"
          Prices,      \* trigger prices, in lots
          Oracles,     \* the oracle price that a build is given, or None
          Slippages,   \* slippageBps
          BpsOne,      \* 10000 bps
          MaxBuilds, MaxChanges, MaxSubmits,   \* bounds of a behaviour
          None

ASSUME TriggerAssumption ==
  /\ Prices \subseteq Nat \ {0} /\ BpsOne \in Nat \ {0} /\ Slippages \subseteq 0 .. BpsOne - 1
  /\ MaxBuilds \in Nat /\ MaxChanges \in Nat /\ MaxSubmits \in Nat
  /\ Positions \subseteq {"long", "short"} /\ Oracles \subseteq Prices \cup {None} /\ None \notin Prices

VARIABLES
  legs,       \* the caller's leg of each kind, or None
  signature,  \* what signTriggerOrderLeg returned for it: the hash it covers
  outcome,    \* how the submission of it stands, for the caller
  builds, changes, submits,
  known,      \* the oracle price the latest build was given
  signed,     \* the hashes the user has signed
  wire,       \* requests under way
  routes,     \* whether the relayer knows trigger orders
  executed,   \* orders that a relayer executed at once
  held,       \* the legs the keeper holds
  fills,      \* the legs filled on chain
  response    \* the latest answer to a cancel

clientVars == <<legs, signature, outcome, builds, changes, submits, known, signed>>
keeperVars == <<routes, executed, held, fills>>
vars == <<clientVars, keeperVars, wire, response>>

Kind == {"stop_loss", "take_profit"}
\* "firing" stands for "awaiting_outcome" too, and "expired" for "failed": no answer to a cancel
\* tells them apart.
Terminal == {"filled", "cancelled", "expired", "fire_unknown"}

(***************************************************************************)
(* Building                                                                *)
(***************************************************************************)
\* A long position is closed by an ask; its stop loss waits for a lower price.
Direction(position, kind) ==
  IF (position = "long") = (kind = "stop_loss") THEN "at_or_below" ELSE "at_or_above"

\* A mutation: the trigger price itself does not count as met.
AlreadyMetStrict(direction, trigger, oracle) ==
  IF direction = "at_or_below" THEN oracle < trigger ELSE oracle > trigger

TriggerAlreadyMet(direction, trigger, oracle) ==
  IF direction = "at_or_below" THEN oracle <= trigger ELSE oracle >= trigger

\* The price of the order that is sent when the trigger is met.
LimitPrice(position, trigger, bps) ==
  IF position = "long" THEN (trigger * (BpsOne - bps)) \div BpsOne
  ELSE (trigger * (BpsOne + bps) + (BpsOne - 1)) \div BpsOne

\* The terms are hashed into the client order id, the payload carries it, and the
\* message that is signed covers payload and accounts.  A payload closes: it is an order of 49
\* bytes, immediate or cancel and reduce-only, that expires with the terms.
Commitment(terms) == terms
MessageHash(payload, accounts) == [payload |-> payload, accounts |-> accounts]

Leg(position, kind, trigger, bps, group, salt) ==
  LET terms   == [kind |-> kind, direction |-> Direction(position, kind), trigger |-> trigger,
                  group |-> group, salt |-> salt]
      payload == [position |-> position, limit |-> LimitPrice(position, trigger, bps),
                  id |-> Commitment(terms), closes |-> TRUE]
  IN  [terms |-> terms, id |-> Commitment(terms), payload |-> payload, accounts |-> 0,
       hash |-> MessageHash(payload, 0)]

LegOk(position, kind, trigger, bps, oracle) ==
  /\ oracle # None => ~TriggerAlreadyMet(Direction(position, kind), trigger, oracle)
  /\ LimitPrice(position, trigger, bps) >= 1

\* The legs of a bracket share a group; a single leg has none.
BuildSlTpLegs(position, triggers, bps, oracle) ==
  /\ builds < MaxBuilds
  /\ \A kind \in DOMAIN triggers : LegOk(position, kind, triggers[kind], bps, oracle)
  /\ builds' = builds + 1
  /\ legs' = [kind \in Kind |->
       IF kind \in DOMAIN triggers
         THEN Leg(position, kind, triggers[kind], bps, IF DOMAIN triggers = Kind THEN 1 ELSE 0, builds)
         ELSE None]
  /\ known' = oracle
  /\ signature' = [kind \in Kind |-> None]
  /\ outcome'   = [kind \in Kind |-> "none"]
  /\ UNCHANGED <<changes, submits, signed, wire, response, keeperVars>>

\* A leg is a plain object: the caller may change its terms, its payload or its accounts
\* (a refreshed list), and may hash it anew.
Changed(leg) == {[leg EXCEPT !.terms.trigger = @ + 1], [leg EXCEPT !.payload.limit = @ + 1],
                 [leg EXCEPT !.payload.closes = FALSE], [leg EXCEPT !.accounts = @ + 1]}

Change(kind) ==
  /\ legs[kind] # None /\ changes < MaxChanges
  /\ changes' = changes + 1
  /\ \E leg \in Changed(legs[kind]), anew \in BOOLEAN :
       legs' = [legs EXCEPT ![kind] =
                  IF anew THEN [leg EXCEPT !.hash = MessageHash(leg.payload, leg.accounts)] ELSE leg]
  /\ UNCHANGED <<signature, outcome, builds, submits, known, signed, wire, response, keeperVars>>

SignTriggerOrderLeg(kind) ==
  /\ legs[kind] # None
  /\ signature' = [signature EXCEPT ![kind] = legs[kind].hash]
  /\ signed' = signed \cup {legs[kind].hash}
  /\ UNCHANGED <<legs, outcome, builds, changes, submits, known, wire, response, keeperVars>>

(***************************************************************************)
(* Submission                                                              *)
(***************************************************************************)
Request(leg) == [terms |-> leg.terms, payload |-> leg.payload, accounts |-> leg.accounts]

\* A mutation: the terms are not compared with the id they were hashed into.
RequestOkUncommitted(leg, sig) ==
  /\ leg.payload.id = leg.id /\ leg.payload.closes
  /\ MessageHash(leg.payload, leg.accounts) = leg.hash
  /\ sig = leg.hash

\* A leg that was changed since it was built or signed is refused.
TriggerOrderRequestOk(leg, sig) ==
  /\ Commitment(leg.terms) = leg.id
  /\ leg.payload.id = leg.id /\ leg.payload.closes
  /\ MessageHash(leg.payload, leg.accounts) = leg.hash
  /\ sig = leg.hash

Submit(kind) ==
  /\ legs[kind] # None /\ signature[kind] # None
  /\ outcome[kind] # "waiting" /\ submits < MaxSubmits
  /\ submits' = submits + 1
  /\ IF TriggerOrderRequestOk(legs[kind], signature[kind])
       THEN /\ wire'    = wire \cup {Request(legs[kind])}
            /\ outcome' = [outcome EXCEPT ![kind] = "waiting"]
       ELSE /\ outcome' = [outcome EXCEPT ![kind] = "refused"]
            /\ UNCHANGED wire
  /\ UNCHANGED <<legs, signature, builds, changes, known, signed, response, keeperVars>>

\* A mutation: the id of the trigger order is not looked at.
WithheldUnnamed(reply) == reply.status \in {"pending", "armed"} /\ ~reply.tx

\* The answer must name the leg, say that the keeper holds it, and not that it was executed.
Withheld(reply) == reply.named /\ reply.status \in {"pending", "armed"} /\ ~reply.tx

\* The answer reaches the caller that waits for it, or is lost.
Answer(request, reply) ==
  outcome' \in {outcome,
    [kind \in Kind |->
       IF outcome[kind] = "waiting" /\ legs[kind].id = Commitment(request.terms)
         THEN IF Withheld(reply) THEN "accepted" ELSE "error"
         ELSE outcome[kind]]}

\* A relayer that knows trigger orders hands the leg to the keeper once; one that does not
\* executes the order.  The keeper refuses what it cannot hold, and holds no two legs with the
\* same id.  Assumed of the answers: a relayer that knows trigger orders reports them as they
\* are; the other one may say anything, with a transaction signature or without, but as it has
\* no trigger orders it names none (trigger_order_id).
Relay(request) ==
  /\ request \in wire
  /\ wire' = wire \ {request}
  /\ \E state \in {"pending", "armed", "failed"}, sent \in BOOLEAN :
       LET old == {h \in held : h.request.terms = request.terms}
       IN  CASE routes = "immediate" ->
                  /\ Answer(request, [named |-> FALSE, status |-> state, tx |-> sent])
                  /\ executed' = executed \cup {Commitment(request.terms)}
                  /\ UNCHANGED held
             [] routes = "trigger" /\ old # {} ->
                  /\ \E h \in old : Answer(request, [named |-> TRUE, status |-> h.state, tx |-> FALSE])
                  /\ UNCHANGED <<held, executed>>
             [] OTHER ->
                  /\ Answer(request, [named |-> TRUE, status |-> state, tx |-> FALSE])
                  /\ held' = IF state = "failed" THEN held
                             ELSE held \cup {[request |-> request, state |-> state, wanted |-> FALSE]}
                  /\ UNCHANGED executed
  /\ UNCHANGED <<legs, signature, builds, changes, submits, known, signed, response, routes, fills>>

\* The call fails although the request may still be under way.
Timeout(kind) ==
  /\ outcome[kind] = "waiting"
  /\ outcome' = [outcome EXCEPT ![kind] = "error"]
  /\ UNCHANGED <<legs, signature, builds, changes, submits, known, signed, wire, response, keeperVars>>

Lose(request) ==
  /\ wire' = wire \ {request}
  /\ UNCHANGED <<clientVars, response, keeperVars>>

(***************************************************************************)
(* The keeper                                                              *)
(***************************************************************************)
Move(h, state) ==
  /\ held' = (held \ {h}) \cup {[h EXCEPT !.state = state]}
  /\ UNCHANGED <<clientVars, wire, response, routes, executed, fills>>

Arm(h)    == h.state = "pending" /\ Move(h, "armed")
Fire(h)   == h.state = "armed" /\ Move(h, "firing")
Expire(h) == h.state \in {"pending", "armed"} /\ Move(h, "expired")

\* The order of an attempt is filled on chain, also when the keeper has given up.
Fill(h) ==
  /\ h.state \in {"firing", "fire_unknown"}
  /\ fills' = fills \cup {h.request}
  /\ UNCHANGED <<clientVars, wire, response, routes, executed, held>>

\* The keeper learns how the attempt ended, or that it cannot know.
Observe(h) ==
  /\ h.state = "firing"
  /\ \/ h.request \in fills /\ Move(h, "filled")
     \/ h.request \notin fills /\ Move(h, IF h.wanted THEN "cancelled" ELSE "armed")
     \/ Move(h, "fire_unknown")

\* The siblings of a leg are cancelled after it was seen filled.
CancelSibling(h) ==
  /\ h.state \in {"pending", "armed"}
  /\ \E g \in held : g.state = "filled" /\ g # h
                     /\ g.request.terms.group = h.request.terms.group /\ g.request.terms.group # 0
  /\ Move(h, "cancelled")

(***************************************************************************)
(* Cancelling                                                              *)
(***************************************************************************)
\* A mutation: a leg that was not found counts as gone.
FinalIfNotPending(results) == \A r \in results : r.outcome # "cancel_pending"

TriggerCancelIsFinal(results) ==
  \A r \in results : r.outcome \in {"cancelled", "already_terminal"}

CancelOutcome(h) ==
  CASE h.state \in Terminal -> "already_terminal"
    [] h.state = "firing"   -> "cancel_pending"
    [] OTHER                -> "cancelled"

\* What the keeper makes of a cancel for the legs with these ids; `ids` scope also names the
\* ids it does not know.  The answer may be lost.
Cancel(ids, named) ==
  LET hit     == {h \in held : Commitment(h.request.terms) \in ids}
      results == {[id |-> Commitment(h.request.terms), outcome |-> CancelOutcome(h)] : h \in hit}
                 \cup {[id |-> i, outcome |-> "not_found"] :
                         i \in named \ {Commitment(h.request.terms) : h \in held}}
  IN  /\ held' = (held \ hit) \cup
           {[h EXCEPT !.state  = IF CancelOutcome(h) = "cancelled" THEN "cancelled" ELSE @,
                      !.wanted = h.state = "firing"] : h \in hit}
      /\ \/ response' = [final |-> TriggerCancelIsFinal(results), results |-> results, fills |-> fills]
         \/ UNCHANGED response
      /\ UNCHANGED <<clientVars, wire, routes, executed, fills>>

CancelTriggerOrders ==
  LET mine == {legs[kind].id : kind \in {k \in Kind : legs[k] # None}}
      all  == {Commitment(h.request.terms) : h \in held}
  IN  \/ \E ids \in SUBSET mine : ids # {} /\ Cancel(ids, ids)
      \/ Cancel({i \in all : i.group = 1}, {})
      \/ Cancel(all, {})

(***************************************************************************)
(* The specification                                                       *)
(***************************************************************************)
Init ==
  /\ legs      = [kind \in Kind |-> None]
  /\ signature = [kind \in Kind |-> None]
  /\ outcome   = [kind \in Kind |-> "none"]
  /\ builds = 0 /\ changes = 0 /\ submits = 0 /\ known = None /\ signed = {}
  /\ wire = {} /\ executed = {} /\ held = {} /\ fills = {}
  /\ routes \in {"trigger", "immediate"}
  /\ response = [final |-> FALSE, results |-> {}, fills |-> {}]

Next ==
  \/ \E position \in Positions, wanted \in SUBSET Kind \ {{}}, bps \in Slippages, oracle \in Oracles :
       \E triggers \in [wanted -> Prices] : BuildSlTpLegs(position, triggers, bps, oracle)
  \/ \E kind \in Kind : Change(kind) \/ SignTriggerOrderLeg(kind) \/ Submit(kind) \/ Timeout(kind)
  \/ \E request \in wire : Relay(request) \/ Lose(request)
  \/ \E h \in held : Arm(h) \/ Fire(h) \/ Expire(h) \/ Fill(h) \/ Observe(h) \/ CancelSibling(h)
  \/ CancelTriggerOrders

Spec == Init /\ [][Next]_vars

(***************************************************************************)
(* Properties                                                              *)
(***************************************************************************)
\* The user signs a hash of payload and accounts; the terms are bound by the id in the
\* payload.  Whatever the caller changes in a leg before, between and after, and whenever it
\* is submitted again, what reaches the keeper is under that one signature, terms included, and
\* can only close the position, no later than the terms say.  (triggerOrders.ts 370-410)
SentIsSigned ==
  \A request \in wire \cup {h.request : h \in held} :
    /\ MessageHash(request.payload, request.accounts) \in signed
    /\ Commitment(request.terms) = request.payload.id
    /\ request.payload.closes

\* A caller that is told a leg was accepted can rely on the keeper: it holds the leg, and the
\* order was not executed at once, whichever relayer answered.  (triggerOrders.ts 450-466)
AckIsTrue ==
  \A kind \in Kind : outcome[kind] = "accepted" =>
    /\ \E h \in held : Commitment(h.request.terms) = legs[kind].id
    /\ legs[kind].id \notin executed

\* The siblings of a leg are cancelled only after its fill was seen, so two legs that are met at
\* the same price would both fire.  Two legs built against an oracle price never are.
BracketIsExclusive ==
  known # None /\ (\A kind \in Kind : legs[kind] # None) =>
    \A price \in Prices : \E kind \in Kind :
      LET leg == legs[kind].id
      IN  IF leg.direction = "at_or_below" THEN price > leg.trigger ELSE price < leg.trigger

\* After a cancel that triggerCancelIsFinal accepts, the legs it lists never fire again; only an
\* attempt whose outcome the keeper did not know can still turn out to have been filled.
FinalIsFinal ==
  response.final =>
    \A r \in response.results : \A h \in held :
      Commitment(h.request.terms) = r.id =>
        /\ h.state \in Terminal
        /\ h.request \in fills \ response.fills => h.state = "fire_unknown"
=============================================================================
