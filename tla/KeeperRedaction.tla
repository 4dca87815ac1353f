--------------------------- MODULE KeeperRedaction ---------------------------
(***************************************************************************)
(* What leaves the keeper of trigger orders (triggerOrderViews.ts).  A     *)
(* stored leg is a signed, replayable intent; the bridge and the client    *)
(* redact every answer, one after the other, and the harness rebuilds each *)
(* leg strictly.  (The callers are triggerOrders.ts 600-632.)              *)
(*                                                                         *)
(* A JSON value is a tree: a function from its paths to what stands there. *)
(* A path is the keys that lead to its place from the Root; the position   *)
(* of an item of a list is a key too, and keeps its name when an item      *)
(* before it is dropped.  A scalar is null, or `good' or `bad' for the     *)
(* field it stands in.  Of each kind of field of a leg there is one: "id"  *)
(* must be good, "state_reason" may be null or absent, "last_fire" is a    *)
(* detail, of which "attempt" must be good and "sequence" may be null or   *)
(* absent.  "request" is one of the forbidden keys; any other key stands   *)
(* for itself.                                                             *)
(***************************************************************************)
EXTENDS Naturals, Sequences, SequencesExt

CONSTANTS Answers,   \* bound: the answers of the keeper
          MaxHops,   \* bound: how often an answer is redacted
          MaxDepth,  \* MAX_REDACT_DEPTH
          Keys       \* the keys of objects and the positions of lists

Root == << >>
Scalars == {"good", "bad", "null"}

ViewFields == {"id", "state_reason", "last_fire"}
LastFireFields == {"attempt", "sequence"}
Forbidden == {"request"}

\* A position is no name.
IsJson(value) ==
  /\ DOMAIN value \subseteq Seq(Keys) /\ Root \in DOMAIN value
  /\ value \in [DOMAIN value -> {"object", "list"} \cup Scalars]
  /\ \A p \in DOMAIN value \ {Root} :
       /\ Front(p) \in DOMAIN value /\ value[Front(p)] \in {"object", "list"}
       /\ value[Front(p)] = "list" => Last(p) \notin Forbidden

\* A detail of a leg in a list is four keys deep.
ASSUME KeeperRedactionAssumption ==
  /\ MaxDepth \in Nat /\ MaxDepth >= 4 /\ MaxHops \in Nat
  /\ {"order", "orders"} \cup ViewFields \cup LastFireFields \subseteq Keys
  /\ \A value \in Answers : IsJson(value)

VARIABLES answer,   \* what the keeper answered
          body,     \* what is left of it
          hops      \* how often it was redacted

redactVars == <<answer, body, hops>>

NullValue == [p \in {Root} |-> "null"]

\* The path from a place on.
Inner(place, p) == SubSeq(p, Len(place) + 1, Len(p))

\* What stands at a place and below it, as a value of its own.
Under(value, place) ==
  [r \in {s \in {Inner(place, p) : p \in DOMAIN value} : place \o s \in DOMAIN value}
     |-> value[place \o r]]

\* The places of the legs: `order', and the items of `orders'.
LegPlaces(value) ==
  {p \in DOMAIN value :
     /\ value[Root] = "object"
     /\ \/ p = <<"order">>
        \/ Len(p) = 2 /\ p[1] = "orders" /\ value[<<"orders">>] = "list"}

RedactInit == answer \in Answers /\ body = answer /\ hops = 0

-----------------------------------------------------------------------------
\* The lenient view, of the bridge and the client

\* stripForbiddenKeys: what is too deep becomes null.
Strip(value) ==
  [p \in {q \in DOMAIN value : Len(q) <= MaxDepth + 1 /\ \A i \in DOMAIN q : q[i] \notin Forbidden}
     |-> IF Len(p) > MaxDepth THEN "null" ELSE value[p]]

\* pickScalars of the detail, and the scalars of the leg.
Shown(leg) ==
  {p \in DOMAIN leg :
     \/ p \in {Root, <<"last_fire">>}
     \/ Len(p) = 1 /\ p[1] \in ViewFields /\ leg[p] \in Scalars
     \/ /\ Len(p) = 2 /\ p[1] = "last_fire" /\ leg[<<"last_fire">>] = "object"
        /\ p[2] \in LastFireFields /\ leg[p] \in Scalars}

View(leg) == [p \in Shown(leg) |-> IF p = <<"last_fire">> /\ leg[p] # "object" THEN "null" ELSE leg[p]]

\* A mutation: a leg is dropped for a field that cannot be shown.
WhitelistStrict(leg) ==
  IF leg[Root] # "object" \/ \E p \in DOMAIN leg : Len(p) = 1 /\ leg[p] \notin Scalars THEN NullValue ELSE View(leg)

\* whitelistTriggerLegView.
Whitelist(leg) ==
  IF leg[Root] # "object" THEN NullValue ELSE View(leg)

\* The leg that a path leads into: its place, if there is one.
LegOf(value, p) == {place \in LegPlaces(value) : IsPrefix(place, p)}

\* Each leg is replaced by its whitelisted view; an item of `orders' without one is dropped.
WithLegs(value) ==
  LET Leg(place) == Whitelist(Under(value, place))
      kept == {p \in DOMAIN value : \A place \in LegOf(value, p) :
                 /\ Inner(place, p) \in DOMAIN Leg(place)
                 /\ place = <<"order">> \/ Leg(place) # NullValue}
  IN [p \in kept |-> IF LegOf(value, p) = {} THEN value[p]
                     ELSE LET place == CHOOSE q \in LegOf(value, p) : TRUE
                          IN Leg(place)[Inner(place, p)]]

\* A mutation: the legs are reduced to the view, and the rest is passed on.
RedactLegs(value) == WithLegs(value)

\* redactTriggerKeeperResponse.
Redact(value) == WithLegs(Strip(value))

Forward ==
  /\ hops < MaxHops
  /\ body' = Redact(body)
  /\ hops' = hops + 1
  /\ UNCHANGED answer

RedactNext == Forward

RedactSpec == RedactInit /\ [][RedactNext]_redactVars

-----------------------------------------------------------------------------
\* The strict view, of the harness

\* A required field is there and good; an optional one is, or it is null or not there.
Fits(value, required, optional) ==
  /\ \A p \in required : p \in DOMAIN value /\ value[p] = "good"
  /\ \A p \in optional \cap DOMAIN value : value[p] \in {"good", "null"}

\* sanitizeLastFire finds nothing wrong with the detail of a leg.
FitsLastFire(leg) ==
  leg[<<"last_fire">>] = "object" /\ Fits(leg, {<<"last_fire", "attempt">>}, {<<"last_fire", "sequence">>})

\* sanitizeTriggerLegView: the leg, or null; a detail that is malformed becomes null by itself.
Sanitize(leg) ==
  IF leg[Root] = "object" /\ Fits(leg, {<<"id">>}, {<<"state_reason">>})
  THEN LET shown == {p \in DOMAIN leg :
                       \/ p = Root
                       \/ Len(p) = 1 /\ p[1] \in ViewFields
                       \/ Len(p) = 2 /\ p[1] = "last_fire" /\ p[2] \in LastFireFields /\ FitsLastFire(leg)}
       IN [p \in shown |-> IF p = <<"last_fire">> /\ ~FitsLastFire(leg) THEN "null" ELSE leg[p]]
  ELSE NullValue

\* The legs that the harness shows of an answer.
LegsOf(value) == {Sanitize(Under(value, place)) : place \in LegPlaces(value)} \ {NullValue}

-----------------------------------------------------------------------------

\* Nothing that makes a stored leg replayable passes one redaction, in whatever shape the keeper
\* answers and however deep it is buried; and what stands where legs are expected has the fields
\* of the view and nothing else, scalars but for the detail.  (triggerOrderViews.ts 312-410)
NothingForbidden ==
  hops > 0 =>
    /\ \A p \in DOMAIN body : \A i \in DOMAIN p : p[i] \notin Forbidden
    /\ \A place \in LegPlaces(body) :
         LET leg == Under(body, place)
         IN \A p \in DOMAIN leg \ {Root} :
              \/ Len(p) = 1 /\ p[1] \in ViewFields /\ (p[1] = "last_fire" \/ leg[p] \in Scalars)
              \/ Len(p) = 2 /\ p[1] = "last_fire" /\ p[2] \in LastFireFields /\ leg[p] \in Scalars

\* What the harness would show of the keeper's own answer it still shows after the answer was
\* redacted, once or twice: each leg, with each detail that was well-formed; and redacting again
\* changes nothing.  (A reason or a detail that is malformed may be missing after a redaction
\* instead of malformed, and then the harness shows more than before.)
\* (triggerOrderViews.ts 204-310, 321-410)
RedactionHidesNoLeg ==
  /\ \A leg \in LegsOf(answer) : \E same \in LegsOf(body) :
       LET lacking == {p \in DOMAIN leg : p = <<"last_fire">> /\ leg[p] = "null"}
       IN /\ DOMAIN leg \subseteq DOMAIN same
          /\ \A p \in DOMAIN leg \ lacking : same[p] = leg[p]
          /\ lacking = {} => DOMAIN same = DOMAIN leg
  /\ hops > 0 => Redact(body) = body

=============================================================================
