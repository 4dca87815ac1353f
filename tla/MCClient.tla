------------------------------ MODULE MCClient ------------------------------
(* The parts of the client that stand between a caller and the gateway.  They *)
(* share no state, so each behaviour is one of one part, and the others rest.  *)
EXTENDS FeeCredit, Submission, SseParser, ClientContext, IntentAccounts, KeeperRedaction

CONSTANTS mainnet, p1, p2, p3, g1, g2, g3, g4, u1, u2, u3, w1, w2, m1, m2, o2, o3

-----------------------------------------------------------------------------
\* The number drawn in each call.
MCDraw == [call \in 1 .. MaxCalls |-> call]

\* The numbers that callers pick are alike.
MCSymmetry == Permutations(Ids)

\* Lines of a stream: of each field, with and without a value, a comment, and unknown ones.
MCLines == { << >>, <<"data">>, <<"data", "colon", "space", "hi", "lo">>, <<"event", "colon", "x">>,
             <<"id", "colon", "colon">>, <<"colon", "x">>, <<"x", "CR">>, <<"hi">> }

\* Two deployments on two clusters; of the other groups one shares the program of the first.
MCRegistry ==
  { [name |-> "r9", cluster |-> mainnet, program |-> p1, group |-> g1, rpcUrl |-> u1, gateway |-> w1],
    [name |-> "dev", cluster |-> Devnet, program |-> p2, group |-> g2, rpcUrl |-> u2, gateway |-> w2] }
MCHome == [g \in Groups |->
  CASE g = g2 -> [cluster |-> Devnet, program |-> p2]
    [] g = g4 -> [cluster |-> mainnet, program |-> p3]
    [] OTHER  -> [cluster |-> mainnet, program |-> p1]]
MCClusterOf == [u \in Urls |-> IF u = u2 THEN Devnet ELSE mainnet]
MCDefaultUrl == [c \in Clusters |-> IF c = mainnet THEN u3 ELSE u2]

MCPerps == <<m1, m2>>

\* No fallback, one, and one with the oracle that it is quoted by.
MCFallbackLists == { << >>, <<o3, NoOracle>>, <<o2, o3>> }

\* Legs with any mixture of good, bad and missing fields and a forbidden object within, and
\* answers with a leg in every place where one may stand.
Leaf(node) == [p \in {Root} |-> node]
Put(value, place, inner) ==
  [p \in DOMAIN value \cup {place \o q : q \in DOMAIN inner} |->
     IF IsPrefix(place, p) THEN inner[Inner(place, p)] ELSE value[p]]
Buried == {<<"other">>, <<"other", "1">>, <<"other", "1", "request">>}
Deep == [p \in {Root} \cup Buried |->
           IF p \in {Root, <<"other", "1">>} THEN "object" ELSE IF p = <<"other">> THEN "list" ELSE "good"]
Values(key) ==
  {Leaf("good"), Deep} \cup (CASE key \in {"id", "attempt"} -> {Leaf("bad")}
                             [] key \in {"state_reason", "sequence"} -> {Leaf("bad"), Leaf("null")}
                             [] OTHER -> {})
RECURSIVE Objs(_)
Objs(keys) ==
  IF keys = {} THEN {Leaf("object")}
  ELSE LET k == CHOOSE key \in keys : TRUE
           rest == Objs(keys \ {k})
       IN rest \cup {Put(object, <<k>>, v) : object \in rest, v \in Values(k)}
Details == {Leaf("good"), Leaf("null"), Deep} \cup Objs({"attempt", "sequence", "request"})
Legs == {Leaf("good"), Leaf("null")} \cup Objs({"id", "state_reason", "request", "other"})
          \cup {Put(leg, <<"last_fire">>, d) : leg \in Objs({"id", "state_reason"}), d \in Details}
MCAnswers == Legs
  \cup {Put(Leaf("object"), <<k>>, leg) : k \in {"orders", "order", "other"}, leg \in Legs}
  \cup {Put(Leaf("object"), <<k>>, Put(Put(Leaf("list"), <<"1">>, leg), <<"2">>, Leaf("good"))) :
           k \in {"orders", "order"}, leg \in Legs}

-----------------------------------------------------------------------------
VARIABLE part

mcVars == <<part, feeVars, submitVars, parserVars, contextVars, accountsVars, redactVars>>

\* What the initial states of each part have for a choice.
RestsAt(p, choice) == part # p => choice

Init ==
  /\ part \in {"fees", "submission", "stream", "context", "accounts", "keeper"}
  /\ FeeInit        /\ RestsAt("fees", current = CHOOSE a \in Addresses : TRUE)
  /\ SubmitInit     /\ RestsAt("submission", pools)
  /\ IF part = "stream"   THEN ParserInit   ELSE text = << >> /\ fed = 0 /\ pending = << >> /\ buf = << >>
                                                 /\ cur = Empty /\ frames = << >>
  /\ IF part = "context"  THEN ContextInit  ELSE config = Unset /\ stage = "config" /\ context = Unset
  /\ IF part = "accounts" THEN AccountsInit ELSE inputs = Unset /\ accountList = Unbuilt
  /\ IF part = "keeper"   THEN RedactInit   ELSE answer = NullValue /\ body = NullValue /\ hops = 0

Fees       == part = "fees"       /\ FeeNext      /\ UNCHANGED <<part, submitVars, parserVars, contextVars, accountsVars, redactVars>>
Submissions    == part = "submission" /\ SubmitNext   /\ UNCHANGED <<part, feeVars, parserVars, contextVars, accountsVars, redactVars>>
Stream     == part = "stream"     /\ ParserNext   /\ UNCHANGED <<part, feeVars, submitVars, contextVars, accountsVars, redactVars>>
Contexts   == part = "context"    /\ ContextNext  /\ UNCHANGED <<part, feeVars, submitVars, parserVars, accountsVars, redactVars>>
AccountsOf == part = "accounts"   /\ AccountsNext /\ UNCHANGED <<part, feeVars, submitVars, parserVars, contextVars, redactVars>>
Keeper     == part = "keeper"     /\ RedactNext   /\ UNCHANGED <<part, feeVars, submitVars, parserVars, contextVars, accountsVars>>

Next == Fees \/ Submissions \/ Stream \/ Contexts \/ AccountsOf \/ Keeper

Spec == Init /\ [][Next]_mcVars

=============================================================================
