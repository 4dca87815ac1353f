--------------------------- MODULE IntentAccounts ---------------------------
(***************************************************************************)
(* The accounts of a perp intent: buildCanonicalPerpRemainingAccounts      *)
(* (context.ts) lists them, and hashExecutionQueueAccountsForCtmEnqueue    *)
(* (intents.ts) is what the owner signs of them.                           *)
(*                                                                         *)
(* The program compares the signed hash with the flags that the runtime    *)
(* shows it.  The runtime knows one set of flags per account and           *)
(* transaction, so an account that is listed twice has the union of its    *)
(* flags at both places.  SHA-256 is taken to be injective: a hash is the  *)
(* list it was made of.  Every flag of a signer is FALSE and is left out;  *)
(* so are the open orders of spot markets, which follow the perp oracles.  *)
(***************************************************************************)
EXTENDS Naturals, Sequences, FiniteSets, SequencesExt, Selection

CONSTANTS Tokens,       \* tokens of the group that an account may hold
          Settlement,   \* the one that perps settle in
          Free,         \* the index of an unused token slot
          Slots,        \* bound: token slots of an account
          Perps,        \* the perp markets, in the order of their index
          OracleKeys,   \* oracles
          NoOracle,     \* PublicKey.default
          FallbackLists \* bound: what deriveFallbackOracleContexts may have for an oracle

ASSUME IntentAccountsAssumption ==
  /\ Settlement \in Tokens /\ Free \notin Tokens /\ Slots \in Nat \ {0}
  /\ Perps \in Seq(ToSet(Perps)) /\ FallbackLists \subseteq Seq(OracleKeys \cup {NoOracle})

VARIABLES inputs,   \* the account's slots, the market, and what the group has: mint infos and oracles
          accountList   \* the list, or why there is none

accountsVars == <<inputs, accountList>>

Unbuilt == [outcome |-> "none", metas |-> << >>]

AccountsInit ==
  /\ inputs \in [slots : [1 .. Slots -> Tokens \cup {Free}], market : ToSet(Perps),
                 mintInfos : {Tokens} \cup {Tokens \ {t} : t \in Tokens \ {Settlement}},
                 oracle : [Tokens -> OracleKeys], fallback : [OracleKeys -> FallbackLists]]
  /\ accountList = Unbuilt

-----------------------------------------------------------------------------
\* The account list

\* The first free slot is taken for the settlement token when no slot has it.
WithSettlement(slots) ==
  LET free == {i \in DOMAIN slots : slots[i] = Free}
  IN IF Settlement \in ToSet(slots) \/ free = {} THEN slots
     ELSE [slots EXCEPT ![CHOOSE i \in free : \A j \in free : i <= j] = Settlement]

\* uniqueBy.
Unique(s) == Selected(s, {i \in DOMAIN s : \A j \in 1 .. i - 1 : s[j] # s[i]})

Without(s, items) == Selected(s, {i \in DOMAIN s : s[i] \notin items})

HeldTokens(given) == Unique(Without(WithSettlement(given.slots), {Free}))

\* The account of one kind for each item.
Tagged(kind, s) == [i \in DOMAIN s |-> <<kind, s[i]>>]

Mapped(s, f) == [i \in DOMAIN s |-> f[s[i]]]

HeldOracles(given) == Mapped(HeldTokens(given), given.oracle)

TokenOracles(given) == Tagged("oracle", HeldOracles(given))

\* All fallbacks of those oracles: each once, none that is a token's own, none that is unset.
Fallbacks(given) ==
  Unique(Without(Tagged("oracle", Flat(Mapped(HeldOracles(given), given.fallback))),
                 {<<"oracle", NoOracle>>} \cup ToSet(TokenOracles(given))))

HealthKeys(given) ==
  Tagged("bank", HeldTokens(given)) \o TokenOracles(given)
    \o Tagged("perpMarket", Perps) \o Tagged("perpOracle", Perps) \o Fallbacks(given)

Meta(key, writable) == [key |-> key, writable |-> writable]

\* The accounts of the market, in front of the health accounts.
FrontMetas(given) ==
  << Meta(<<"group">>, FALSE), Meta(<<"account">>, TRUE), Meta(<<"owner">>, FALSE),
     Meta(<<"perpMarket", given.market>>, TRUE), Meta(<<"bids", given.market>>, TRUE),
     Meta(<<"asks", given.market>>, TRUE), Meta(<<"eventQueue", given.market>>, TRUE),
     Meta(<<"perpOracle", given.market>>, FALSE) >>

HealthMetas(given) == [i \in DOMAIN HealthKeys(given) |-> Meta(HealthKeys(given)[i], FALSE)]

Canonical(given) == FrontMetas(given) \o HealthMetas(given)

BuildAccounts ==
  /\ accountList = Unbuilt
  /\ accountList' =
       CASE Settlement \notin ToSet(WithSettlement(inputs.slots)) -> [outcome |-> "full", metas |-> << >>]
         [] /\ Settlement \in ToSet(WithSettlement(inputs.slots))
            /\ ~(ToSet(HeldTokens(inputs)) \subseteq inputs.mintInfos) -> [outcome |-> "missing", metas |-> << >>]
         [] OTHER -> [outcome |-> "built", metas |-> Canonical(inputs)]
  /\ UNCHANGED inputs

AccountsNext == BuildAccounts

AccountsSpec == AccountsInit /\ [][AccountsNext]_accountsVars

-----------------------------------------------------------------------------
\* What is signed of it

\* The accounts that hashExecutionQueueAccountsForCtmEnqueue takes to be in front.
HashedMetas == << Meta(<<"group">>, TRUE), Meta(<<"queue">>, TRUE), Meta(<<"sysvar">>, FALSE) >>

\* A mutation: each meta keeps its own flag.
Unmerged(remaining) == remaining

\* mergeEffectiveRuntimeFlags.
Effective(remaining) ==
  [i \in DOMAIN remaining |->
     Meta(remaining[i].key,
          \E other \in ToSet(HashedMetas \o remaining) : other.key = remaining[i].key /\ other.writable)]

\* The keys that buildExecutionQueueEnqueueDirectIx lists; the program itself comes last.
EnqueueKeys(remaining) ==
  << Meta(<<"group">>, TRUE), Meta(<<"queue">>, TRUE), Meta(<<"sysvar">>, FALSE) >>
    \o remaining \o << Meta(<<"program">>, FALSE) >>

-----------------------------------------------------------------------------

\* The runtime's view of the remaining accounts of an instruction with these keys.
RuntimeView(keys, remaining) ==
  [i \in DOMAIN remaining |->
     Meta(remaining[i].key, \E j \in DOMAIN keys : keys[j].key = remaining[i].key /\ keys[j].writable)]

\* The owner signs the list as the program will see it, although the group is read-only in the
\* list and writable in the instruction, and the market is writable in front and read-only among
\* the health accounts; and the list has a bank and an oracle for each token the account holds
\* and for the settlement token, each fallback at one place.
\* (context.ts 251-395, intents.ts 344-386, 599-624)
SignedAsSeen ==
  accountList.outcome = "built" =>
    LET metas == accountList.metas
        keys  == [i \in DOMAIN metas |-> metas[i].key]
    IN /\ Effective(metas) = RuntimeView(EnqueueKeys(metas), metas)
       /\ \A t \in (ToSet(inputs.slots) \ {Free}) \cup {Settlement} :
            /\ Cardinality({i \in DOMAIN keys : keys[i] = <<"bank", t>>}) = 1
            /\ <<"oracle", inputs.oracle[t]>> \in ToSet(keys)
       /\ \A i \in DOMAIN keys : keys[i][1] = "bank" =>
            keys[i][2] \in (ToSet(inputs.slots) \ {Free}) \cup {Settlement}
       /\ \A o \in OracleKeys :
            (\A t \in ToSet(HeldTokens(inputs)) : inputs.oracle[t] # o) =>
              Cardinality({i \in DOMAIN keys : keys[i] = <<"oracle", o>>}) <= 1

=============================================================================
