----------------------------- MODULE EventQueues -----------------------------
(***************************************************************************)
(* eventQueueMetas of the vault client (flp/index.ts) and the pricing      *)
(* context that is built with it (flpContext.ts).                          *)
(*                                                                         *)
(* A pricing instruction lists the health accounts of the vault's perp     *)
(* positions and then the event queue of each perp market among them.  The *)
(* client looks up the queues of the accounts it has not met before, all   *)
(* in one read, and remembers what it found for ever.  Several             *)
(* instructions may be under construction at once, and share the memory.   *)
(*                                                                         *)
(* The queue of a market is named by the market.  A list of queues is a    *)
(* function from the positions of the health list that yield one.          *)
(***************************************************************************)
EXTENDS Naturals, Sequences

CONSTANTS Accounts,   \* accounts that may appear among the health accounts
          Markets,    \* those that are perp markets; the others are banks and oracles
          Builders,   \* instructions that may be under construction at a time
          MaxHealth,  \* bound: length of a health list
          MaxBegun,  \* bound: instructions begun
          Unknown,    \* no entry in marketQueues
          Null        \* the entry null

ASSUME EventQueuesAssumption ==
  /\ Markets \subseteq Accounts
  /\ Unknown # Null /\ {Unknown, Null} \cap Accounts = {}
  /\ MaxHealth \in Nat /\ MaxBegun \in Nat

VARIABLES listed,        \* the perp markets that were created
          marketQueues,  \* what the client remembers of each account
          building,      \* the instruction each builder works on
          begun,         \* how many instructions were begun
          missed         \* history: markets that some read did not find

cacheVars == <<listed, marketQueues, building, begun, missed>>

Health == UNION {[1 .. n -> Accounts] : n \in 0 .. MaxHealth}
Entry  == {Unknown, Null} \cup Accounts
NoQueues == [i \in {} |-> Null]

Idle == [stage |-> "idle", health |-> << >>, unknown |-> {}, infos |-> NoQueues, queues |-> NoQueues]

CacheInit ==
  /\ listed \in SUBSET Markets
  /\ marketQueues = [a \in Accounts |-> Unknown]
  /\ building = [b \in Builders |-> Idle]
  /\ begun = 0
  /\ missed = {}

\* A market is created.  It cannot be a position of the vault before.
List(m) ==
  /\ m \in Markets \ listed
  /\ listed' = listed \cup {m}
  /\ UNCHANGED <<marketQueues, building, begun, missed>>

\* A mutation: an account that appears twice yields its queue twice.
QueuesRepeated(health, entries) ==
  [i \in {j \in DOMAIN health : entries[health[j]] \in Accounts} |-> entries[health[i]]]

\* The loop over `health': one queue for each account that has one, at its first place.
Queues(health, entries) ==
  [i \in {j \in DOMAIN health : /\ entries[health[j]] \in Accounts
                                /\ \A k \in 1 .. j - 1 : health[k] # health[j]}
     |-> entries[health[i]]]

\* The accounts of `health' that the client has not met, and the read of them all; without
\* any, the list is complete at once.
Begin(b) ==
  /\ building[b].stage \in {"idle", "built", "failed"} /\ begun < MaxBegun
  /\ begun' = begun + 1
  /\ \E health \in Health :
       LET unknown == {a \in Accounts : /\ \E i \in DOMAIN health : health[i] = a
                                        /\ marketQueues[a] = Unknown}
       IN /\ \A i \in DOMAIN health : health[i] \in Markets => health[i] \in listed
          /\ building' = [building EXCEPT ![b] =
               [Idle EXCEPT !.health = health, !.unknown = unknown,
                            !.stage = IF unknown = {} THEN "built" ELSE "reading",
                            !.queues = IF unknown = {} THEN Queues(health, marketQueues) ELSE NoQueues]]
  /\ UNCHANGED <<listed, marketQueues, missed>>

\* The node answers, from what it has seen: it may be behind the one that listed the
\* positions.  An account that is no market has no queue in any case.
NodeAnswers(b) ==
  /\ building[b].stage = "reading"
  /\ \E seen \in SUBSET listed :
       LET wanted == building[b].unknown
       IN /\ building' = [building EXCEPT
               ![b].stage = "answered",
               ![b].infos = [a \in wanted |-> IF a \in seen THEN a ELSE Null]]
          /\ missed' = missed \cup ((wanted \cap Markets) \ seen)
  /\ UNCHANGED <<listed, marketQueues, begun>>

\* The caller goes on: every account it asked for is entered, over whatever a faster call
\* may have entered meanwhile, and the list is made.
Settle(b) ==
  /\ building[b].stage = "answered"
  /\ LET infos == building[b].infos
         entered == [a \in Accounts |-> IF a \in DOMAIN infos THEN infos[a] ELSE marketQueues[a]]
     IN /\ marketQueues' = entered
        /\ building' = [building EXCEPT ![b].stage = "built",
                                        ![b].queues = Queues(building[b].health, entered)]
  /\ UNCHANGED <<listed, begun, missed>>

\* The read is rejected: nothing is remembered.
ReadFails(b) ==
  /\ building[b].stage = "reading"
  /\ building' = [building EXCEPT ![b].stage = "failed"]
  /\ UNCHANGED <<listed, marketQueues, begun, missed>>

CacheNext ==
  \/ \E m \in Markets : List(m)
  \/ \E b \in Builders : Begin(b) \/ NodeAnswers(b) \/ Settle(b) \/ ReadFails(b)

CacheSpec == CacheInit /\ [][CacheNext]_cacheVars

(***************************************************************************)
(* Properties                                                              *)
(***************************************************************************)
Infos == UNION {[A -> Accounts \cup {Null}] : A \in SUBSET Accounts}
Found == UNION {[P -> Accounts] : P \in SUBSET (1 .. MaxHealth)}
Building == [stage : {"idle", "reading", "answered", "built", "failed"}, health : Health,
             unknown : SUBSET Accounts, infos : Infos, queues : Found]

CacheTypeOK ==
  /\ listed \subseteq Markets
  /\ marketQueues \in [Accounts -> Entry]
  /\ begun \in Nat
  /\ missed \subseteq Markets
  /\ building \in [Builders -> Building]

\* A list of queues of `health' names the markets in it, each once and at its first place,
\* and leaves out only those in `lost'.
ListIsTrue(health, queues, lost) ==
  /\ \A i \in DOMAIN queues :
       /\ health[i] \in Markets /\ queues[i] = health[i]
       /\ \A j \in DOMAIN queues : queues[j] = queues[i] => j = i
  /\ \A i \in DOMAIN health :
       health[i] \in Markets \ lost => \E j \in DOMAIN queues : j <= i /\ queues[j] = health[i]

\* Whatever calls overlap and in whichever order their reads are answered and taken up: a
\* finished list has the event queue of every market among the health accounts, once, at
\* the market's first place, and nothing else.  Only a market that some read of the client
\* did not find may be left out; the client does not ask for it again.
QueuesAreTrue ==
  \A b \in Builders : building[b].stage = "built" =>
    ListIsTrue(building[b].health, building[b].queues, missed)

\* What is remembered is true, but for the markets that were missed.
EntryInv ==
  \A a \in Accounts :
    /\ marketQueues[a] \in Accounts => a \in Markets /\ marketQueues[a] = a
    /\ marketQueues[a] = Null => a \notin Markets \ missed

\* So is what a call is about to enter, and it has asked for all that is not remembered.
CallInv(call, entries, lost) ==
  /\ call.stage \in {"reading", "answered"} =>
       \A i \in DOMAIN call.health : call.health[i] \in call.unknown \/ entries[call.health[i]] # Unknown
  /\ call.stage = "answered" =>
       /\ DOMAIN call.infos = call.unknown
       /\ \A a \in call.unknown : \/ a \in Markets /\ call.infos[a] = a
                                  \/ a \notin Markets \ lost /\ call.infos[a] = Null

BuildingInv == \A b \in Builders : CallInv(building[b], marketQueues, missed)

CacheInv == CacheTypeOK /\ EntryInv /\ BuildingInv /\ QueuesAreTrue
=============================================================================
