---------------------------- MODULE ClientProofs -----------------------------
(***************************************************************************)
(* Proofs about the parts of the client that share no state: the event     *)
(* queues it remembers, the targets of a recovery, the notice of a change  *)
(* of parameters, the credit of a fee deposit, the replay of a submission, *)
(* the resolution of a context, trigger orders, the redaction of an        *)
(* answer, the accounts that an owner signs, and the parser of a stream.   *)
(***************************************************************************)
EXTENDS EventQueues, RecoveryRead, ParamsNotice, FeeCredit, Submission, ClientContext, TriggerOrders,
        KeeperRedaction, IntentAccounts, SseParser, FiniteSetTheorems, SequenceTheorems, WellFoundedInduction, TLAPS

(***************************************************************************)
(* The event queues                                                        *)
(***************************************************************************)
\* An account that occurs in a list occurs somewhere first.
LEMMA FirstPlace ==
  ASSUME NEW health \in Health, NEW i \in DOMAIN health
  PROVE  \E j \in DOMAIN health : /\ j <= i /\ health[j] = health[i]
                                  /\ \A k \in 1 .. j - 1 : health[k] # health[j]
<1>1. PICK n \in Nat : n \in 0 .. MaxHealth /\ health \in [1 .. n -> Accounts] /\ DOMAIN health = 1 .. n
  BY EventQueuesAssumption DEF Health
<1> DEFINE T == {k \in 1 .. i : health[k] = health[i]}
<1>2. T \subseteq Nat /\ T # {}
  BY <1>1
<1>3. PICK j \in T : \A k \in T : ~(<<k, j>> \in OpToRel(<, Nat))
  BY <1>2, NatLessThanWellFounded, WFMin
<1>4. \A k \in T : ~(k < j)
  BY <1>2, <1>3 DEF OpToRel
<1>5. j \in 1 .. n /\ j <= i /\ health[j] = health[i]
  BY <1>1
<1>6. \A k \in 1 .. j - 1 : health[k] # health[j]
  BY <1>1, <1>4, <1>5
<1> QED
  BY <1>1, <1>5, <1>6

\* The loop of eventQueueMetas, over entries that are true, yields a list that is.
LEMMA QueuesTrue ==
  ASSUME NEW health \in Health, NEW entries \in [Accounts -> Entry], NEW lost \in SUBSET Markets,
         \A a \in Accounts : entries[a] \in Accounts => a \in Markets /\ entries[a] = a,
         \A i \in DOMAIN health : health[i] \in Markets \ lost => entries[health[i]] \in Accounts
  PROVE  /\ ListIsTrue(health, Queues(health, entries), lost)
         /\ Queues(health, entries) \in Found
<1> DEFINE q == Queues(health, entries)
           P == {j \in DOMAIN health : /\ entries[health[j]] \in Accounts
                                       /\ \A k \in 1 .. j - 1 : health[k] # health[j]}
<1>1. PICK n \in Nat : n \in 0 .. MaxHealth /\ health \in [1 .. n -> Accounts] /\ DOMAIN health = 1 .. n
  BY EventQueuesAssumption DEF Health
<1>2. q = [i \in P |-> entries[health[i]]]
  BY DEF Queues
<1>3. P \subseteq 1 .. n /\ DOMAIN q = P /\ \A i \in P : q[i] = health[i] /\ health[i] \in Markets
  BY <1>1, <1>2
<1>4. ASSUME NEW i \in P, NEW j \in P, q[j] = q[i] PROVE j = i
  <2>1. health[j] = health[i] /\ i \in 1 .. n /\ j \in 1 .. n
    BY <1>3, <1>4
  <2>2. ~(i < j) /\ ~(j < i)
    BY <2>1
  <2> QED
    BY <2>1, <2>2
<1>5. ASSUME NEW i \in DOMAIN health, health[i] \in Markets \ lost
      PROVE  \E j \in P : j <= i /\ q[j] = health[i]
  <2>1. PICK j \in DOMAIN health : /\ j <= i /\ health[j] = health[i]
                                   /\ \A k \in 1 .. j - 1 : health[k] # health[j]
    BY FirstPlace
  <2>2. j \in P
    BY <2>1, <1>5
  <2> QED
    BY <2>1, <2>2, <1>3
<1>6. q \in [P -> Accounts]
  BY <1>2
<1>7. P \in SUBSET (1 .. MaxHealth)
  BY <1>1, <1>3, EventQueuesAssumption
<1>8. q \in Found
  BY <1>6, <1>7 DEF Found
<1> HIDE DEF P, q
<1> QED
  BY <1>3, <1>4, <1>5, <1>8 DEF ListIsTrue, q

LEMMA CacheStart == CacheInit => CacheInv
<1> SUFFICES ASSUME CacheInit PROVE CacheInv
  OBVIOUS
<1>1. Idle \in Building
  <2>1. << >> \in Health
    BY EventQueuesAssumption DEF Health
  <2>2. NoQueues \in Infos /\ NoQueues \in Found
    <3>1. NoQueues \in [{} -> Accounts \cup {Null}] /\ NoQueues \in [{} -> Accounts]
      BY DEF NoQueues
    <3> QED
      BY <3>1 DEF Infos, Found
  <2> QED
    BY <2>1, <2>2 DEF Idle, Building
<1>2. CacheTypeOK
  BY <1>1 DEF CacheInit, CacheTypeOK, Entry
<1>3. EntryInv
  BY EventQueuesAssumption DEF CacheInit, EntryInv
<1>4. BuildingInv /\ QueuesAreTrue
  BY DEF CacheInit, Idle, BuildingInv, CallInv, QueuesAreTrue
<1> QED
  BY <1>2, <1>3, <1>4 DEF CacheInv

\* What a call knows and has built stays true when more is remembered and more is missed.
LEMMA MoreIsMissed ==
  ASSUME NEW health, NEW queues, NEW lost, NEW more, lost \subseteq more, ListIsTrue(health, queues, lost)
  PROVE  ListIsTrue(health, queues, more)
BY DEF ListIsTrue

LEMMA MoreIsKnown ==
  ASSUME NEW call \in Building,
         NEW entries, NEW entered, NEW lost, NEW more, lost \subseteq more,
         \A a \in Accounts : entries[a] # Unknown => entered[a] # Unknown,
         CallInv(call, entries, lost)
  PROVE  CallInv(call, entered, more)
<1>1. \A i \in DOMAIN call.health : call.health[i] \in Accounts
  BY DEF Health, Building
<1> QED
  BY <1>1 DEF CallInv, Building

\* A call that reads nothing, or changes nothing of what the others rely on.
LEMMA CacheSteps == CacheInv /\ [CacheNext]_cacheVars => CacheInv'
<1> SUFFICES ASSUME CacheInv, [CacheNext]_cacheVars PROVE CacheInv'
  OBVIOUS
<1> USE EventQueuesAssumption
<1>0. CacheTypeOK /\ EntryInv /\ BuildingInv /\ QueuesAreTrue
  BY DEF CacheInv
<1>1. ASSUME NEW m \in Markets, List(m) PROVE CacheInv'
  BY <1>0, <1>1 DEF List, CacheInv, CacheTypeOK, EntryInv, BuildingInv, QueuesAreTrue
<1>2. ASSUME NEW b \in Builders, Begin(b) PROVE CacheInv'
  <2>1. PICK health \in Health, unknown \in SUBSET Accounts :
          /\ unknown = {a \in Accounts : /\ \E i \in DOMAIN health : health[i] = a
                                         /\ marketQueues[a] = Unknown}
          /\ building' = [building EXCEPT ![b] =
               [Idle EXCEPT !.health = health, !.unknown = unknown,
                            !.stage = IF unknown = {} THEN "built" ELSE "reading",
                            !.queues = IF unknown = {} THEN Queues(health, marketQueues) ELSE NoQueues]]
    BY <1>2 DEF Begin
  <2>2. UNCHANGED <<listed, marketQueues, missed>> /\ begun' = begun + 1
    BY <1>2 DEF Begin
  <2>3. DOMAIN health \subseteq Nat /\ \A i \in DOMAIN health : health[i] \in Accounts
    BY DEF Health
  <2>4. /\ building'[b].stage = (IF unknown = {} THEN "built" ELSE "reading")
        /\ building'[b].health = health /\ building'[b].unknown = unknown
        /\ building'[b].infos = NoQueues
        /\ building'[b].queues = (IF unknown = {} THEN Queues(health, marketQueues) ELSE NoQueues)
        /\ \A c \in Builders \ {b} : building'[c] = building[c]
    BY <1>0, <2>1 DEF CacheTypeOK, Building, Idle
  <2>5. \A i \in DOMAIN health : health[i] \in unknown \/ marketQueues[health[i]] # Unknown
    BY <2>1, <2>3
  <2>6. unknown = {} => /\ ListIsTrue(health, Queues(health, marketQueues), missed)
                        /\ Queues(health, marketQueues) \in Found
    <3>1. SUFFICES ASSUME unknown = {}
                   PROVE  /\ ListIsTrue(health, Queues(health, marketQueues), missed)
                          /\ Queues(health, marketQueues) \in Found
      OBVIOUS
    <3>2. marketQueues \in [Accounts -> Entry] /\ missed \in SUBSET Markets
      BY <1>0 DEF CacheTypeOK
    <3>3. \A a \in Accounts : marketQueues[a] \in Accounts => a \in Markets /\ marketQueues[a] = a
      BY <1>0 DEF EntryInv
    <3>4. \A i \in DOMAIN health : health[i] \in Markets \ missed => marketQueues[health[i]] \in Accounts
      BY <1>0, <2>3, <2>5, <3>1, <3>2 DEF EntryInv, Entry
    <3> QED
      BY <3>2, <3>3, <3>4, QueuesTrue
  <2>7. NoQueues \in Infos /\ NoQueues \in Found
    <3>1. NoQueues \in [{} -> Accounts \cup {Null}] /\ NoQueues \in [{} -> Accounts]
      BY DEF NoQueues
    <3> QED
      BY <3>1 DEF Infos, Found
  <2>8. CacheTypeOK'
    <3>1. building'[b] \in Building
      BY <1>0, <2>1, <2>6, <2>7 DEF Idle, CacheTypeOK, Building
    <3>2. building' \in [Builders -> Building]
      BY <1>0, <2>1, <2>4, <3>1 DEF CacheTypeOK
    <3> QED
      BY <1>0, <2>2, <3>2 DEF CacheTypeOK
  <2>9. EntryInv'
    BY <1>0, <2>2 DEF EntryInv
  <2>10. BuildingInv'
    <3>1. CallInv(building'[b], marketQueues, missed)
      BY <2>4, <2>5 DEF CallInv
    <3> QED
      BY <1>0, <2>2, <2>4, <3>1 DEF BuildingInv
  <2>11. QueuesAreTrue'
    <3>1. building'[b].stage = "built" => ListIsTrue(building'[b].health, building'[b].queues, missed)
      BY <2>4, <2>6
    <3> QED
      BY <1>0, <2>2, <2>4, <3>1 DEF QueuesAreTrue
  <2> QED
    BY SMTT(30), <2>8, <2>9, <2>10, <2>11 DEF CacheInv
<1>3. ASSUME NEW b \in Builders, NodeAnswers(b) PROVE CacheInv'
  <2>1. PICK seen \in SUBSET listed :
          /\ building' = [building EXCEPT ![b].stage = "answered",
                             ![b].infos = [a \in building[b].unknown |-> IF a \in seen THEN a ELSE Null]]
          /\ missed' = missed \cup ((building[b].unknown \cap Markets) \ seen)
    BY <1>3 DEF NodeAnswers
  <2> DEFINE infos == [a \in building[b].unknown |-> IF a \in seen THEN a ELSE Null]
  <2>2. UNCHANGED <<listed, marketQueues, begun>> /\ building[b].stage = "reading"
    BY <1>3 DEF NodeAnswers
  <2>3. /\ building'[b].stage = "answered" /\ building'[b].infos = infos
        /\ building'[b].health = building[b].health /\ building'[b].unknown = building[b].unknown
        /\ \A c \in Builders \ {b} : building'[c] = building[c]
    BY <1>0, <2>1 DEF CacheTypeOK, Building
  <2>4. building[b].unknown \in SUBSET Accounts /\ seen \subseteq Markets
    BY <1>0 DEF CacheTypeOK, Building
  <2>5. infos \in Infos
    <3>1. infos \in [building[b].unknown -> Accounts \cup {Null}]
      BY <2>1, <2>4
    <3> QED
      BY <2>4, <3>1 DEF Infos
  <2>6. CacheTypeOK'
    <3>1. missed' \subseteq Markets
      BY <1>0, <2>1 DEF CacheTypeOK
    <3>2. building'[b] \in Building
      BY <1>0, <2>1, <2>5 DEF CacheTypeOK, Building
    <3>3. building' \in [Builders -> Building]
      BY <1>0, <2>1, <2>3, <3>2 DEF CacheTypeOK
    <3> QED
      BY <1>0, <2>2, <3>1, <3>3 DEF CacheTypeOK
  <2>7. missed \subseteq missed'
    BY <2>1
  <2>8. EntryInv'
    BY <1>0, <2>2, <2>7 DEF EntryInv
  <2>9. \A a \in building[b].unknown : \/ a \in Markets /\ infos[a] = a
                                       \/ a \notin Markets \ missed' /\ infos[a] = Null
    <3> SUFFICES ASSUME NEW a \in building[b].unknown
                 PROVE  \/ a \in Markets /\ infos[a] = a
                        \/ a \notin Markets \ missed' /\ infos[a] = Null
      OBVIOUS
    <3>1. CASE a \in seen
      BY <2>1, <2>4, <3>1
    <3>2. CASE a \notin seen
      BY <2>1, <3>2
    <3> QED
      BY <3>1, <3>2
  <2>10. BuildingInv'
    <3>1. CallInv(building'[b], marketQueues, missed')
      <4>1. DOMAIN infos = building[b].unknown
        BY <2>1
      <4> QED
        BY <1>0, <2>2, <2>3, <2>9, <4>1 DEF BuildingInv, CallInv
    <3>2. ASSUME NEW c \in Builders \ {b} PROVE CallInv(building[c], marketQueues, missed')
      BY <1>0, <2>7, MoreIsKnown DEF CacheTypeOK, BuildingInv
    <3> QED
      BY <2>2, <2>3, <3>1, <3>2 DEF BuildingInv
  <2>11. QueuesAreTrue'
    <3>1. ASSUME NEW c \in Builders \ {b}, building[c].stage = "built"
          PROVE  ListIsTrue(building[c].health, building[c].queues, missed')
      BY <1>0, <2>7, <3>1, MoreIsMissed DEF QueuesAreTrue
    <3> QED
      BY <2>3, <3>1 DEF QueuesAreTrue
  <2> QED
    BY <2>6, <2>8, <2>10, <2>11 DEF CacheInv
<1>4. ASSUME NEW b \in Builders, Settle(b) PROVE CacheInv'
  <2> DEFINE infos == building[b].infos
             health == building[b].health
             entered == [a \in Accounts |-> IF a \in DOMAIN infos THEN infos[a] ELSE marketQueues[a]]
  <2>1. /\ building[b].stage = "answered"
        /\ marketQueues' = entered
        /\ building' = [building EXCEPT ![b].stage = "built", ![b].queues = Queues(health, entered)]
        /\ UNCHANGED <<listed, begun, missed>>
    BY <1>4 DEF Settle
  <2>2. /\ DOMAIN infos = building[b].unknown /\ building[b].unknown \in SUBSET Accounts
        /\ \A a \in building[b].unknown : \/ a \in Markets /\ infos[a] = a
                                          \/ a \notin Markets \ missed /\ infos[a] = Null
        /\ health \in Health /\ missed \in SUBSET Markets
    BY <1>0, <2>1 DEF BuildingInv, CallInv, CacheTypeOK, Building
  <2>3. /\ building'[b].stage = "built" /\ building'[b].health = health
        /\ building'[b].queues = Queues(health, entered)
        /\ \A c \in Builders \ {b} : building'[c] = building[c]
    BY <1>0, <2>1 DEF CacheTypeOK, Building
  <2>4. entered \in [Accounts -> Entry]
    BY <1>0, <2>2 DEF CacheTypeOK, Entry
  <2>5. \A a \in Accounts :
          /\ entered[a] \in Accounts => a \in Markets /\ entered[a] = a
          /\ entered[a] = Null => a \notin Markets \ missed
          /\ marketQueues[a] # Unknown => entered[a] # Unknown
          /\ a \in building[b].unknown => entered[a] # Unknown
    BY <1>0, <2>2 DEF EntryInv
  <2>6. \A i \in DOMAIN health : health[i] \in Accounts
    BY <2>2 DEF Health
  <2>7. \A i \in DOMAIN health : health[i] \in Markets \ missed => entered[health[i]] \in Accounts
    <3>1. \A i \in DOMAIN health : entered[health[i]] # Unknown
      BY <1>0, <2>1, <2>5, <2>6 DEF BuildingInv, CallInv
    <3> QED
      BY <2>4, <2>5, <2>6, <3>1 DEF Entry
  <2> HIDE DEF entered
  <2>8. ListIsTrue(health, Queues(health, entered), missed) /\ Queues(health, entered) \in Found
    BY <2>2, <2>4, <2>5, <2>7, QueuesTrue
  <2>9. CacheTypeOK'
    <3>1. building'[b] \in Building
      BY <1>0, <2>1, <2>8 DEF CacheTypeOK, Building
    <3>2. building' \in [Builders -> Building]
      BY <1>0, <2>1, <2>3, <3>1 DEF CacheTypeOK
    <3> QED
      BY <1>0, <2>1, <2>4, <3>2 DEF CacheTypeOK
  <2>10. EntryInv'
    BY <2>1, <2>5 DEF EntryInv
  <2>11. BuildingInv'
    <3>1. CallInv(building'[b], entered, missed)
      BY <2>3 DEF CallInv
    <3>2. ASSUME NEW c \in Builders \ {b} PROVE CallInv(building[c], entered, missed)
      BY <1>0, <2>5, MoreIsKnown DEF CacheTypeOK, BuildingInv
    <3> QED
      BY <2>1, <2>3, <3>1, <3>2 DEF BuildingInv
  <2>12. QueuesAreTrue'
    BY <1>0, <2>1, <2>3, <2>8 DEF QueuesAreTrue
  <2> QED
    BY <2>9, <2>10, <2>11, <2>12 DEF CacheInv
<1>5. ASSUME NEW b \in Builders, ReadFails(b) PROVE CacheInv'
  <2>1. CacheTypeOK'
    BY <1>0, <1>5 DEF ReadFails, CacheTypeOK, Building
  <2>2. /\ building'[b].stage = "failed" /\ \A c \in Builders \ {b} : building'[c] = building[c]
        /\ UNCHANGED <<marketQueues, missed>>
    BY <1>0, <1>5 DEF ReadFails, CacheTypeOK, Building
  <2>3. CallInv(building'[b], marketQueues, missed)
    BY <2>2 DEF CallInv
  <2> QED
    BY <1>0, <2>1, <2>2, <2>3 DEF CacheInv, EntryInv, BuildingInv, QueuesAreTrue
<1>6. CASE UNCHANGED cacheVars
  BY <1>0, <1>6 DEF cacheVars, CacheInv, CacheTypeOK, EntryInv, BuildingInv, QueuesAreTrue
<1> QED
  BY <1>1, <1>2, <1>3, <1>4, <1>5, <1>6 DEF CacheNext

\* However the calls that share the memory overlap, the list of event queues of every instruction
\* has each market's queue once and at its first place, but for markets that some read of the
\* client did not find.
THEOREM QueuesTruth == CacheSpec => []QueuesAreTrue
<1>1. CacheInv => QueuesAreTrue
  BY DEF CacheInv
<1> QED
  BY <1>1, CacheStart, CacheSteps, PTL DEF CacheSpec
-----------------------------------------------------------------------------
(***************************************************************************)
(* The notice of a change of parameters                                    *)
(***************************************************************************)
\* What a timing and parameters are made of.
LEMMA TimingType ==
  /\ \A t \in Timing : t.epoch \in Nat /\ t.cutoff \in Nat
  /\ NoTiming \notin Timing /\ NoTiming \notin VaultParams
  /\ \A p \in VaultParams : p.timing \in Timing /\ p.timelock \in Nat /\ p.rates \in Nat
BY NoticeAssumption DEF Timing, VaultParams

LEMMA NoticeStart == NoticeInit => NoticeInv
<1> SUFFICES ASSUME NoticeInit PROVE NoticeInv
  OBVIOUS
<1>1. params \in VaultParams /\ params.timing.epoch \in Nat /\ left = params.timing.epoch
  BY TimingType DEF NoticeInit
<1>2. Nothing \in [to : VaultParams \cup {NoTiming}, wait : Nat, stretched : BOOLEAN]
  BY DEF Nothing
<1> QED
  BY <1>1, <1>2 DEF NoticeInit, NoticeInv

\* The delay covers the rest of the epoch, and of the next one for a late request.
LEMMA DelayCovers ==
  ASSUME NoticeInv, NEW next \in VaultParams
  PROVE  /\ Delay(next) \in Nat
         /\ ~Favourable(next) => left <= Delay(next)
         /\ ~Favourable(next) /\ Late /\ ~Stretched => left + Following.epoch <= Delay(next)
<1> DEFINE e == params.timing.epoch
           c == params.timing.cutoff
           f == scheduled.epoch
           d == scheduled.cutoff
           lock == params.timelock
<1>1. e \in Nat /\ c \in Nat /\ lock \in Nat /\ left \in Nat /\ left <= e
  BY TimingType DEF NoticeInv
<1>2. scheduled # NoTiming => f \in Nat /\ d \in Nat
  BY TimingType DEF NoticeInv
<1>3. CASE Favourable(next)
  BY <1>1, <1>3 DEF Delay
<1>4. CASE ~Favourable(next) /\ scheduled = NoTiming
  <2>1. Delay(next) = Larger(lock, Larger(e + c, 0)) /\ Following.epoch = e /\ (Late => left <= c)
    BY <1>4 DEF Delay, Following, Late
  <2> HIDE DEF e, c, lock
  <2> QED
    BY <1>1, <2>1 DEF Larger
<1>5. CASE ~Favourable(next) /\ scheduled # NoTiming
  <2>1. /\ Delay(next) = Larger(lock, Larger(e + c, f + d)) /\ Following.epoch = f
        /\ Late => left <= c
        /\ ~Stretched => ~(f > e /\ d < c)
    BY <1>5 DEF Delay, Following, Late, Stretched
  <2>2. f \in Nat /\ d \in Nat
    BY <1>2, <1>5
  <2> HIDE DEF e, c, f, d, lock
  <2>3. PICK l \in Nat : l = Larger(lock, Larger(e + c, f + d)) /\ l >= e + c /\ l >= f + d
    BY <1>1, <2>2 DEF Larger
  <2>4. left <= l /\ (left <= c /\ ~(f > e /\ d < c) => left + f <= l)
    BY <1>1, <2>2, <2>3
  <2> QED
    BY <2>1, <2>3, <2>4
<1> QED
  BY <1>3, <1>4, <1>5

\* A step that leaves the parameters and what follows alone leaves the favourable changes.
LEMMA FavourableKeeps ==
  ASSUME NEW next, Following' = Following, params'.rates = params.rates,
         params'.timelock = params.timelock, params'.others = params.others
  PROVE  Favourable(next)' <=> Favourable(next)
BY DEF Favourable

\* What a step of the vault may do to a depositor.
Harms == \/ params'.rates > params.rates \/ params'.others # params.others
         \/ params'.timelock # params.timelock \/ Following' # Following

LEMMA NoticeSteps ==
  ASSUME NoticeInv, [NoticeNext]_noticeVars
  PROVE  NoticeInv' /\ (Harms => request = 0 \/ staged.stretched)
<1> DEFINE StagedType == [to : VaultParams \cup {NoTiming}, wait : Nat, stretched : BOOLEAN]
           after == Following.epoch
<1>0. /\ params \in VaultParams /\ params.timing \in Timing /\ params.timelock \in Nat /\ params.rates \in Nat
      /\ scheduled \in Timing \cup {NoTiming}
      /\ params.timing.epoch \in Nat /\ left \in 0 .. params.timing.epoch /\ left \in Nat /\ request \in 0 .. 2
      /\ staged \in StagedType /\ (staged.to = NoTiming => staged = Nothing)
      /\ Following \in Timing /\ after \in Nat
  BY TimingType DEF NoticeInv, Following
<1>00. staged # Nothing /\ ~Favourable(staged.to) /\ ~staged.stretched =>
            /\ request >= 1 => left <= staged.wait
            /\ request = 2 => left + after <= staged.wait
  BY DEF NoticeInv
<1>01. Nothing \in StagedType /\ Nothing.to = NoTiming /\ Nothing.stretched = FALSE
  BY DEF Nothing
<1>1. ASSUME NEW next \in VaultParams, Stage(next)
      PROVE  NoticeInv' /\ ~Harms
  <2>1. /\ staged = Nothing
        /\ staged' = [to |-> next, wait |-> Delay(next), stretched |-> Stretched]
        /\ request' = IF Late THEN 2 ELSE 1
        /\ UNCHANGED <<params, scheduled, left>>
    BY <1>1 DEF Stage
  <2>2. /\ Delay(next) \in Nat
        /\ ~Favourable(next) => left <= Delay(next)
        /\ ~Favourable(next) /\ Late /\ ~Stretched => left + after <= Delay(next)
    BY DelayCovers
  <2>3. Stretched \in BOOLEAN /\ Following' = Following
    BY <2>1 DEF Stretched, Following
  <2>4. staged' \in StagedType /\ staged'.to # NoTiming /\ staged'.to = next
        /\ staged'.wait = Delay(next) /\ staged'.stretched = Stretched
    BY <2>1, <2>2, <2>3, TimingType
  <2>5. Favourable(next)' <=> Favourable(next)
    BY <2>1, <2>3, FavourableKeeps
  <2>6. staged' # Nothing /\ ~Favourable(staged.to)' /\ ~staged'.stretched =>
           /\ left' <= staged'.wait
           /\ request' = 2 => left' + after' <= staged'.wait
    <3>1. Favourable(staged.to)' <=> Favourable(next)
      BY <2>4, <2>5 DEF Favourable
    <3> QED
      BY <2>1, <2>2, <2>3, <2>4, <3>1
  <2>7. request' \in 0 .. 2
    BY <2>1
  <2>8. NoticeInv'
    BY <1>0, <2>1, <2>4, <2>6, <2>7 DEF NoticeInv
  <2> QED
    BY <1>0, <2>1, <2>3, <2>8 DEF Harms
<1>2. ASSUME Apply
      PROVE  NoticeInv' /\ (Harms => request = 0 \/ staged.stretched)
  <2>1. /\ staged # Nothing /\ staged.wait = 0 /\ left > 0 /\ staged' = Nothing
        /\ params' = [staged.to EXCEPT !.timing = params.timing]
        /\ scheduled' = IF staged.to.timing = params.timing THEN NoTiming ELSE staged.to.timing
        /\ UNCHANGED <<left, request>>
    BY <1>2 DEF Apply
  <2>2. staged.to \in VaultParams /\ staged.to.timing \in Timing
    BY <1>0, <2>1, TimingType
  <2>3. /\ params' \in VaultParams /\ params'.timing = params.timing /\ params'.rates = staged.to.rates
        /\ params'.timelock = staged.to.timelock /\ params'.others = staged.to.others
    BY <1>0, <2>1, <2>2 DEF VaultParams
  <2>4. scheduled' \in Timing \cup {NoTiming} /\ Following' = staged.to.timing
    <3>1. CASE staged.to.timing = params.timing
      BY <2>1, <2>2, <2>3, <3>1 DEF Following
    <3>2. CASE staged.to.timing # params.timing
      <4>1. scheduled' = staged.to.timing /\ scheduled' # NoTiming
        BY <2>1, <2>2, <3>2, TimingType
      <4> QED
        BY <2>2, <4>1 DEF Following
    <3> QED
      BY <3>1, <3>2
  <2>5. NoticeInv'
    BY <1>0, <1>01, <2>1, <2>3, <2>4 DEF NoticeInv
  <2>6. ASSUME Favourable(staged.to) PROVE ~Harms
    BY <1>0, <2>2, <2>3, <2>4, <2>6, TimingType DEF Favourable, Harms
  <2>7. ASSUME ~Favourable(staged.to), ~staged.stretched PROVE request = 0
    BY <1>0, <1>00, <2>1, <2>7
  <2> QED
    BY <2>5, <2>6, <2>7
<1>3. ASSUME Close
      PROVE  NoticeInv' /\ ~Harms
  <2>1. /\ left = 0 /\ params' = [params EXCEPT !.timing = Following]
        /\ scheduled' = NoTiming /\ left' = after
        /\ request' = (IF request = 0 THEN 0 ELSE request - 1) /\ staged' = staged
    BY <1>3 DEF Close
  <2>2. /\ params' \in VaultParams /\ params'.timing = Following /\ params'.rates = params.rates
        /\ params'.timelock = params.timelock /\ params'.others = params.others
    BY <1>0, <2>1 DEF VaultParams
  <2>3. Following' = Following
    BY <2>1, <2>2 DEF Following
  <2>4. left' \in 0 .. params'.timing.epoch
    BY <1>0, <2>1, <2>2
  <2>5. request' \in 0 .. 2 /\ request' # 2 /\ (request' >= 1 => request = 2)
    BY <1>0, <2>1
  <2>6. Favourable(staged.to)' <=> Favourable(staged.to)
    BY <2>1, <2>2, <2>3 DEF Favourable
  <2>7. staged' # Nothing /\ ~Favourable(staged.to)' /\ ~staged'.stretched =>
           (request' >= 1 => left' <= staged'.wait)
    <3>1. staged.wait \in Nat
      BY <1>0
    <3> QED
      BY <1>0, <1>00, <2>1, <2>5, <2>6, <3>1
  <2>8. NoticeInv'
    BY <1>0, <2>1, <2>2, <2>4, <2>5, <2>7 DEF NoticeInv
  <2> QED
    BY <1>0, <2>2, <2>3, <2>8 DEF Harms
<1>4. ASSUME Second
      PROVE  NoticeInv' /\ ~Harms
  <2>1. /\ left > 0 /\ left' = left - 1
        /\ staged' = [staged EXCEPT !.wait = IF @ = 0 THEN 0 ELSE @ - 1]
        /\ UNCHANGED <<params, scheduled, request>>
    BY <1>4 DEF Second
  <2>2. PICK w \in Nat : w = staged.wait
    BY <1>0
  <2>3. /\ staged' \in StagedType /\ staged'.to = staged.to /\ staged'.stretched = staged.stretched
        /\ staged'.wait = IF w = 0 THEN 0 ELSE w - 1
    <3>1. (IF w = 0 THEN 0 ELSE w - 1) \in Nat
      OBVIOUS
    <3> QED
      BY <1>0, <2>1, <2>2, <3>1
  <2>4. left' \in 0 .. params'.timing.epoch
    BY <1>0, <2>1
  <2>5. staged = Nothing => staged' = Nothing
    <3>1. staged = Nothing => staged.wait = 0 /\ staged.stretched = FALSE /\ staged.to = NoTiming
      BY DEF Nothing
    <3>2. staged = Nothing => staged'.wait = 0 /\ staged'.stretched = FALSE /\ staged'.to = NoTiming
      BY <2>2, <2>3, <3>1
    <3> QED
      BY <2>3, <3>2 DEF Nothing
  <2>6. staged'.to = NoTiming => staged' = Nothing
    BY <1>0, <2>3, <2>5
  <2>7. Following' = Following
    BY <2>1 DEF Following
  <2>8. Favourable(staged.to)' <=> Favourable(staged.to)
    BY <2>1, <2>3, <2>7 DEF Favourable
  <2>9. staged' # Nothing /\ ~Favourable(staged.to)' /\ ~staged'.stretched =>
           /\ request' >= 1 => left' <= staged'.wait
           /\ request' = 2 => left' + after' <= staged'.wait
    <3> SUFFICES ASSUME staged' # Nothing, ~Favourable(staged.to)', ~staged'.stretched
                 PROVE  /\ request' >= 1 => left' <= staged'.wait
                        /\ request' = 2 => left' + after' <= staged'.wait
      OBVIOUS
    <3>1. /\ request >= 1 => left <= w
          /\ request = 2 => left + after <= w
      BY <1>00, <2>2, <2>3, <2>5, <2>8
    <3>2. after' = after /\ request' = request /\ left' = left - 1 /\ left > 0 /\ left \in Nat /\ after \in Nat
      BY <1>0, <2>1, <2>7
    <3> HIDE DEF after
    <3>3. request >= 1 => left - 1 <= staged'.wait
      BY <2>3, <3>1, <3>2
    <3>4. request = 2 => left - 1 + after <= staged'.wait
      BY <2>3, <3>1, <3>2
    <3> QED
      BY <3>2, <3>3, <3>4
  <2>10. NoticeInv'
    BY <1>0, <2>1, <2>3, <2>4, <2>6, <2>9 DEF NoticeInv
  <2> QED
    BY <1>0, <2>1, <2>7, <2>10 DEF Harms
<1>5. ASSUME UNCHANGED noticeVars
      PROVE  NoticeInv' /\ ~Harms
  <2>1. UNCHANGED <<params, scheduled, left, staged, request>>
    BY <1>5 DEF noticeVars
  <2>2. Following' = Following /\ (Favourable(staged.to)' <=> Favourable(staged.to))
    BY <2>1 DEF Following, Favourable
  <2> QED
    BY <1>0, <1>00, <2>1, <2>2 DEF NoticeInv, Harms
<1> QED
  BY <1>1, <1>2, <1>3, <1>4, <1>5 DEF NoticeNext

\* Whatever a depositor can lose by applies only after the close that prices a request to leave
\* made when it was staged, for every epoch length, cutoff and timelock; except where, at staging,
\* a longer timing with a shorter cutoff was scheduled.
THEOREM ExitInTime == NoticeSpec => ExitBeforeChange
<1>1. NoticeInv /\ [NoticeNext]_noticeVars => NoticeInv'
  BY NoticeSteps
<1>2. NoticeInv /\ [NoticeNext]_noticeVars =>
        [\/ params'.rates > params.rates \/ params'.others # params.others
         \/ params'.timelock # params.timelock \/ Following' # Following
         => request = 0 \/ staged.stretched]_noticeVars
  BY NoticeSteps DEF Harms
<1> QED
  BY <1>1, <1>2, NoticeStart, PTL DEF NoticeSpec, ExitBeforeChange
-----------------------------------------------------------------------------
(***************************************************************************)
(* The targets of a recovery                                               *)
(***************************************************************************)
LEMMA RecoveryStart == RecoveryInit => RecoveryInv
<1> SUFFICES ASSUME RecoveryInit PROVE RecoveryInv
  OBVIOUS
<1>1. NoRecovery \in Recovery /\ NoSidecar \in Sidecar
  BY DEF NoRecovery, NoSidecar, Recovery, Sidecar
<1>2. RecoveryTypeOK
  BY <1>1 DEF RecoveryInit, RecoveryTypeOK, Reader
<1>3. PastInv /\ UnwindInv
  BY DEF RecoveryInit, PastInv, UnwindInv, NoRecovery
<1>4. ReaderInv /\ TargetsAreOfTheRecovery
  BY DEF RecoveryInit, ReaderInv, TargetsAreOfTheRecovery, Reader
<1> QED
  BY <1>2, <1>3, <1>4 DEF RecoveryInv

\* A call relies on values the sidecar has had, and these are only ever more.
LEMMA ReaderKeeps ==
  ASSUME RecoveryInv, UNCHANGED reader, past \subseteq past'
  PROVE  ReaderInv' /\ TargetsAreOfTheRecovery'
BY DEF RecoveryInv, ReaderInv, TargetsAreOfTheRecovery

\* A new value of the sidecar that no old one can be taken for keeps them apart.
LEMMA PastGrows ==
  ASSUME PastInv, NEW v \in Sidecar, past' = past \cup {v}, past \subseteq Sidecar,
         starts \in Nat, starts' \in Nat, starts <= starts',
         v.startedAt <= starts' /\ v.number <= starts',
         v.mode # 0 => \A w \in past : w.mode # 0 => (SameRecovery(v, w) <=> v.number = w.number)
  PROVE  PastInv'
<1>1. \A w \in past' : w.startedAt <= starts' /\ w.number <= starts'
  BY DEF PastInv, Sidecar
<1>2. \A u, w \in past' : u.mode # 0 /\ w.mode # 0 => (SameRecovery(u, w) <=> u.number = w.number)
  BY DEF PastInv, SameRecovery
<1> QED
  BY <1>1, <1>2 DEF PastInv

LEMMA StartKeeps ==
  ASSUME RecoveryInv, NEW mode \in {1, 2}, NEW batch \in 0 .. MaxBatch, Start(mode, batch)
  PROVE  RecoveryInv'
<1>0. /\ RecoveryTypeOK /\ PastInv /\ UnwindInv /\ starts \in Nat /\ past \subseteq Sidecar
      /\ unwind \in Recovery /\ batch \in Nat /\ unwind.startedAt \in Nat
  BY RecoveryAssumption DEF RecoveryInv, RecoveryTypeOK, Recovery
<1>1. PICK at \in {starts + 1} \cup (IF unwind.mode = 1 THEN {unwind.startedAt} ELSE {}) :
        /\ unwind' = [mode |-> mode, batch |-> batch, startedAt |-> at, number |-> starts + 1]
        /\ IF expanded
             THEN Write([mode |-> mode, batch |-> batch, startedAt |-> at, number |-> starts + 1, cuts |-> 0])
             ELSE UNCHANGED <<sidecar, past>>
  BY DEF Start
<1>2. /\ starts' = starts + 1 /\ (unwind.mode = 0 \/ (unwind.mode = 1 /\ mode = 2))
      /\ UNCHANGED <<version, expanded, reader>>
  BY DEF Start
<1>3. at \in Nat /\ at <= starts + 1 /\ (at # starts + 1 => unwind.mode = 1 /\ mode = 2 /\ at = unwind.startedAt)
  BY <1>0, <1>1, <1>2 DEF UnwindInv
<1>4. unwind' \in Recovery /\ unwind'.mode = mode /\ unwind'.batch = batch /\ unwind'.startedAt = at
      /\ unwind'.number = starts + 1
  BY <1>0, <1>1, <1>3 DEF Recovery
<1>5. CASE ~expanded
  <2>1. past = {} /\ UNCHANGED <<sidecar, past>> /\ ~expanded'
    BY <1>0, <1>1, <1>2, <1>5 DEF UnwindInv
  <2>2. RecoveryTypeOK'
    BY <1>0, <1>2, <1>4, <2>1 DEF RecoveryTypeOK
  <2>3. PastInv'
    BY <2>1 DEF PastInv
  <2>4. UnwindInv'
    BY <1>0, <1>2, <1>3, <1>4, <2>1 DEF UnwindInv
  <2>5. ReaderInv' /\ TargetsAreOfTheRecovery'
    BY <1>2, <2>1, ReaderKeeps
  <2> QED
    BY <2>2, <2>3, <2>4, <2>5 DEF RecoveryInv
<1>6. CASE expanded
  <2> DEFINE v == [mode |-> mode, batch |-> batch, startedAt |-> at, number |-> starts + 1, cuts |-> 0]
  <2>1. sidecar' = v /\ past' = past \cup {v} /\ expanded'
    BY <1>1, <1>2, <1>6 DEF Write
  <2>2. v \in Sidecar /\ v.mode = mode /\ v.batch = batch /\ v.startedAt = at /\ v.number = starts + 1
    BY <1>0, <1>3 DEF Sidecar
  <2> HIDE DEF v
  <2>3. ASSUME NEW w \in past, w.mode # 0 PROVE SameRecovery(v, w) <=> v.number = w.number
    <3>1. w.startedAt <= starts /\ w.number <= starts /\ w.startedAt \in Nat /\ w.number \in Nat
      BY <1>0 DEF PastInv, Sidecar
    <3>2. v.number # w.number
      BY <1>0, <2>2, <3>1
    <3>3. CASE at = starts + 1
      BY <1>0, <2>2, <3>1, <3>2, <3>3 DEF SameRecovery
    <3>4. CASE at # starts + 1
      <4>1. w.mode = 2 => w.startedAt < at
        BY <1>0, <1>3, <3>4 DEF UnwindInv
      <4> QED
        BY <1>3, <2>2, <3>1, <3>2, <3>4, <4>1 DEF SameRecovery
    <3> QED
      BY <3>3, <3>4
  <2>4. PastInv'
    BY <1>0, <1>2, <1>3, <2>1, <2>2, <2>3, PastGrows
  <2>5. RecoveryTypeOK'
    BY <1>0, <1>2, <1>4, <2>1, <2>2 DEF RecoveryTypeOK
  <2>6. UnwindInv'
    <3>1. v \in past' /\ SameRecovery(v, unwind')
      BY <1>4, <2>1, <2>2 DEF SameRecovery
    <3>2. ASSUME mode = 1, NEW w \in past', w.mode = 2 PROVE w.startedAt < at
      <4>1. w \in past /\ at = starts + 1 /\ w.startedAt <= starts /\ w.startedAt \in Nat
        BY <1>0, <1>3, <2>1, <2>2, <3>2 DEF PastInv, Sidecar
      <4> QED
        BY <1>0, <4>1
    <3> QED
      BY <1>0, <1>2, <1>3, <1>4, <2>1, <2>2, <3>1, <3>2 DEF UnwindInv
  <2>7. ReaderInv' /\ TargetsAreOfTheRecovery'
    BY <1>2, <2>1, ReaderKeeps
  <2> QED
    BY <2>4, <2>5, <2>6, <2>7 DEF RecoveryInv
<1> QED
  BY <1>5, <1>6

LEMMA ReadKeeps == RecoveryInv /\ ReadTargets => RecoveryInv'
<1> SUFFICES ASSUME RecoveryInv, ReadTargets PROVE RecoveryInv'
  OBVIOUS
<1>0. RecoveryTypeOK /\ PastInv /\ UnwindInv /\ ReaderInv /\ past \subseteq Sidecar
  BY DEF RecoveryInv, RecoveryTypeOK
<1>1. UNCHANGED <<version, expanded, unwind, sidecar, past, starts>>
  BY DEF ReadTargets
<1>2. PastInv' /\ UnwindInv'
  BY <1>0, <1>1 DEF PastInv, UnwindInv
<1>3. ASSUME NEW targets \in past,
             reader' = [reader EXCEPT
               !.targets = targets,
               !.stage = IF reader.state.mode # 0 /\ ~SameRecovery(targets, reader.state)
                           THEN "changed" ELSE "returned"]
      PROVE  RecoveryInv'
  <2>1. /\ reader'.targets = targets /\ reader'.state = reader.state /\ reader'.compared = reader.compared
        /\ reader'.stage = (IF reader.state.mode # 0 /\ ~SameRecovery(targets, reader.state)
                              THEN "changed" ELSE "returned")
    BY <1>0, <1>3 DEF RecoveryTypeOK
  <2>2. RecoveryTypeOK'
    BY <1>0, <1>1, <1>3 DEF RecoveryTypeOK
  <2>3. ReaderInv'
    BY <1>0, <1>1, <2>1 DEF ReaderInv
  <2>4. ASSUME reader.compared
        PROVE  /\ reader'.stage = "returned" => targets.number = reader.state.number
               /\ reader'.stage = "changed" => targets.number # reader.state.number \/ targets.mode = 0
    <3>1. PICK v \in past : v.mode # 0 /\ SameRecovery(v, reader.state) /\ v.number = reader.state.number
      BY <1>0, <2>4 DEF ReaderInv
    <3>2. reader.state.mode # 0
      BY <3>1 DEF SameRecovery
    <3>3. SameRecovery(targets, reader.state) <=> SameRecovery(targets, v)
      BY <3>1 DEF SameRecovery
    <3>4. SameRecovery(targets, reader.state) => targets.mode # 0
      BY <3>2 DEF SameRecovery
    <3>5. targets.mode # 0 => (SameRecovery(targets, v) <=> targets.number = v.number)
      BY <1>0, <3>1 DEF PastInv
    <3> QED
      BY <2>1, <3>1, <3>2, <3>3, <3>4, <3>5
  <2>5. TargetsAreOfTheRecovery'
    BY <2>1, <2>4 DEF TargetsAreOfTheRecovery
  <2> QED
    BY <1>2, <2>2, <2>3, <2>5 DEF RecoveryInv
<1>4. CASE reader' = [reader EXCEPT !.stage = "missing"]
  <2>1. /\ reader'.stage = "missing" /\ reader'.targets = reader.targets /\ reader'.state = reader.state
        /\ reader'.compared = reader.compared
    BY <1>0, <1>4 DEF RecoveryTypeOK
  <2>2. RecoveryTypeOK'
    BY <1>0, <1>1, <1>4 DEF RecoveryTypeOK
  <2>3. ReaderInv' /\ TargetsAreOfTheRecovery'
    BY <1>0, <1>1, <2>1 DEF ReaderInv, TargetsAreOfTheRecovery
  <2> QED
    BY <1>2, <2>2, <2>3 DEF RecoveryInv
<1> QED
  BY <1>3, <1>4 DEF ReadTargets

LEMMA RecoverySteps == RecoveryInv /\ [RecoveryNext]_recoveryVars => RecoveryInv'
<1> SUFFICES ASSUME RecoveryInv, [RecoveryNext]_recoveryVars PROVE RecoveryInv'
  OBVIOUS
<1>0. /\ RecoveryTypeOK /\ PastInv /\ UnwindInv /\ ReaderInv /\ TargetsAreOfTheRecovery
      /\ starts \in Nat /\ past \subseteq Sidecar /\ sidecar \in Sidecar /\ unwind \in Recovery
  BY DEF RecoveryInv, RecoveryTypeOK
<1>1. NoRecovery \in Recovery /\ NoSidecar \in Sidecar
      /\ NoRecovery.mode = 0 /\ NoRecovery.startedAt = 0 /\ NoRecovery.number = 0
      /\ NoSidecar.mode = 0 /\ NoSidecar.startedAt = 0 /\ NoSidecar.number = 0
  BY DEF NoRecovery, NoSidecar, Recovery, Sidecar
<1>2. CASE Expand
  <2>1. /\ ~expanded /\ unwind.mode = 0 /\ expanded' = TRUE /\ sidecar' = NoSidecar
        /\ past' = past \cup {NoSidecar} /\ UNCHANGED <<version, unwind, starts, reader>>
    BY <1>2 DEF Expand, Write
  <2>2. PastInv'
    BY <1>0, <1>1, <2>1, PastGrows
  <2>3. RecoveryTypeOK'
    BY <1>0, <1>1, <2>1 DEF RecoveryTypeOK
  <2>4. UnwindInv'
    BY <1>0, <2>1 DEF UnwindInv
  <2> QED
    BY <2>1, <2>2, <2>3, <2>4, ReaderKeeps DEF RecoveryInv
<1>3. CASE Extend
  <2> DEFINE v == [sidecar EXCEPT !.cuts = @ + 1]
  <2>1. /\ expanded /\ unwind.mode = 1 /\ sidecar' = v /\ past' = past \cup {v}
        /\ UNCHANGED <<version, expanded, unwind, starts, reader>>
    BY <1>3 DEF Extend, Write
  <2>2. /\ v \in Sidecar /\ v.mode = sidecar.mode /\ v.batch = sidecar.batch
        /\ v.startedAt = sidecar.startedAt /\ v.number = sidecar.number
    BY <1>0 DEF Sidecar
  <2> HIDE DEF v
  <2>3. sidecar \in past /\ sidecar.mode = 1 /\ sidecar.number = unwind.number
    BY <1>0, <2>1 DEF UnwindInv
  <2>4. v.startedAt <= starts /\ v.number <= starts
    BY <1>0, <2>2, <2>3 DEF PastInv
  <2>5. ASSUME NEW w \in past, w.mode # 0 PROVE SameRecovery(v, w) <=> v.number = w.number
    BY <1>0, <2>2, <2>3, <2>5 DEF PastInv, SameRecovery
  <2>6. PastInv'
    BY <1>0, <2>1, <2>2, <2>4, <2>5, PastGrows
  <2>7. RecoveryTypeOK'
    BY <1>0, <2>1, <2>2 DEF RecoveryTypeOK
  <2>8. UnwindInv'
    BY <1>0, <2>1, <2>2, <2>3 DEF UnwindInv
  <2> QED
    BY <2>1, <2>6, <2>7, <2>8, ReaderKeeps DEF RecoveryInv
<1>4. CASE Finish
  <2>1. /\ unwind.mode # 0 /\ unwind' = NoRecovery /\ UNCHANGED <<version, expanded, starts, reader>>
        /\ \/ expanded /\ sidecar' = NoSidecar /\ past' = past \cup {NoSidecar}
           \/ UNCHANGED <<sidecar, past>>
    BY <1>4 DEF Finish, Write
  <2>2. PastInv'
    <3>1. CASE past' = past \cup {NoSidecar}
      BY <1>0, <1>1, <2>1, <3>1, PastGrows
    <3>2. CASE UNCHANGED past
      BY <1>0, <2>1, <3>2 DEF PastInv
    <3> QED
      BY <2>1, <3>1, <3>2
  <2>3. RecoveryTypeOK'
    BY <1>0, <1>1, <2>1 DEF RecoveryTypeOK
  <2>4. UnwindInv'
    BY <1>0, <1>1, <2>1 DEF UnwindInv
  <2> QED
    BY <2>1, <2>2, <2>3, <2>4, ReaderKeeps DEF RecoveryInv
<1>5. CASE ReadTargets
  BY <1>5, ReadKeeps
<1>6. ASSUME NEW mode \in {1, 2}, NEW batch \in 0 .. MaxBatch, Start(mode, batch) PROVE RecoveryInv'
  BY <1>6, StartKeeps
<1>7. ASSUME NEW client \in {3, 4}, FetchVault(client) PROVE RecoveryInv'
  <2> DEFINE sidecarIsRead == expanded /\ (client = 3 => unwind.mode # 0)
  <2>1. /\ reader' = [Reader EXCEPT
             !.state = unwind, !.compared = sidecarIsRead /\ unwind.mode # 0,
             !.stage = IF client # version THEN "unsupported"
                       ELSE IF sidecarIsRead THEN "fetched" ELSE "returned"]
        /\ UNCHANGED <<version, expanded, unwind, sidecar, past, starts>>
    BY <1>7 DEF FetchVault
  <2>2. /\ reader'.state = unwind /\ reader'.compared = (sidecarIsRead /\ unwind.mode # 0)
        /\ reader'.stage = (IF client # version THEN "unsupported"
                            ELSE IF sidecarIsRead THEN "fetched" ELSE "returned")
    BY <2>1 DEF Reader
  <2>3. (sidecarIsRead /\ unwind.mode # 0) \in BOOLEAN /\ expanded \in BOOLEAN
    BY <1>0 DEF RecoveryTypeOK
  <2>4. RecoveryTypeOK'
    <3>1. reader' \in [stage : {"idle", "fetched", "returned", "changed", "missing", "unsupported"},
                      state : Recovery, targets : Sidecar, compared : BOOLEAN]
      BY <1>0, <1>1, <2>1, <2>3 DEF Reader
    <3> QED
      BY <1>0, <2>1, <3>1 DEF RecoveryTypeOK
  <2>5. PastInv' /\ UnwindInv'
    BY <1>0, <2>1 DEF PastInv, UnwindInv
  <2>6. ReaderInv'
    BY <1>0, <2>1, <2>2, <2>3 DEF ReaderInv, UnwindInv
  <2>7. TargetsAreOfTheRecovery'
    BY <2>2, <2>3 DEF TargetsAreOfTheRecovery
  <2> QED
    BY <2>4, <2>5, <2>6, <2>7 DEF RecoveryInv
<1>8. CASE UNCHANGED recoveryVars
  <2>1. UNCHANGED <<version, expanded, unwind, sidecar, past, starts, reader>>
    BY <1>8 DEF recoveryVars
  <2>2. RecoveryTypeOK' /\ PastInv' /\ UnwindInv'
    BY <1>0, <2>1 DEF RecoveryTypeOK, PastInv, UnwindInv
  <2> QED
    BY <2>1, <2>2, ReaderKeeps DEF RecoveryInv
<1> QED
  BY <1>2, <1>3, <1>4, <1>5, <1>6, <1>7, <1>8 DEF RecoveryNext

\* Whatever recoveries end and begin between its two reads, fetchVault returns a vault with
\* the targets of the recovery it names, and refuses only those of another one.
THEOREM TargetsTruth == RecoverySpec => []TargetsAreOfTheRecovery
<1>1. RecoveryInv => TargetsAreOfTheRecovery
  BY DEF RecoveryInv
<1> QED
  BY <1>1, RecoveryStart, RecoverySteps, PTL DEF RecoverySpec
-----------------------------------------------------------------------------
(***************************************************************************)
(* The credit of a fee deposit                                             *)
(***************************************************************************)
\* A call that was begun.
Begun == [stage : Stages, account : FeeAccounts, lamports : Amounts, address : Addresses \cup {NoAddress}]

LEMMA NumberType == ASSUME NEW n \in Nat PROVE Number(n) \in Nat
BY DEF Number

LEMMA CallType ==
  ASSUME NEW call \in Call
  PROVE  call.stage # "idle" => call \in Begun
BY DEF Call, Untouched, Begun

\* Changing one call, and none that a report is about.
LEMMA CallChanges ==
  ASSUME FeeInv, NEW c \in Calls, NEW new \in Begun, calls' = [calls EXCEPT ![c] = new],
         UNCHANGED <<current, chain, reports, credits>>,
         new.stage \in {"sending", "reporting", "done"} => new.address # NoAddress,
         chain[c] \in {"processed", "confirmed"} => new.stage # "asking" /\ new.address # NoAddress,
         new.stage \in {"reporting", "done"} => chain[c] = "confirmed",
         new.stage = "done" => \E s \in credits : s.source = c,
         \/ calls[c].stage \in {"idle", "asking", "sending"}
         \/ /\ calls[c].stage = "reporting" /\ new.stage \in {"done", "failed"}
            /\ new.account = calls[c].account /\ new.lamports = calls[c].lamports
            /\ new.address = calls[c].address
  PROVE  FeeInv'
<1>1. calls \in [Calls -> Call] /\ chain \in [Calls -> {"unknown", "processed", "confirmed", "gone"}]
  BY DEF FeeInv, FeeTypeOK
<1>2. calls'[c] = new /\ \A d \in Calls \ {c} : calls'[d] = calls[d]
  BY <1>1
<1>3. FeeTypeOK'
  BY <1>1 DEF FeeInv, FeeTypeOK, Call, Begun
<1>4. new.stage # "idle"
  BY DEF Begun, Stages
<1>5. ASSUME NEW r \in reports
      PROVE  /\ chain[r.source] = "confirmed" /\ r = ReportOf(r.source)'
             /\ calls'[r.source].stage \in {"reporting", "done", "failed"}
  <2>1. /\ chain[r.source] = "confirmed" /\ r = ReportOf(r.source) /\ r.source \in Calls
        /\ calls[r.source].stage \in {"reporting", "done", "failed"}
    BY DEF FeeInv, FeeTypeOK, Report
  <2>2. CASE r.source = c
    BY <1>2, <2>1, <2>2 DEF ReportOf
  <2>3. CASE r.source # c
    BY <1>2, <2>1, <2>3 DEF ReportOf
  <2> QED
    BY <2>2, <2>3
<1>6. /\ \A d \in Calls : chain'[d] # "unknown" => calls'[d].stage # "idle"
      /\ \A d \in Calls : calls'[d].stage \in {"sending", "reporting", "done"} => calls'[d].address # NoAddress
      /\ \A d \in Calls : chain'[d] \in {"processed", "confirmed"} =>
           calls'[d].stage # "asking" /\ calls'[d].address # NoAddress
      /\ \A d \in Calls : calls'[d].stage \in {"reporting", "done"} => chain'[d] = "confirmed"
      /\ \A d \in Calls : calls'[d].stage = "done" => \E s \in credits' : s.source = d
  BY <1>2, <1>4 DEF FeeInv
<1> QED
  BY <1>3, <1>5, <1>6 DEF FeeInv

\* A transaction that moves is one that was sent and has not been confirmed.
LEMMA ChainMoves ==
  ASSUME FeeInv, NEW c \in Calls, NEW state \in {"processed", "confirmed", "gone"},
         chain' = [chain EXCEPT ![c] = state], UNCHANGED <<current, calls, reports, credits>>,
         Sent(c), chain[c] # "confirmed"
  PROVE  FeeInv'
<1>1. chain \in [Calls -> {"unknown", "processed", "confirmed", "gone"}]
  BY DEF FeeInv, FeeTypeOK
<1>2. chain'[c] = state /\ \A d \in Calls \ {c} : chain'[d] = chain[d]
  BY <1>1
<1>3. FeeTypeOK'
  BY <1>1 DEF FeeInv, FeeTypeOK
<1>4. \A r \in reports : r.source \in Calls /\ r.source # c
  BY DEF FeeInv, FeeTypeOK, Report
<1>5. \A r \in reports : ReportOf(r.source)' = ReportOf(r.source)
  BY DEF ReportOf
<1> QED
  BY <1>2, <1>3, <1>4, <1>5 DEF FeeInv, Sent

\* A report that is sent is that of a confirmed transfer.
LEMMA ReportsGrow ==
  ASSUME FeeInv, NEW c \in Calls, chain[c] = "confirmed",
         calls[c].stage \in {"reporting", "done", "failed"},
         reports' = reports \cup {ReportOf(c)}, UNCHANGED <<current, calls, chain, credits>>
  PROVE  FeeInv'
<1>1. calls[c] \in Begun /\ calls[c].address # NoAddress
  BY CallType DEF FeeInv, FeeTypeOK
<1>2. ReportOf(c) \in Report /\ ReportOf(c).source = c
  <2>1. calls[c].lamports \in Nat /\ calls[c].account \in FeeAccounts /\ calls[c].address \in Addresses
    BY <1>1, FeeCreditAssumption DEF Begun
  <2> QED
    BY <2>1, NumberType DEF ReportOf, Report, transferInstructionIndex
<1>3. FeeTypeOK'
  BY <1>2 DEF FeeInv, FeeTypeOK
<1>4. \A d \in Calls : ReportOf(d)' = ReportOf(d)
  BY DEF ReportOf
<1>5. \A r \in reports' : /\ chain'[r.source] = "confirmed" /\ r = ReportOf(r.source)'
                         /\ calls'[r.source].stage \in {"reporting", "done", "failed"}
  BY <1>2, <1>4 DEF FeeInv, FeeTypeOK, Report
<1> QED
  BY <1>3, <1>5 DEF FeeInv

LEMMA FeeStart == FeeInit => FeeInv
BY DEF FeeInit, FeeInv, FeeTypeOK, Call, Untouched

LEMMA FeeSteps == FeeInv /\ [FeeNext]_feeVars => FeeInv'
<1> SUFFICES ASSUME FeeInv, [FeeNext]_feeVars PROVE FeeInv'
  OBVIOUS
<1>0. /\ calls \in [Calls -> Call] /\ current \in Addresses /\ credits \subseteq reports
      /\ \A c \in Calls : calls[c].stage # "idle" => calls[c] \in Begun
      /\ \A c \in Calls : chain[c] # "unknown" => calls[c].stage # "idle"
  BY CallType DEF FeeInv, FeeTypeOK
<1>1. ASSUME NEW c \in Calls, Deposit(c) PROVE FeeInv'
  <2>1. PICK account \in FeeAccounts, n \in Amounts, given \in Addresses \cup {NoAddress} :
          calls' = [calls EXCEPT ![c] =
            [stage |-> CASE given = NoAddress -> "asking"
                         [] given # NoAddress /\ Number(n) <= 0 -> "failed"
                         [] OTHER -> "sending",
             account |-> account, lamports |-> n, address |-> given]]
    BY <1>1 DEF Deposit
  <2> DEFINE s == CASE given = NoAddress -> "asking"
                    [] given # NoAddress /\ Number(n) <= 0 -> "failed"
                    [] OTHER -> "sending"
             new == [stage |-> s, account |-> account, lamports |-> n, address |-> given]
  <2>2. s \in {"asking", "failed", "sending"} /\ (s = "sending" => given # NoAddress)
    OBVIOUS
  <2>3. calls' = [calls EXCEPT ![c] = new]
    BY <2>1
  <2> HIDE DEF s
  <2>4. new \in Begun /\ new.stage = s /\ new.address = given
    BY <2>2 DEF Begun, Stages
  <2>5. calls[c].stage = "idle" /\ chain[c] = "unknown" /\ UNCHANGED <<current, chain, reports, credits>>
    BY <1>0, <1>1 DEF Deposit
  <2> HIDE DEF new
  <2> QED
    BY <2>2, <2>3, <2>4, <2>5, CallChanges
<1>2. ASSUME NEW c \in Calls, Status(c) PROVE FeeInv'
  <2> DEFINE s == IF Number(calls[c].lamports) <= 0 THEN "failed" ELSE "sending"
             new == [calls[c] EXCEPT !.address = current, !.stage = s]
  <2>1. /\ calls[c].stage = "asking" /\ calls' = [calls EXCEPT ![c] = new]
        /\ UNCHANGED <<current, chain, reports, credits>>
    BY <1>0, <1>2 DEF Status
  <2>2. s \in {"failed", "sending"}
    OBVIOUS
  <2> HIDE DEF s
  <2>3. new \in Begun /\ new.stage = s /\ new.address = current /\ current # NoAddress
    BY <1>0, <2>1, <2>2, FeeCreditAssumption DEF Begun, Stages
  <2>4. chain[c] \notin {"processed", "confirmed"}
    BY <2>1 DEF FeeInv
  <2> HIDE DEF new
  <2> QED
    BY <2>1, <2>2, <2>3, <2>4, CallChanges
<1>3. ASSUME NEW c \in Calls, GivesUp(c) PROVE FeeInv'
  <2> DEFINE new == [calls[c] EXCEPT !.stage = "failed"]
  <2>1. /\ calls[c].stage \in {"asking", "sending"} /\ calls' = [calls EXCEPT ![c] = new]
        /\ UNCHANGED <<current, chain, reports, credits>>
    BY <1>0, <1>3 DEF GivesUp
  <2>2. new \in Begun /\ new.stage = "failed" /\ new.address = calls[c].address
    BY <1>0, <2>1 DEF Begun, Stages
  <2>3. chain[c] \in {"processed", "confirmed"} => calls[c].address # NoAddress
    BY DEF FeeInv
  <2> HIDE DEF new
  <2> QED
    BY <2>1, <2>2, <2>3, CallChanges
<1>4. ASSUME NEW c \in Calls, Land(c) PROVE FeeInv'
  BY <1>4, ChainMoves DEF Land
<1>5. ASSUME NEW c \in Calls, Vanish(c) PROVE FeeInv'
  BY <1>5, ChainMoves DEF Vanish
<1>6. ASSUME NEW c \in Calls, Confirmed(c) PROVE FeeInv'
  <2> DEFINE new == [calls[c] EXCEPT !.stage = "reporting"]
  <2>1. /\ calls[c].stage = "sending" /\ chain[c] = "confirmed" /\ calls' = [calls EXCEPT ![c] = new]
        /\ reports' = reports \cup {ReportOf(c)} /\ UNCHANGED <<current, chain, credits>>
    BY <1>0, <1>6 DEF Confirmed, Enough
  <2>2. calls[c] \in Begun /\ calls[c].address # NoAddress
    BY <1>0, <2>1 DEF FeeInv
  <2>3. new \in Begun /\ new.stage = "reporting" /\ new.account = calls[c].account
        /\ new.lamports = calls[c].lamports /\ new.address = calls[c].address
    BY <2>2 DEF Begun, Stages
  <2> HIDE DEF new
  <2>4. calls'[c] = new /\ \A d \in Calls \ {c} : calls'[d] = calls[d]
    BY <1>0, <2>1
  <2>5. ReportOf(c) \in Report /\ ReportOf(c).source = c
    <3>1. calls[c].lamports \in Nat /\ calls[c].account \in FeeAccounts /\ calls[c].address \in Addresses
      BY <2>2, FeeCreditAssumption DEF Begun
    <3> QED
      BY <3>1, NumberType DEF ReportOf, Report, transferInstructionIndex
  <2>6. \A d \in Calls : ReportOf(d)' = ReportOf(d)
    BY <2>3, <2>4 DEF ReportOf
  <2>7. FeeTypeOK'
    BY <1>0, <2>1, <2>3, <2>5 DEF FeeInv, FeeTypeOK, Call, Begun
  <2>8. \A r \in reports' : /\ chain'[r.source] = "confirmed" /\ r = ReportOf(r.source)'
                           /\ calls'[r.source].stage \in {"reporting", "done", "failed"}
    <3>1. \A r \in reports : r.source \in Calls /\ r.source # c
      BY <2>1 DEF FeeInv, FeeTypeOK, Report
    <3> QED
      BY <2>1, <2>3, <2>4, <2>5, <2>6, <3>1 DEF FeeInv
  <2> QED
    BY <2>1, <2>2, <2>3, <2>4, <2>7, <2>8 DEF FeeInv
<1>7. ASSUME NEW c \in Calls, ByHand(c) PROVE FeeInv'
  <2>1. /\ calls[c].stage = "failed" /\ chain[c] = "confirmed"
        /\ UNCHANGED <<current, calls, chain, credits>>
        /\ reports' = reports \cup {[source |-> c, index |-> transferInstructionIndex,
             account |-> Instructions(calls[c])[1].account,
             lamports |-> Instructions(calls[c])[transferInstructionIndex + 1].lamports,
             address |-> Instructions(calls[c])[transferInstructionIndex + 1].address]}
    BY <1>7 DEF ByHand
  <2>2. /\ Instructions(calls[c])[1].account = calls[c].account
        /\ Instructions(calls[c])[transferInstructionIndex + 1].lamports = Number(calls[c].lamports)
        /\ Instructions(calls[c])[transferInstructionIndex + 1].address = calls[c].address
    BY DEF Instructions, transferInstructionIndex
  <2>3. reports' = reports \cup {ReportOf(c)}
    BY <2>1, <2>2 DEF ReportOf
  <2> QED
    BY <2>1, <2>3, ReportsGrow
<1>8. ASSUME NEW r \in reports, Credit(r) PROVE FeeInv'
  <2>1. credits' = credits \cup {r} /\ UNCHANGED <<current, calls, chain, reports>>
    BY <1>8 DEF Credit
  <2>2. \A d \in Calls : ReportOf(d)' = ReportOf(d)
    BY <2>1 DEF ReportOf
  <2>3. \A s \in reports : s.source \in Calls
    BY DEF FeeInv, FeeTypeOK, Report
  <2>4. FeeTypeOK'
    BY <2>1 DEF FeeInv, FeeTypeOK
  <2> QED
    BY <2>1, <2>2, <2>3, <2>4 DEF FeeInv
<1>9. ASSUME NEW c \in Calls, NEW status \in {"ok", "rateLimited", "error", "lost"}, Reply(c, status)
      PROVE  FeeInv'
  <2> DEFINE s == IF status = "ok" THEN "done" ELSE "failed"
             new == [calls[c] EXCEPT !.stage = s]
  <2>1. /\ calls[c].stage = "reporting" /\ calls' = [calls EXCEPT ![c] = new]
        /\ UNCHANGED <<current, chain, reports, credits>>
        /\ status = "ok" => \E t \in credits : t.source = c
    BY <1>0, <1>9 DEF Reply, Accepts
  <2>2. /\ new \in Begun /\ new.stage = s /\ new.account = calls[c].account
        /\ new.lamports = calls[c].lamports /\ new.address = calls[c].address
    BY <1>0, <2>1 DEF Begun, Stages
  <2>3. calls[c].address # NoAddress /\ chain[c] = "confirmed"
    BY <2>1 DEF FeeInv
  <2> HIDE DEF new
  <2> QED
    BY <2>1, <2>2, <2>3, CallChanges
<1>10. CASE Rotate
  <2>1. current' \in Addresses /\ UNCHANGED <<calls, chain, reports, credits>>
    BY <1>10 DEF Rotate
  <2>2. \A d \in Calls : ReportOf(d)' = ReportOf(d)
    BY <2>1 DEF ReportOf
  <2>3. \A s \in reports : s.source \in Calls
    BY DEF FeeInv, FeeTypeOK, Report
  <2>4. FeeTypeOK'
    BY <2>1 DEF FeeInv, FeeTypeOK
  <2> QED
    BY <2>1, <2>2, <2>3, <2>4 DEF FeeInv
<1>11. CASE UNCHANGED feeVars
  <2>1. UNCHANGED <<current, calls, chain, reports, credits>>
    BY <1>11 DEF feeVars
  <2>2. \A d \in Calls : ReportOf(d)' = ReportOf(d)
    BY <2>1 DEF ReportOf
  <2>3. \A s \in reports : s.source \in Calls
    BY DEF FeeInv, FeeTypeOK, Report
  <2>4. FeeTypeOK'
    BY <2>1 DEF FeeInv, FeeTypeOK
  <2> QED
    BY <2>1, <2>2, <2>3, <2>4 DEF FeeInv
<1> QED
  BY <1>1, <1>2, <1>3, <1>4, <1>5, <1>6, <1>7, <1>8, <1>9, <1>10, <1>11 DEF FeeNext

\* Every credit is for a confirmed transfer of what it says, and none is given twice,
\* whatever is retried, repeated by hand or delivered again.
THEOREM CreditTruth == FeeSpec => []CreditIsPaid
<1>1. FeeInv => CreditIsPaid
  <2> SUFFICES ASSUME FeeInv PROVE CreditIsPaid
    OBVIOUS
  <2>1. \A r \in credits : chain[r.source] = "confirmed" /\ r = ReportOf(r.source)
    BY DEF FeeInv
  <2>2. ASSUME NEW r \in credits
        PROVE  /\ Instructions(calls[r.source])[1] = [kind |-> "memo", account |-> r.account]
               /\ Instructions(calls[r.source])[r.index + 1] =
                    [kind |-> "transfer", lamports |-> r.lamports, address |-> r.address]
    BY <2>1 DEF ReportOf, Instructions, transferInstructionIndex
  <2> QED
    BY <2>1, <2>2 DEF CreditIsPaid
<1> QED
  BY <1>1, FeeStart, FeeSteps, PTL DEF FeeSpec

\* A call that returns has been credited for exactly what it moved.
THEOREM ReturnTruth == FeeSpec => []ReturnIsCredit
<1>1. FeeInv => ReturnIsCredit
  BY DEF FeeInv, FeeTypeOK, ReturnIsCredit
<1> QED
  BY <1>1, FeeStart, FeeSteps, PTL DEF FeeSpec
-----------------------------------------------------------------------------
(***************************************************************************)
(* The replay of a submission                                              *)
(***************************************************************************)
\* What every signed intent is: one call's, under the number and the expiry of its request.
IntentInv(i, calledSoFar, now) ==
  /\ i.request \in Params /\ i.replay = Replay(i.request, i.call)
  /\ i.call \in 1 .. calledSoFar /\ i.sent \in Nat /\ i.sent <= now
  /\ i.request.path = "direct" /\ i.request.expiresAtSlot = Default =>
       i.expires \in Nat \ {0} /\ i.expires <= i.sent + Lifetime

\* What may be executed, and that two executions under one number are further apart than the
\* replay cache is long.
Numbers == Ids \cup {Draw[call] : call \in 1 .. MaxCalls}
Intents == [request : Params, replay : Numbers, call : Nat, sent : Nat, expires : Nat]
ExecutedInv ==
  /\ landed \in Seq([intent : Intents, at : Nat])
  /\ \A k \in 1 .. Len(landed) : /\ landed[k].intent \in posted
                                 /\ landed[k].intent.expires = 0 \/ landed[k].at <= landed[k].intent.expires
  /\ \A j, k \in 1 .. Len(landed) :
       j < k /\ landed[j].intent.request.path = landed[k].intent.request.path
             /\ landed[j].intent.replay = landed[k].intent.replay => k - j > Window

SubmitInv ==
  /\ slot \in Nat /\ asked \in 0 .. MaxCalls
  /\ posted \subseteq Intents
  /\ \A i \in posted : IntentInv(i, asked, slot)
  /\ \A i, j \in posted : i.call = j.call => i = j
  /\ ExecutedInv

LEMMA SubmitStart == SubmitInit => SubmitInv
BY SubmissionAssumption DEF SubmitInit, SubmitInv, ExecutedInv

\* A helper's number is one that a caller picked, or one that was drawn.
LEMMA ReplayIsNumber ==
  ASSUME NEW r \in Params, NEW call \in 1 .. MaxCalls PROVE Replay(r, call) \in Numbers
<1>1. r.replay \in Ids \cup {Default} /\ r.clientOrderId \in Ids \cup {Default}
  BY DEF Params
<1>2. Draw[call] \in Numbers /\ Ids \subseteq Numbers
  BY DEF Numbers
<1> QED
  BY <1>1, <1>2 DEF Replay

LEMMA SubmitSteps == SubmitInv /\ [SubmitNext]_submitVars => SubmitInv'
<1> SUFFICES ASSUME SubmitInv, [SubmitNext]_submitVars PROVE SubmitInv'
  OBVIOUS
<1>0. /\ slot \in Nat /\ asked \in 0 .. MaxCalls /\ Lifetime \in Nat \ {0} /\ MaxCalls \in Nat
      /\ Window \in Nat /\ MaxSlot \in Nat /\ posted \subseteq Intents
      /\ \A i \in posted : IntentInv(i, asked, slot)
      /\ \A i, j \in posted : i.call = j.call => i = j
      /\ ExecutedInv
  BY SubmissionAssumption DEF SubmitInv
<1>1. ASSUME NEW r \in Params, SubmitCall(r) PROVE SubmitInv'
  <2>1. asked' = asked + 1 /\ asked < MaxCalls /\ UNCHANGED <<slot, pools, landed>>
    BY <1>1 DEF SubmitCall
  <2>2. asked' \in 1 .. MaxCalls /\ \A i \in posted : IntentInv(i, asked', slot')
    BY <1>0, <2>1 DEF IntentInv
  <2>3. CASE UNCHANGED posted
    BY <1>0, <2>1, <2>2, <2>3 DEF SubmitInv, ExecutedInv
  <2>4. ASSUME NEW expires \in Expiries(r),
               posted' = posted \cup {[request |-> r, replay |-> Replay(r, asked'), call |-> asked',
                                      sent |-> slot, expires |-> expires]}
        PROVE  SubmitInv'
    <3> DEFINE new == [request |-> r, replay |-> Replay(r, asked'), call |-> asked',
                       sent |-> slot, expires |-> expires]
    <3>1. /\ new.request = r /\ new.replay = Replay(r, asked') /\ new.call = asked'
          /\ new.sent = slot /\ new.expires = expires /\ posted' = posted \cup {new}
      BY <2>4
    <3>2. r.path = "direct" /\ r.expiresAtSlot = Default => expires \in Nat \ {0} /\ expires <= slot + Lifetime
      BY <1>0, <2>4 DEF Expiries
    <3>3. expires \in Nat
      <4>1. r.expiresAtSlot \in {Default, 0, MaxSlot}
        BY DEF Params
      <4> QED
        BY <1>0, <2>4, <4>1 DEF Expiries
    <3>4. new \in Intents
      <4>1. Replay(r, asked') \in Numbers
        BY <2>2, ReplayIsNumber
      <4>2. asked' \in Nat
        BY <2>2
      <4> QED
        BY <1>0, <3>3, <4>1, <4>2 DEF Intents
    <3> HIDE DEF new
    <3>5. IntentInv(new, asked', slot')
      BY <1>0, <2>1, <2>2, <3>1, <3>2 DEF IntentInv
    <3>6. \A i \in posted : i.call # new.call
      BY <1>0, <2>1, <3>1 DEF IntentInv
    <3>7. ExecutedInv'
      BY <1>0, <2>1, <3>1 DEF ExecutedInv
    <3> QED
      BY <1>0, <2>1, <2>2, <3>1, <3>4, <3>5, <3>6, <3>7 DEF SubmitInv
  <2> QED
    BY <1>1, <2>3, <2>4 DEF SubmitCall
<1>2. ASSUME NEW i \in posted, Execute(i) PROVE SubmitInv'
  <2> DEFINE new == [intent |-> i, at |-> slot]
             n == Len(landed)
  <2>1. /\ landed' = Append(landed, new) /\ UNCHANGED <<slot, pools, asked, posted>>
        /\ i.expires = 0 \/ slot <= i.expires
        /\ ~Remembered(i)
    BY <1>2 DEF Execute
  <2>2. new.intent = i /\ new.at = slot /\ new \in [intent : Intents, at : Nat]
    BY <1>0
  <2> HIDE DEF new
  <2>3. /\ landed \in Seq([intent : Intents, at : Nat]) /\ n \in Nat
        /\ landed' \in Seq([intent : Intents, at : Nat]) /\ Len(landed') = n + 1
        /\ landed'[n + 1] = new /\ \A k \in 1 .. n : landed'[k] = landed[k]
    BY <1>0, <2>1, <2>2 DEF ExecutedInv
  <2>4. \A k \in 1 .. Len(landed') :
          /\ landed'[k].intent \in posted'
          /\ landed'[k].intent.expires = 0 \/ landed'[k].at <= landed'[k].intent.expires
    <3> SUFFICES ASSUME NEW k \in 1 .. n + 1
                 PROVE  /\ landed'[k].intent \in posted'
                        /\ landed'[k].intent.expires = 0 \/ landed'[k].at <= landed'[k].intent.expires
      BY <2>3
    <3>1. CASE k = n + 1
      BY <2>1, <2>2, <2>3, <3>1
    <3>2. CASE k \in 1 .. n
      BY <1>0, <2>1, <2>3, <3>2 DEF ExecutedInv
    <3> QED
      BY <2>3, <3>1, <3>2
  <2>5. \A k \in 1 .. n : landed[k].intent.request.path = i.request.path /\ landed[k].intent.replay = i.replay
                            => n + 1 - k > Window
    <3> SUFFICES ASSUME NEW k \in 1 .. n, landed[k].intent.request.path = i.request.path,
                        landed[k].intent.replay = i.replay
                 PROVE  n + 1 - k > Window
      OBVIOUS
    <3>1. k \in DOMAIN landed
      BY <2>3
    <3>2. ~(k + Window > n)
      BY <2>1, <3>1 DEF Remembered
    <3> QED
      BY <1>0, <2>3, <3>2
  <2>6. ASSUME NEW j \in 1 .. n + 1, NEW k \in 1 .. n + 1, j < k,
               landed'[j].intent.request.path = landed'[k].intent.request.path,
               landed'[j].intent.replay = landed'[k].intent.replay
        PROVE  k - j > Window
    <3>1. j \in 1 .. n
      BY <2>3, <2>6
    <3>2. CASE k = n + 1
      <4>1. landed'[j] = landed[j] /\ landed'[k].intent = i
        BY <2>2, <2>3, <3>1, <3>2
      <4> QED
        BY <2>5, <2>6, <3>1, <3>2, <4>1
    <3>3. CASE k \in 1 .. n
      BY <1>0, <2>3, <2>6, <3>1, <3>3 DEF ExecutedInv
    <3> QED
      BY <2>3, <3>2, <3>3
  <2>7. ExecutedInv'
    BY <2>3, <2>4, <2>6 DEF ExecutedInv
  <2>8. \A j \in posted : IntentInv(j, asked', slot')
    BY <1>0, <2>1 DEF IntentInv
  <2> QED
    BY <1>0, <2>1, <2>7, <2>8 DEF SubmitInv
<1>3. CASE Slot
  <2>1. slot' = slot + 1 /\ UNCHANGED <<pools, asked, posted, landed>>
    BY <1>3 DEF Slot
  <2>2. \A j \in posted : IntentInv(j, asked', slot')
    BY <1>0, <2>1 DEF IntentInv
  <2>3. ExecutedInv'
    BY <1>0, <2>1 DEF ExecutedInv
  <2> QED
    BY <1>0, <2>1, <2>2, <2>3 DEF SubmitInv
<1>4. CASE UNCHANGED submitVars
  <2>1. UNCHANGED <<slot, pools, asked, posted, landed>>
    BY <1>4 DEF submitVars
  <2>2. \A j \in posted : IntentInv(j, asked', slot')
    BY <1>0, <2>1 DEF IntentInv
  <2> QED
    BY <1>0, <2>1, <2>2 DEF SubmitInv, ExecutedInv
<1> QED
  BY <1>1, <1>2, <1>3, <1>4 DEF SubmitNext

\* A call that fixes its number does not execute beside another one like it that the replay
\* cache still holds.
THEOREM OnceTruth == SubmitSpec => []ExecutedOnce
<1>1. SubmitInv => ExecutedOnce
  <2> SUFFICES ASSUME SubmitInv, NEW j \in DOMAIN landed, NEW k \in DOMAIN landed, j < k,
                      Repeats(landed[j].intent.request, landed[k].intent.request),
                      Fixed(landed[j].intent.request)
               PROVE  k - j > Window
    BY DEF ExecutedOnce
  <2> DEFINE e == landed[j].intent
             f == landed[k].intent
  <2>1. ExecutedInv /\ j \in 1 .. Len(landed) /\ k \in 1 .. Len(landed)
    <3>1. ExecutedInv /\ landed \in Seq([intent : Intents, at : Nat])
      BY DEF SubmitInv, ExecutedInv
    <3> QED
      BY <3>1
  <2>2. e \in posted /\ f \in posted
    BY <2>1 DEF ExecutedInv
  <2>3. e.replay = Replay(e.request, e.call) /\ f.replay = Replay(f.request, f.call)
    BY <2>2 DEF SubmitInv, IntentInv
  <2>4. e.request.path = f.request.path /\ e.replay = f.replay
    BY <2>3 DEF Fixed, Repeats, Replay
  <2> QED
    BY <2>1, <2>4 DEF ExecutedInv
<1> QED
  BY <1>1, SubmitStart, SubmitSteps, PTL DEF SubmitSpec

\* Where no caller gave the number, what is dropped as a replay is a repetition, never another
\* operation or another order.
THEOREM RepeatTruth == SubmitSpec => []ReplayIsRepeat
<1>1. SubmitInv => ReplayIsRepeat
  <2> SUFFICES ASSUME SubmitInv, NEW i \in posted, NEW j \in posted, i.replay = j.replay,
                      i.request.replay = Default, j.request.replay = Default
               PROVE  Repeats(i.request, j.request)
    BY DEF ReplayIsRepeat
  <2> DEFINE ordered(k) == k.request.path = "relayer" /\ k.request.op = "place" /\ k.request.clientOrderId # Default
  <2>1. ASSUME NEW k \in posted, k.request.replay = Default
        PROVE  /\ ordered(k) => k.replay = k.request.clientOrderId /\ k.replay \in Ids
               /\ ~ordered(k) => k.replay = Draw[k.call] /\ k.replay \notin Ids
               /\ k.call \in 1 .. MaxCalls
    <3>1. /\ k.request \in Params /\ k.replay = Replay(k.request, k.call)
          /\ k.call \in 1 .. asked /\ asked \in 0 .. MaxCalls /\ MaxCalls \in Nat
      BY SubmissionAssumption DEF SubmitInv, IntentInv
    <3>2. k.call \in 1 .. MaxCalls /\ Draw[k.call] \notin Ids
      BY <3>1, SubmissionAssumption
    <3>3. k.request.clientOrderId \in Ids \cup {Default}
      BY <3>1 DEF Params
    <3> QED
      BY <2>1, <3>1, <3>2, <3>3 DEF Replay
  <2>2. ordered(i) <=> ordered(j)
    BY <2>1
  <2>3. CASE ordered(i)
    BY <2>1, <2>2, <2>3 DEF Repeats
  <2>4. CASE ~ordered(i)
    <3>1. i.call = j.call
      BY <2>1, <2>2, <2>4, SubmissionAssumption
    <3> QED
      BY <3>1 DEF SubmitInv, Repeats
  <2> QED
    BY <2>3, <2>4
<1> QED
  BY <1>1, SubmitStart, SubmitSteps, PTL DEF SubmitSpec

\* A direct call without an expiry of its own is over Lifetime slots after it was made.
THEOREM DirectTruth == SubmitSpec => []DirectEnds
<1>1. SubmitInv => DirectEnds
  <2> SUFFICES ASSUME SubmitInv, NEW k \in DOMAIN landed, landed[k].intent.request.path = "direct",
                      landed[k].intent.request.expiresAtSlot = Default
               PROVE  landed[k].at <= landed[k].intent.sent + Lifetime
    BY DEF DirectEnds
  <2> DEFINE i == landed[k].intent
  <2>1. i \in posted /\ (i.expires = 0 \/ landed[k].at <= i.expires) /\ landed[k].at \in Nat
    <3>1. ExecutedInv /\ landed \in Seq([intent : Intents, at : Nat])
      BY DEF SubmitInv, ExecutedInv
    <3>2. k \in 1 .. Len(landed)
      BY <3>1
    <3>3. landed[k] \in [intent : Intents, at : Nat]
      BY <3>1, <3>2, ElementOfSeq
    <3>4. landed[k].intent \in posted /\ (landed[k].intent.expires = 0 \/ landed[k].at <= landed[k].intent.expires)
      BY <3>1, <3>2 DEF ExecutedInv
    <3>5. landed[k].at \in Nat
      BY <3>3
    <3> QED
      BY <3>4, <3>5
  <2>2. i.expires \in Nat \ {0} /\ i.expires <= i.sent + Lifetime /\ i.sent \in Nat
    BY <2>1 DEF SubmitInv, IntentInv
  <2> QED
    BY <2>1, <2>2, SubmissionAssumption
<1> QED
  BY <1>1, SubmitStart, SubmitSteps, PTL DEF SubmitSpec
-----------------------------------------------------------------------------
(***************************************************************************)
(* The resolution of a context                                             *)
(***************************************************************************)
\* What Resolve makes of a configuration.
Resolved(cfg) ==
  LET d == OfGroup(GroupOf(cfg))
      of(field) == IF d = Unset THEN Unset ELSE d[field]
  IN [group |-> GroupOf(cfg), cluster |-> ClusterFor(cfg),
      program |-> Given(cfg.program, of("program")),
      url |-> Given(cfg.url, Given(of("rpcUrl"), DefaultUrl[ClusterFor(cfg)])),
      gateway |-> Given(cfg.gateway, of("gateway")), deployment |-> of("name")]

ContextInv ==
  /\ config \in Config
  /\ stage \in {"reading", "loading", "ready"} =>
       /\ DeploymentFits(config) /\ ProgramFits(config) /\ context = Resolved(config)
  /\ stage \in {"loading", "ready"} => AccountFits

\* A name and a group each identify a deployment.
LEMMA Registered ==
  ASSUME NEW d \in Registry
  PROVE  Named(d.name) = d /\ OfGroup(d.group) = d /\ d # Unset
<1>1. {e \in Registry : e.name = d.name} = {d} /\ {e \in Registry : e.group = d.group} = {d}
  BY ClientContextAssumption
<1> QED
  BY <1>1, ClientContextAssumption DEF Named, OfGroup, One

LEMMA GroupIsOne ==
  ASSUME NEW group
  PROVE  OfGroup(group) # Unset => OfGroup(group) \in Registry /\ OfGroup(group).group = group
BY DEF OfGroup, One

LEMMA ContextSteps == ContextInv /\ [ContextNext]_contextVars => ContextInv'
<1> SUFFICES ASSUME ContextInv, [ContextNext]_contextVars PROVE ContextInv'
  OBVIOUS
<1>1. CASE Resolve
  <2>1. config' = config
    BY <1>1 DEF Resolve
  <2>2. CASE GroupOf(config) # Unset /\ DeploymentFits(config) /\ ProgramFits(config)
    <3>1. stage' = "reading" /\ context' = Resolved(config)
      BY <1>1, <2>2 DEF Resolve, Resolved
    <3> QED
      BY <2>1, <2>2, <3>1 DEF ContextInv
  <2>3. CASE ~(GroupOf(config) # Unset /\ DeploymentFits(config) /\ ProgramFits(config))
    <3>1. stage' = "error"
      BY <1>1, <2>3 DEF Resolve
    <3> QED
      BY <2>1, <3>1 DEF ContextInv
  <2> QED
    BY <2>2, <2>3
<1>2. CASE ReadAccount
  <2>1. /\ stage = "reading" /\ UNCHANGED <<config, context>>
        /\ stage' = IF AccountFits THEN "loading" ELSE "error"
    BY <1>2 DEF ReadAccount
  <2> QED
    BY <2>1 DEF ContextInv, AccountFits
<1>3. CASE ReadGroup
  BY <1>3 DEF ReadGroup, ContextInv, AccountFits
<1>4. CASE ContextFails
  BY <1>4 DEF ContextFails, ContextInv
<1>5. CASE UNCHANGED contextVars
  BY <1>5 DEF contextVars, ContextInv, AccountFits
<1> QED
  BY <1>1, <1>2, <1>3, <1>4, <1>5 DEF ContextNext

\* A context that is ready is of one deployment, whatever it was put together from.
THEOREM DeploymentTruth == ContextSpec => []OneDeployment
<1>1. ContextInit => ContextInv
  BY DEF ContextInit, ContextInv
<1>2. ContextInv => OneDeployment
  <2> SUFFICES ASSUME ContextInv, stage = "ready" PROVE OneDeployment
    BY DEF OneDeployment
  <2> DEFINE o == OfGroup(GroupOf(config))
  <2>1. /\ config \in Config /\ DeploymentFits(config) /\ ProgramFits(config) /\ AccountFits
        /\ context = Resolved(config)
    BY DEF ContextInv
  <2>2. /\ context.group = GroupOf(config) /\ context.cluster = ClusterFor(config)
        /\ context.program = Given(config.program, IF o = Unset THEN Unset ELSE o.program)
        /\ context.url = Given(config.url, Given(IF o = Unset THEN Unset ELSE o.rpcUrl,
                                                 DefaultUrl[ClusterFor(config)]))
        /\ context.gateway = Given(config.gateway, IF o = Unset THEN Unset ELSE o.gateway)
        /\ context.deployment = IF o = Unset THEN Unset ELSE o.name
    BY <2>1 DEF Resolved
  <2>3. /\ config.account = context.group
        /\ Home[context.group] = [cluster |-> ClusterOf[context.url], program |-> context.program]
    BY <2>1 DEF AccountFits
  <2>4. ASSUME config.url = Unset PROVE ClusterOf[context.url] = context.cluster
    <3>1. CASE o = Unset
      <4>1. ClusterFor(config) \in Clusters
        BY <2>1, <3>1, ClientContextAssumption DEF ClusterFor, Config, Optional, Given
      <4> QED
        BY <2>2, <2>4, <3>1, <4>1, ClientContextAssumption DEF Given
    <3>2. CASE o # Unset
      <4>1. o \in Registry /\ ClusterFor(config) = o.cluster
        BY <2>1, <3>2, GroupIsOne DEF ProgramFits
      <4>2. context.url = o.rpcUrl
        BY <2>2, <2>4, <3>2, <4>1, ClientContextAssumption DEF Given
      <4> QED
        BY <2>2, <4>1, <4>2, ClientContextAssumption
    <3> QED
      BY <3>1, <3>2
  <2>5. ASSUME NEW d \in Registry, d.group = context.group \/ d.name = config.deployment
        PROVE  /\ context.group = d.group /\ context.program = d.program
               /\ context.cluster = d.cluster /\ context.deployment = d.name
               /\ context.gateway = Given(config.gateway, d.gateway)
               /\ context.url = Given(config.url, d.rpcUrl)
    <3>1. d.group = GroupOf(config)
      BY <2>1, <2>2, <2>5, Registered, ClientContextAssumption DEF DeploymentFits
    <3>2. o = d /\ d # Unset
      BY <3>1, Registered
    <3>3. ClusterFor(config) = d.cluster /\ config.program \in {Unset, d.program}
      BY <2>1, <3>2 DEF ProgramFits
    <3> QED
      BY <2>2, <3>1, <3>2, <3>3, ClientContextAssumption DEF Given
  <2> QED
    BY <2>3, <2>4, <2>5 DEF OneDeployment
<1> QED
  BY <1>1, <1>2, ContextSteps, PTL DEF ContextSpec
-----------------------------------------------------------------------------
(***************************************************************************)
(* Trigger orders                                                          *)
(***************************************************************************)
Terms    == [kind : Kind, direction : {"at_or_below", "at_or_above"}, trigger : Nat, group : {0, 1}, salt : Nat]
Payloads == [position : Positions, limit : Int, id : Terms, closes : BOOLEAN]
Hashes   == [payload : Payloads, accounts : Nat]
LegSet   == [terms : Terms, id : Terms, payload : Payloads, accounts : Nat, hash : Hashes]
Requests == [terms : Terms, payload : Payloads, accounts : Nat]
Held     == [request : Requests, wanted : BOOLEAN,
             state : {"pending", "armed", "firing", "filled", "cancelled", "expired", "fire_unknown"}]

TriggerTypeOK ==
  /\ builds \in Nat
  /\ legs \in [Kind -> LegSet \cup {None}]
  /\ signature \in [Kind -> Hashes \cup {None}] /\ signed \subseteq Hashes
  /\ outcome \in [Kind -> {"none", "waiting", "accepted", "refused", "error"}]
  /\ wire \subseteq Requests /\ held \subseteq Held
  /\ routes \in {"trigger", "immediate"}

\* What the user signed, and what the keeper answers for.
SignedInv == \A kind \in Kind : signature[kind] # None => signature[kind] \in signed
AckInv == /\ routes = "trigger" => executed = {}
          /\ \A kind \in Kind : outcome[kind] = "accepted" =>
               /\ routes = "trigger"
               /\ \E h \in held : h.request.terms = legs[kind].id

\* The keeper holds a leg once, and the legs of a final answer.
HeldOnce == \A g, h \in held : g.request.terms = h.request.terms => g = h
ListedAreHeld == response.final => \A r \in response.results : \E h \in held : h.request.terms = r.id

\* The legs of one build, by the price they were built against.
BuiltInv ==
  known # None =>
    /\ known \in Nat
    /\ \E position \in Positions : \A kind \in Kind : legs[kind] # None =>
         /\ legs[kind].id.direction = Direction(position, kind)
         /\ ~TriggerAlreadyMet(Direction(position, kind), legs[kind].id.trigger, known)

TriggerInv == /\ TriggerTypeOK /\ SignedInv /\ SentIsSigned /\ AckInv /\ HeldOnce
              /\ ListedAreHeld /\ FinalIsFinal /\ BuiltInv

\* What a step of the caller that leaves the keeper and the network alone has to keep.
LEMMA CallerKeeps ==
  ASSUME TriggerInv, UNCHANGED <<wire, keeperVars, response>>, signed \subseteq signed'
  PROVE  SentIsSigned' /\ HeldOnce' /\ ListedAreHeld' /\ FinalIsFinal'
<1>1. UNCHANGED <<wire, routes, executed, held, fills, response>>
  BY DEF keeperVars
<1> QED
  BY <1>1 DEF TriggerInv, SentIsSigned, HeldOnce, ListedAreHeld, FinalIsFinal

\* A built leg has the type of one.
LEMMA LegType ==
  ASSUME NEW position \in Positions, NEW kind \in Kind, NEW trigger \in Prices, NEW bps \in Slippages,
         NEW group \in {0, 1}, NEW salt \in Nat
  PROVE  /\ Leg(position, kind, trigger, bps, group, salt) \in LegSet
         /\ Leg(position, kind, trigger, bps, group, salt).id.direction = Direction(position, kind)
         /\ Leg(position, kind, trigger, bps, group, salt).id.trigger = trigger
<1>1. trigger \in Nat /\ bps \in Nat /\ BpsOne \in Nat \ {0}
  BY TriggerAssumption
<1>2. LimitPrice(position, trigger, bps) \in Int
  <2>1. trigger * (BpsOne - bps) \in Int /\ trigger * (BpsOne + bps) + (BpsOne - 1) \in Int
    BY <1>1
  <2>2. \A n \in Int : n \div BpsOne \in Int
    BY <1>1
  <2> QED
    BY <2>1, <2>2 DEF LimitPrice
<1> DEFINE terms == [kind |-> kind, direction |-> Direction(position, kind), trigger |-> trigger,
                     group |-> group, salt |-> salt]
           payload == [position |-> position, limit |-> LimitPrice(position, trigger, bps),
                       id |-> terms, closes |-> TRUE]
<1>3. terms \in Terms
  BY <1>1 DEF Terms, Direction
<1>4. payload \in Payloads
  BY <1>2, <1>3 DEF Payloads
<1>5. Leg(position, kind, trigger, bps, group, salt) =
        [terms |-> terms, id |-> terms, payload |-> payload, accounts |-> 0,
         hash |-> [payload |-> payload, accounts |-> 0]]
  BY DEF Leg, Commitment, MessageHash
<1>6. terms.direction = Direction(position, kind) /\ terms.trigger = trigger
  OBVIOUS
<1> HIDE DEF terms, payload
<1> QED
  BY <1>3, <1>4, <1>5, <1>6 DEF LegSet, Hashes

LEMMA TriggerStart == Init => TriggerInv
BY DEF Init, TriggerInv, TriggerTypeOK, SignedInv, SentIsSigned, AckInv, HeldOnce, ListedAreHeld,
       FinalIsFinal, BuiltInv

LEMMA BuildKeeps ==
  ASSUME TriggerInv, NEW position \in Positions, NEW wanted \in SUBSET Kind \ {{}}, NEW bps \in Slippages,
         NEW oracle \in Oracles, NEW triggers \in [wanted -> Prices],
         BuildSlTpLegs(position, triggers, bps, oracle)
  PROVE  TriggerInv'
<1>0. TriggerTypeOK /\ UNCHANGED <<signed, wire, routes, executed, held, fills, response>>
      /\ signature' = [kind \in Kind |-> None] /\ outcome' = [kind \in Kind |-> "none"]
      /\ known' = oracle /\ builds' = builds + 1
  BY DEF TriggerInv, BuildSlTpLegs, keeperVars
<1>1. PICK group \in {0, 1} :
        legs' = [kind \in Kind |-> IF kind \in wanted THEN Leg(position, kind, triggers[kind], bps, group, builds)
                                  ELSE None]
  <2>1. (IF DOMAIN triggers = Kind THEN 1 ELSE 0) \in {0, 1} /\ DOMAIN triggers = wanted
    OBVIOUS
  <2> QED
    BY <2>1 DEF BuildSlTpLegs
<1>2. \A kind \in wanted : /\ legs'[kind] \in LegSet
                           /\ legs'[kind].id.direction = Direction(position, kind)
                           /\ legs'[kind].id.trigger = triggers[kind]
  BY <1>0, <1>1, LegType DEF TriggerTypeOK
<1>3. \A kind \in Kind \ wanted : legs'[kind] = None
  BY <1>1
<1>4. TriggerTypeOK'
  <2>1. legs' \in [Kind -> LegSet \cup {None}]
    BY <1>1, <1>2, <1>3
  <2> QED
    BY <1>0, <2>1 DEF TriggerTypeOK
<1>5. SignedInv' /\ AckInv'
  BY <1>0 DEF SignedInv, AckInv, TriggerInv
<1>6. BuiltInv'
  <2> SUFFICES ASSUME oracle # None PROVE BuiltInv'
    BY <1>0 DEF BuiltInv
  <2>1. oracle \in Nat
    BY TriggerAssumption
  <2>2. \A kind \in wanted : ~TriggerAlreadyMet(Direction(position, kind), triggers[kind], oracle)
    BY DEF BuildSlTpLegs, LegOk
  <2> QED
    BY <1>0, <1>2, <1>3, <2>1, <2>2 DEF BuiltInv
<1> QED
  BY <1>0, <1>4, <1>5, <1>6, CallerKeeps DEF TriggerInv, keeperVars

LEMMA CallerSteps ==
  ASSUME TriggerInv, NEW kind \in Kind,
         Change(kind) \/ SignTriggerOrderLeg(kind) \/ Timeout(kind) \/ Submit(kind)
  PROVE  TriggerInv'
<1>0. /\ TriggerTypeOK /\ SignedInv /\ SentIsSigned /\ AckInv /\ BuiltInv
      /\ UNCHANGED <<builds, known, routes, executed, held, fills, response>>
      /\ legs[kind] # None \/ UNCHANGED legs
  BY DEF TriggerInv, Change, SignTriggerOrderLeg, Timeout, Submit, keeperVars
<1>1. CASE Change(kind)
  <2>1. PICK leg \in Changed(legs[kind]), anew \in BOOLEAN :
          legs' = [legs EXCEPT ![kind] =
                     IF anew THEN [leg EXCEPT !.hash = MessageHash(leg.payload, leg.accounts)] ELSE leg]
    BY <1>1 DEF Change
  <2>2. legs[kind] \in LegSet /\ legs[kind] # None
    BY <1>0, <1>1 DEF Change, TriggerTypeOK
  <2>3. leg \in LegSet /\ leg.id = legs[kind].id
    <3>1. /\ [legs[kind] EXCEPT !.terms.trigger = @ + 1] \in LegSet
          /\ [legs[kind] EXCEPT !.payload.limit = @ + 1] \in LegSet
          /\ [legs[kind] EXCEPT !.payload.closes = FALSE] \in LegSet
          /\ [legs[kind] EXCEPT !.accounts = @ + 1] \in LegSet
      <4>1. [legs[kind] EXCEPT !.terms.trigger = @ + 1] \in LegSet
        BY <2>2 DEF LegSet, Terms
      <4>2. [legs[kind] EXCEPT !.payload.limit = @ + 1] \in LegSet
        BY <2>2 DEF LegSet, Payloads
      <4>3. [legs[kind] EXCEPT !.payload.closes = FALSE] \in LegSet
        BY <2>2 DEF LegSet, Payloads
      <4>4. [legs[kind] EXCEPT !.accounts = @ + 1] \in LegSet
        BY <2>2 DEF LegSet
      <4> QED
        BY <4>1, <4>2, <4>3, <4>4
    <3>2. /\ [legs[kind] EXCEPT !.terms.trigger = @ + 1].id = legs[kind].id
          /\ [legs[kind] EXCEPT !.payload.limit = @ + 1].id = legs[kind].id
          /\ [legs[kind] EXCEPT !.payload.closes = FALSE].id = legs[kind].id
          /\ [legs[kind] EXCEPT !.accounts = @ + 1].id = legs[kind].id
      BY <2>2 DEF LegSet
    <3> QED
      BY <2>1, <3>1, <3>2 DEF Changed
  <2>4. legs'[kind] \in LegSet /\ legs'[kind].id = legs[kind].id
    <3>1. [leg EXCEPT !.hash = MessageHash(leg.payload, leg.accounts)] \in LegSet
          /\ [leg EXCEPT !.hash = MessageHash(leg.payload, leg.accounts)].id = leg.id
      BY <2>3 DEF LegSet, Hashes, MessageHash
    <3>2. legs'[kind] = IF anew THEN [leg EXCEPT !.hash = MessageHash(leg.payload, leg.accounts)] ELSE leg
      BY <1>0, <2>1 DEF TriggerTypeOK
    <3> QED
      BY <2>3, <3>1, <3>2
  <2>5. legs' \in [Kind -> LegSet \cup {None}] /\ \A k \in Kind \ {kind} : legs'[k] = legs[k]
    BY <1>0, <2>1, <2>4 DEF TriggerTypeOK
  <2>6. UNCHANGED <<signature, outcome, signed, wire>>
    BY <1>1 DEF Change
  <2>7. TriggerTypeOK' /\ SignedInv' /\ AckInv'
    BY <1>0, <2>4, <2>5, <2>6 DEF TriggerTypeOK, SignedInv, AckInv
  <2>8. BuiltInv'
    BY <1>0, <2>2, <2>4, <2>5 DEF BuiltInv
  <2> QED
    BY <1>0, <2>6, <2>7, <2>8, CallerKeeps DEF TriggerInv, keeperVars
<1>2. CASE SignTriggerOrderLeg(kind)
  <2>1. /\ legs[kind].hash \in Hashes /\ UNCHANGED <<legs, outcome, wire>>
        /\ signature' = [signature EXCEPT ![kind] = legs[kind].hash]
        /\ signed' = signed \cup {legs[kind].hash}
    BY <1>0, <1>2 DEF SignTriggerOrderLeg, TriggerTypeOK, LegSet
  <2>2. TriggerTypeOK' /\ SignedInv' /\ AckInv' /\ BuiltInv'
    BY <1>0, <2>1 DEF TriggerTypeOK, SignedInv, AckInv, BuiltInv
  <2> QED
    BY <1>0, <2>1, <2>2, CallerKeeps DEF TriggerInv, keeperVars
<1>3. CASE Timeout(kind)
  <2>1. /\ outcome' = [outcome EXCEPT ![kind] = "error"] /\ UNCHANGED <<legs, signature, signed, wire>>
    BY <1>3 DEF Timeout
  <2>2. TriggerTypeOK' /\ SignedInv' /\ AckInv' /\ BuiltInv'
    BY <1>0, <2>1 DEF TriggerTypeOK, SignedInv, AckInv, BuiltInv
  <2> QED
    BY <1>0, <2>1, <2>2, CallerKeeps DEF TriggerInv, keeperVars
<1>4. CASE Submit(kind)
  <2>1. /\ legs[kind] \in LegSet /\ signature[kind] # None /\ UNCHANGED <<legs, signature, signed>>
        /\ outcome' \in {[outcome EXCEPT ![kind] = s] : s \in {"waiting", "refused"}}
    BY <1>0, <1>4 DEF Submit, TriggerTypeOK
  <2>2. wire' \subseteq wire \cup {Request(legs[kind])}
    BY <1>4 DEF Submit
  <2>3. Request(legs[kind]) \in Requests
    BY <2>1 DEF Request, Requests, LegSet
  <2>4. TriggerTypeOK' /\ SignedInv' /\ AckInv' /\ BuiltInv'
    BY <1>0, <2>1, <2>2, <2>3 DEF TriggerTypeOK, SignedInv, AckInv, BuiltInv
  <2>5. SentIsSigned'
    <3>1. CASE TriggerOrderRequestOk(legs[kind], signature[kind])
      <4>1. /\ MessageHash(legs[kind].payload, legs[kind].accounts) \in signed
            /\ Commitment(legs[kind].terms) = legs[kind].payload.id
            /\ legs[kind].payload.closes
        BY <1>0, <2>1, <3>1 DEF TriggerOrderRequestOk, SignedInv
      <4> QED
        BY <1>0, <2>1, <2>2, <4>1 DEF SentIsSigned, Request
    <3>2. CASE ~TriggerOrderRequestOk(legs[kind], signature[kind])
      BY <1>0, <1>4, <2>1, <3>2 DEF Submit, SentIsSigned
    <3> QED
      BY <3>1, <3>2
  <2>6. HeldOnce' /\ ListedAreHeld' /\ FinalIsFinal'
    BY <1>0 DEF TriggerInv, HeldOnce, ListedAreHeld, FinalIsFinal
  <2> QED
    BY <2>4, <2>5, <2>6 DEF TriggerInv
<1> QED
  BY <1>1, <1>2, <1>3, <1>4
\* What a step of the network or of the keeper has to keep of the caller's side.
LEMMA KeeperKeeps ==
  ASSUME TriggerInv, UNCHANGED <<legs, signature, builds, known, signed, routes>>
  PROVE  SignedInv' /\ BuiltInv'
BY DEF TriggerInv, SignedInv, BuiltInv

\* A held leg changes its state.
LEMMA MoveKeeps ==
  ASSUME TriggerInv, NEW h \in held, h.state \in {"pending", "armed", "firing"},
         NEW state \in {"armed", "firing", "filled", "cancelled", "expired", "fire_unknown"},
         Move(h, state)
  PROVE  TriggerInv'
<1> DEFINE g == [h EXCEPT !.state = state]
<1>1. /\ held' = (held \ {h}) \cup {g}
      /\ UNCHANGED <<legs, signature, outcome, builds, known, signed, wire, response, routes, executed, fills>>
  BY DEF Move, clientVars
<1>2. /\ TriggerTypeOK /\ SentIsSigned /\ AckInv /\ HeldOnce /\ ListedAreHeld /\ FinalIsFinal
      /\ h \in Held
  BY DEF TriggerInv, TriggerTypeOK
<1>3. g \in Held /\ g.request = h.request
  BY <1>2 DEF Held
<1> HIDE DEF g
<1>4. TriggerTypeOK' /\ SentIsSigned' /\ AckInv' /\ HeldOnce'
  <2>1. TriggerTypeOK'
    BY <1>1, <1>2, <1>3 DEF TriggerTypeOK
  <2>2. SentIsSigned'
    BY <1>1, <1>2, <1>3 DEF SentIsSigned
  <2>3. \A k \in held : \E l \in held' : l.request = k.request
    BY <1>1, <1>3
  <2>4. AckInv'
    BY <1>1, <1>2, <2>3 DEF AckInv
  <2>5. HeldOnce'
    BY <1>1, <1>2, <1>3 DEF HeldOnce
  <2> QED
    BY <2>1, <2>2, <2>4, <2>5
<1>5. ListedAreHeld' /\ FinalIsFinal'
  <2>1. \A k \in held : \E l \in held' : l.request = k.request
    BY <1>1, <1>3
  <2>2. ListedAreHeld'
    BY <1>1, <1>2, <2>1 DEF ListedAreHeld
  <2>3. response.final => \A r \in response.results : h.request.terms # r.id
    BY <1>2 DEF FinalIsFinal, Commitment, Terminal
  <2>4. FinalIsFinal'
    BY <1>1, <1>2, <1>3, <2>3 DEF FinalIsFinal, Commitment
  <2> QED
    BY <2>2, <2>4
<1> QED
  BY <1>1, <1>4, <1>5, KeeperKeeps DEF TriggerInv

LEMMA FillKeeps ==
  ASSUME TriggerInv, NEW h \in held, Fill(h)
  PROVE  TriggerInv'
<1>1. /\ fills' = fills \cup {h.request} /\ h.state \in {"firing", "fire_unknown"}
      /\ UNCHANGED <<legs, signature, outcome, builds, known, signed, wire, response, routes, executed, held>>
  BY DEF Fill, clientVars
<1>2. TriggerTypeOK' /\ SentIsSigned' /\ AckInv' /\ HeldOnce' /\ ListedAreHeld'
  BY <1>1 DEF TriggerInv, TriggerTypeOK, SentIsSigned, AckInv, HeldOnce, ListedAreHeld
<1>3. FinalIsFinal'
  <2> SUFFICES ASSUME response.final, NEW r \in response.results, NEW g \in held,
                      Commitment(g.request.terms) = r.id
               PROVE  /\ g.state \in Terminal
                      /\ g.request \in fills' \ response.fills => g.state = "fire_unknown"
    BY <1>1 DEF FinalIsFinal
  <2>1. /\ g.state \in Terminal
        /\ g.request \in fills \ response.fills => g.state = "fire_unknown"
    BY DEF TriggerInv, FinalIsFinal
  <2>2. g.request = h.request => g = h
    BY DEF TriggerInv, HeldOnce
  <2> QED
    BY <1>1, <2>1, <2>2 DEF Terminal
<1> QED
  BY <1>1, <1>2, <1>3, KeeperKeeps DEF TriggerInv

\* An answer leaves every outcome as it was, or acknowledges or refuses the leg of the request.
LEMMA AnswerKeeps ==
  ASSUME TriggerTypeOK, NEW req, NEW reply, Answer(req, reply)
  PROVE  /\ outcome' \in [Kind -> {"none", "waiting", "accepted", "refused", "error"}]
         /\ \A kind \in Kind : outcome'[kind] = "accepted" =>
              \/ outcome[kind] = "accepted"
              \/ legs[kind].id = req.terms /\ Withheld(reply)
<1>1. CASE UNCHANGED outcome
  BY <1>1 DEF TriggerTypeOK
<1>2. CASE outcome' = [kind \in Kind |->
             IF outcome[kind] = "waiting" /\ legs[kind].id = Commitment(req.terms)
               THEN IF Withheld(reply) THEN "accepted" ELSE "error"
               ELSE outcome[kind]]
  BY <1>2 DEF TriggerTypeOK, Commitment
<1> QED
  BY <1>1, <1>2 DEF Answer

LEMMA RelayKeeps ==
  ASSUME TriggerInv, NEW req \in wire, Relay(req)
  PROVE  TriggerInv'
<1>1. /\ UNCHANGED <<legs, signature, builds, known, signed, response, routes, fills>>
      /\ wire' = wire \ {req} /\ req \in Requests
  BY DEF Relay, TriggerInv, TriggerTypeOK
<1>2. /\ TriggerTypeOK /\ SentIsSigned /\ AckInv /\ HeldOnce /\ ListedAreHeld /\ FinalIsFinal
  BY DEF TriggerInv
<1>3. PICK state \in {"pending", "armed", "failed"}, sent \in BOOLEAN :
        LET old == {h \in held : h.request.terms = req.terms}
        IN  CASE routes = "immediate" ->
                   /\ Answer(req, [named |-> FALSE, status |-> state, tx |-> sent])
                   /\ executed' = executed \cup {Commitment(req.terms)}
                   /\ UNCHANGED held
              [] routes = "trigger" /\ old # {} ->
                   /\ \E h \in old : Answer(req, [named |-> TRUE, status |-> h.state, tx |-> FALSE])
                   /\ UNCHANGED <<held, executed>>
              [] OTHER ->
                   /\ Answer(req, [named |-> TRUE, status |-> state, tx |-> FALSE])
                   /\ held' = IF state = "failed" THEN held
                              ELSE held \cup {[request |-> req, state |-> state, wanted |-> FALSE]}
                   /\ UNCHANGED executed
  BY DEF Relay
<1> DEFINE old == {h \in held : h.request.terms = req.terms}
<1>4. CASE routes = "immediate"
  <2>1. Answer(req, [named |-> FALSE, status |-> state, tx |-> sent]) /\ UNCHANGED held
    BY <1>3, <1>4
  <2>2. \A kind \in Kind : outcome'[kind] # "accepted"
    BY <1>2, <1>4, <2>1, AnswerKeeps DEF AckInv, Withheld
  <2>3. outcome' \in [Kind -> {"none", "waiting", "accepted", "refused", "error"}]
    BY <1>2, <2>1, AnswerKeeps
  <2> QED
    BY <1>1, <1>2, <1>4, <2>1, <2>2, <2>3, KeeperKeeps
    DEF TriggerInv, TriggerTypeOK, SentIsSigned, AckInv, HeldOnce, ListedAreHeld, FinalIsFinal
<1>5. CASE routes = "trigger" /\ old # {}
  <2>1. PICK h \in old : Answer(req, [named |-> TRUE, status |-> h.state, tx |-> FALSE])
    BY <1>3, <1>5
  <2>2. UNCHANGED <<held, executed>>
    BY <1>3, <1>5
  <2>3. \A kind \in Kind : outcome'[kind] = "accepted" => \E g \in held : g.request.terms = legs[kind].id
    BY <1>2, <2>1, AnswerKeeps DEF AckInv
  <2>4. outcome' \in [Kind -> {"none", "waiting", "accepted", "refused", "error"}]
    BY <1>2, <2>1, AnswerKeeps
  <2> QED
    BY <1>1, <1>2, <1>5, <2>2, <2>3, <2>4, KeeperKeeps
    DEF TriggerInv, TriggerTypeOK, SentIsSigned, AckInv, HeldOnce, ListedAreHeld, FinalIsFinal
<1>6. CASE routes = "trigger" /\ old = {}
  <2> DEFINE new == [request |-> req, state |-> state, wanted |-> FALSE]
  <2>1. /\ Answer(req, [named |-> TRUE, status |-> state, tx |-> FALSE]) /\ UNCHANGED executed
        /\ held' = IF state = "failed" THEN held ELSE held \cup {new}
    BY <1>3, <1>6
  <2>2. new \in (IF state = "failed" THEN {new} ELSE Held) /\ new.request = req
    BY <1>1 DEF Held
  <2>3. \A kind \in Kind : outcome'[kind] = "accepted" =>
          \/ outcome[kind] = "accepted"
          \/ legs[kind].id = req.terms /\ state # "failed"
    BY <1>2, <2>1, AnswerKeeps DEF Withheld
  <2>4. outcome' \in [Kind -> {"none", "waiting", "accepted", "refused", "error"}]
    BY <1>2, <2>1, AnswerKeeps
  <2> HIDE DEF new
  <2>5. held \subseteq held' /\ held' \subseteq held \cup {new} /\ (state # "failed" => new \in held')
    BY <2>1
  <2>6. \A h \in held : h.request.terms # req.terms
    BY <1>6
  <2>7. TriggerTypeOK'
    BY <1>1, <1>2, <2>1, <2>2, <2>4 DEF TriggerTypeOK
  <2>8. SentIsSigned'
    BY <1>1, <1>2, <2>2, <2>5 DEF SentIsSigned
  <2>9. AckInv'
    BY <1>1, <1>2, <1>6, <2>1, <2>2, <2>3, <2>5 DEF AckInv
  <2>10. HeldOnce'
    BY <1>2, <2>2, <2>5, <2>6 DEF HeldOnce
  <2>11. ListedAreHeld' /\ FinalIsFinal'
    <3>1. ListedAreHeld'
      BY <1>1, <1>2, <2>5 DEF ListedAreHeld
    <3>2. response.final => \A r \in response.results : r.id # req.terms
      BY <1>2, <2>6 DEF ListedAreHeld
    <3> QED
      BY <1>1, <1>2, <2>2, <2>5, <3>1, <3>2 DEF FinalIsFinal, Commitment
  <2> QED
    BY <1>1, <2>7, <2>8, <2>9, <2>10, <2>11, KeeperKeeps DEF TriggerInv
<1> QED
  BY <1>2, <1>4, <1>5, <1>6 DEF TriggerTypeOK

LEMMA CancelKeeps ==
  ASSUME TriggerInv, NEW ids, NEW named \in SUBSET ids, Cancel(ids, named)
  PROVE  TriggerInv'
<1> DEFINE hit == {h \in held : Commitment(h.request.terms) \in ids}
           new(h) == [h EXCEPT !.state  = IF CancelOutcome(h) = "cancelled" THEN "cancelled" ELSE @,
                               !.wanted = h.state = "firing"]
           results == {[id |-> Commitment(h.request.terms), outcome |-> CancelOutcome(h)] : h \in hit}
                      \cup {[id |-> i, outcome |-> "not_found"] :
                              i \in named \ {Commitment(h.request.terms) : h \in held}}
<1>1. /\ held' = (held \ hit) \cup {new(h) : h \in hit}
      /\ \/ response' = [final |-> TriggerCancelIsFinal(results), results |-> results, fills |-> fills]
         \/ UNCHANGED response
      /\ UNCHANGED <<legs, signature, outcome, builds, known, signed, wire, routes, executed, fills>>
  BY DEF Cancel, clientVars
<1>2. /\ TriggerTypeOK /\ SentIsSigned /\ AckInv /\ HeldOnce /\ ListedAreHeld /\ FinalIsFinal
      /\ held \subseteq Held
  BY DEF TriggerInv, TriggerTypeOK
<1>3. ASSUME NEW h \in hit
      PROVE  /\ new(h) \in Held /\ new(h).request = h.request
             /\ CancelOutcome(h) = "cancelled" => new(h).state = "cancelled"
             /\ CancelOutcome(h) # "cancelled" => new(h).state = h.state
  <2>1. h \in Held
    BY <1>2
  <2> QED
    BY <2>1 DEF Held
<1> HIDE DEF new
<1>4. /\ \A h \in held : \E g \in held' : g.request = h.request
      /\ \A g \in held' : \E h \in held : g.request = h.request /\ ((g = h /\ h \notin hit) \/ (h \in hit /\ g = new(h)))
  BY <1>1, <1>3
<1>5. TriggerTypeOK' /\ SentIsSigned' /\ AckInv' /\ HeldOnce'
  <2>1. held' \subseteq Held
    BY <1>1, <1>2, <1>3
  <2>2. TriggerTypeOK'
    BY <1>1, <1>2, <2>1 DEF TriggerTypeOK
  <2>3. SentIsSigned'
    BY <1>1, <1>2, <1>4 DEF SentIsSigned
  <2>4. AckInv'
    BY <1>1, <1>2, <1>4 DEF AckInv
  <2>5. HeldOnce'
    BY <1>2, <1>4 DEF HeldOnce
  <2> QED
    BY <2>2, <2>3, <2>4, <2>5
<1>6. CASE UNCHANGED response
  <2>1. ListedAreHeld'
    BY <1>2, <1>4, <1>6 DEF ListedAreHeld
  <2>2. FinalIsFinal'
    <3> SUFFICES ASSUME response.final, NEW r \in response.results, NEW g \in held',
                        g.request.terms = r.id
                 PROVE  /\ g.state \in Terminal
                        /\ g.request \in fills \ response.fills => g.state = "fire_unknown"
      BY <1>1, <1>6 DEF FinalIsFinal, Commitment
    <3>1. PICK h \in held : g.request = h.request /\ (g = h \/ (h \in hit /\ g = new(h)))
      BY <1>4
    <3>2. h.state \in Terminal /\ (h.request \in fills \ response.fills => h.state = "fire_unknown")
      BY <1>2, <3>1 DEF FinalIsFinal, Commitment
    <3>3. h \in hit => new(h).state = h.state
      BY <1>3, <3>2 DEF CancelOutcome
    <3> QED
      BY <3>1, <3>2, <3>3
  <2> QED
    BY <1>1, <1>5, <2>1, <2>2, KeeperKeeps DEF TriggerInv
<1>7. CASE response' = [final |-> TriggerCancelIsFinal(results), results |-> results, fills |-> fills]
  <2>1. response'.final = TriggerCancelIsFinal(results) /\ response'.results = results /\ response'.fills = fills
    BY <1>7
  <2>2. ASSUME TriggerCancelIsFinal(results), NEW r \in results
        PROVE  \E h \in hit : /\ r.id = h.request.terms
                             /\ CancelOutcome(h) \in {"cancelled", "already_terminal"}
    <3>1. r.outcome \in {"cancelled", "already_terminal"}
      BY <2>2 DEF TriggerCancelIsFinal
    <3>2. CASE \E h \in hit : r = [id |-> Commitment(h.request.terms), outcome |-> CancelOutcome(h)]
      BY <3>1, <3>2 DEF Commitment
    <3>3. CASE \E i \in named : r = [id |-> i, outcome |-> "not_found"]
      BY <3>1, <3>3
    <3> QED
      BY <3>2, <3>3
  <2> HIDE DEF results
  <2>3. ListedAreHeld'
    BY <1>4, <2>1, <2>2 DEF ListedAreHeld
  <2>4. FinalIsFinal'
    <3> SUFFICES ASSUME TriggerCancelIsFinal(results), NEW r \in results, NEW g \in held',
                        g.request.terms = r.id
                 PROVE  g.state \in Terminal
      BY <1>1, <2>1 DEF FinalIsFinal, Commitment
    <3>1. PICK h \in hit : r.id = h.request.terms /\ CancelOutcome(h) \in {"cancelled", "already_terminal"}
      BY <2>2
    <3>2. g = new(h)
      BY <1>2, <1>4, <3>1 DEF HeldOnce
    <3>3. CancelOutcome(h) # "cancelled" => h.state \in Terminal
      BY <3>1 DEF CancelOutcome
    <3> QED
      BY <1>3, <3>1, <3>2, <3>3 DEF Terminal
  <2> QED
    BY <1>1, <1>5, <2>3, <2>4, KeeperKeeps DEF TriggerInv
<1> QED
  BY <1>1, <1>6, <1>7

LEMMA TriggerSteps == TriggerInv /\ [Next]_vars => TriggerInv'
<1> SUFFICES ASSUME TriggerInv, [Next]_vars PROVE TriggerInv'
  OBVIOUS
<1>1. ASSUME NEW position \in Positions, NEW wanted \in SUBSET Kind \ {{}}, NEW bps \in Slippages,
             NEW oracle \in Oracles, NEW triggers \in [wanted -> Prices],
             BuildSlTpLegs(position, triggers, bps, oracle)
      PROVE  TriggerInv'
  BY <1>1, BuildKeeps
<1>2. ASSUME NEW kind \in Kind, Change(kind) \/ SignTriggerOrderLeg(kind) \/ Submit(kind) \/ Timeout(kind)
      PROVE  TriggerInv'
  BY <1>2, CallerSteps
<1>3. ASSUME NEW req \in wire, Relay(req) PROVE TriggerInv'
  BY <1>3, RelayKeeps
<1>4. ASSUME NEW req \in wire, Lose(req) PROVE TriggerInv'
  <2>1. /\ UNCHANGED <<legs, signature, outcome, builds, known, signed, response, routes, executed, held, fills>>
        /\ wire' = wire \ {req}
    BY <1>4 DEF Lose, clientVars, keeperVars
  <2> QED
    BY <2>1 DEF TriggerInv, TriggerTypeOK, SignedInv, SentIsSigned, AckInv, HeldOnce, ListedAreHeld,
                FinalIsFinal, BuiltInv
<1>5. ASSUME NEW h \in held, Arm(h) \/ Fire(h) \/ Expire(h) \/ Observe(h) \/ CancelSibling(h)
      PROVE  TriggerInv'
  BY <1>5, MoveKeeps DEF Arm, Fire, Expire, Observe, CancelSibling
<1>6. ASSUME NEW h \in held, Fill(h) PROVE TriggerInv'
  BY <1>6, FillKeeps
<1>7. CASE CancelTriggerOrders
  <2>1. PICK ids : \E named \in SUBSET ids : Cancel(ids, named)
    <3> DEFINE mine == {legs[kind].id : kind \in {k \in Kind : legs[k] # None}}
               all  == {Commitment(h.request.terms) : h \in held}
    <3>1. \/ \E ids \in SUBSET mine : Cancel(ids, ids)
          \/ Cancel({i \in all : i.group = 1}, {})
          \/ Cancel(all, {})
      BY <1>7 DEF CancelTriggerOrders
    <3> QED
      BY <3>1
  <2> QED
    BY <2>1, CancelKeeps
<1>8. CASE UNCHANGED vars
  <2>1. UNCHANGED <<legs, signature, outcome, builds, known, signed, wire, response, routes, executed, held, fills>>
    BY <1>8 DEF vars, clientVars, keeperVars
  <2> QED
    BY <2>1 DEF TriggerInv, TriggerTypeOK, SignedInv, SentIsSigned, AckInv, HeldOnce, ListedAreHeld,
                FinalIsFinal, BuiltInv
<1> QED
  BY <1>1, <1>2, <1>3, <1>4, <1>5, <1>6, <1>7, <1>8 DEF Next

\* Nothing reaches the keeper that the user did not sign, terms included.
THEOREM SentTruth == Spec => []SentIsSigned
<1>1. TriggerInv => SentIsSigned
  BY DEF TriggerInv
<1> QED
  BY <1>1, TriggerStart, TriggerSteps, PTL DEF Spec

\* A leg that was acknowledged is held and was not executed at once.
THEOREM AckTruth == Spec => []AckIsTrue
<1>1. TriggerInv => AckIsTrue
  BY DEF TriggerInv, AckInv, AckIsTrue, Commitment
<1> QED
  BY <1>1, TriggerStart, TriggerSteps, PTL DEF Spec

\* No price meets both legs that were built against an oracle price.
THEOREM BracketTruth == Spec => []BracketIsExclusive
<1>1. TriggerInv => BracketIsExclusive
  <2> SUFFICES ASSUME TriggerInv, known # None, \A kind \in Kind : legs[kind] # None, NEW price \in Prices
               PROVE  \E kind \in Kind :
                        LET leg == legs[kind].id
                        IN  IF leg.direction = "at_or_below" THEN price > leg.trigger ELSE price < leg.trigger
    BY DEF BracketIsExclusive
  <2>1. PICK position \in Positions : \A kind \in Kind :
          /\ legs[kind].id.direction = Direction(position, kind)
          /\ ~TriggerAlreadyMet(Direction(position, kind), legs[kind].id.trigger, known)
    BY DEF TriggerInv, BuiltInv
  <2>2. known \in Nat /\ price \in Nat
    BY TriggerAssumption DEF TriggerInv, BuiltInv
  <2>3. \A kind \in Kind : legs[kind].id.trigger \in Nat
    BY DEF TriggerInv, TriggerTypeOK, LegSet, Terms
  <2>4. PICK low \in Kind, high \in Kind :
          Direction(position, low) = "at_or_below" /\ Direction(position, high) = "at_or_above"
    <3>1. "stop_loss" \in Kind /\ "take_profit" \in Kind
      BY DEF Kind
    <3>2. CASE position = "long"
      BY <3>1, <3>2 DEF Direction
    <3>3. CASE position # "long"
      BY <3>1, <3>3 DEF Direction
    <3> QED
      BY <3>2, <3>3
  <2>5. legs[low].id.trigger < known /\ known < legs[high].id.trigger
    BY <2>1, <2>2, <2>3, <2>4 DEF TriggerAlreadyMet
  <2>6. CASE price > legs[low].id.trigger
    BY <2>1, <2>4, <2>6
  <2>7. CASE price <= legs[low].id.trigger
    <3>1. price < legs[high].id.trigger
      BY <2>2, <2>3, <2>5, <2>7
    <3> QED
      BY <2>1, <2>4, <3>1
  <2> QED
    BY <2>2, <2>3, <2>6, <2>7
<1> QED
  BY <1>1, TriggerStart, TriggerSteps, PTL DEF Spec

\* What a final answer to a cancel lists is over for good.
THEOREM FinalTruth == Spec => []FinalIsFinal
<1>1. TriggerInv => FinalIsFinal
  BY DEF TriggerInv
<1> QED
  BY <1>1, TriggerStart, TriggerSteps, PTL DEF Spec

(***************************************************************************)
(* The redaction of an answer                                              *)
(***************************************************************************)
KeySeqs == Seq(Keys)
Nodes == {"object", "list"} \cup Scalars

\* What of a JSON value the parts below rest on.
IsTree(value) ==
  /\ DOMAIN value \subseteq KeySeqs /\ Root \in DOMAIN value
  /\ value \in [DOMAIN value -> Nodes]

\* Above each place but the root there is one.
Closed(value) == \A p \in DOMAIN value \ {Root} : Front(p) \in DOMAIN value

LEMMA RootIsPath == Root \in KeySeqs /\ Len(Root) = 0
BY EmptySeq DEF Root, KeySeqs

LEMMA KeyPaths ==
  ASSUME NEW S, NEW a \in S, NEW b \in S
  PROVE  /\ <<a>> \in Seq(S) /\ Len(<<a>>) = 1 /\ <<a>>[1] = a
         /\ <<a, b>> \in Seq(S) /\ Len(<<a, b>>) = 2 /\ <<a, b>>[1] = a /\ <<a, b>>[2] = b
OBVIOUS

\* A path is its keys.
LEMMA ByKeys ==
  ASSUME NEW p \in KeySeqs
  PROVE  /\ Len(p) = 0 => p = Root
         /\ \A a \in Keys : Len(p) = 1 /\ p[1] = a => p = <<a>>
         /\ \A a, b \in Keys : Len(p) = 2 /\ p[1] = a /\ p[2] = b => p = <<a, b>>
         /\ Len(p) \in Nat /\ DOMAIN p = 1 .. Len(p) /\ \A i \in 1 .. Len(p) : p[i] \in Keys
<1>1. Len(p) \in Nat /\ DOMAIN p = 1 .. Len(p) /\ \A i \in 1 .. Len(p) : p[i] \in Keys
  BY LenProperties, ElementOfSeq DEF KeySeqs
<1>2. Len(p) = 0 => p = Root
  BY EmptySeq, SeqEqual DEF Root, KeySeqs
<1>3. ASSUME NEW a \in Keys, Len(p) = 1, p[1] = a PROVE p = <<a>>
  <2>0. \A i \in 1 .. Len(p) : i = 1
    BY <1>3
  <2>1. \A i \in 1 .. Len(p) : p[i] = <<a>>[i]
    BY <1>3, <2>0
  <2> QED
    BY <1>3, <2>1, KeyPaths, SeqEqual DEF KeySeqs
<1>4. ASSUME NEW a \in Keys, NEW b \in Keys, Len(p) = 2, p[1] = a, p[2] = b PROVE p = <<a, b>>
  <2>0. \A i \in 1 .. Len(p) : i = 1 \/ i = 2
    BY <1>4
  <2>1. \A i \in 1 .. Len(p) : p[i] = <<a, b>>[i]
    BY <1>4, <2>0
  <2> QED
    BY <1>4, <2>1, KeyPaths, SeqEqual DEF KeySeqs
<1> QED
  BY <1>1, <1>2, <1>3, <1>4

\* The path from a place on is the one that leads on from there.
LEMMA Joined ==
  ASSUME NEW place \in KeySeqs, NEW r \in KeySeqs
  PROVE  /\ place \o r \in KeySeqs /\ Len(place \o r) = Len(place) + Len(r)
         /\ \A i \in 1 .. Len(place) : (place \o r)[i] = place[i]
         /\ \A i \in 1 .. Len(r) : (place \o r)[Len(place) + i] = r[i]
         /\ IsPrefix(place, place \o r) /\ Inner(place, place \o r) = r
<1> DEFINE p == place \o r
<1>1. /\ p \in KeySeqs /\ Len(p) = Len(place) + Len(r)
      /\ \A i \in 1 .. Len(place) + Len(r) : p[i] = IF i <= Len(place) THEN place[i] ELSE r[i - Len(place)]
  BY ConcatProperties DEF KeySeqs
<1>2. Len(place) \in Nat /\ Len(r) \in Nat
  BY ByKeys
<1> HIDE DEF p
<1>3. /\ \A i \in 1 .. Len(place) : p[i] = place[i]
      /\ \A i \in 1 .. Len(r) : p[Len(place) + i] = r[i]
  BY <1>1, <1>2
<1>4. IsPrefix(place, p)
  <2>1. /\ SubSeq(place, 1, Len(place)) \in KeySeqs /\ Len(SubSeq(place, 1, Len(place))) = Len(place)
        /\ \A i \in 1 .. Len(place) : SubSeq(place, 1, Len(place))[i] = place[i]
    BY <1>2, ByKeys, SubSeqProperties, SubSeqFull DEF KeySeqs
  <2>2. \A i \in 1 .. Len(place) : p[i] \in Keys
    BY <1>3, ByKeys
  <2>3. /\ SubSeq(p, 1, Len(place)) \in KeySeqs /\ Len(SubSeq(p, 1, Len(place))) = Len(place)
        /\ \A i \in 1 .. Len(place) : SubSeq(p, 1, Len(place))[i] = p[i]
    BY <1>2, <2>2, SubSeqProperties DEF KeySeqs
  <2>4. SubSeq(place, 1, Len(place)) = SubSeq(p, 1, Len(place))
    BY <2>1, <2>3, <1>3, SeqEqual DEF KeySeqs
  <2> QED
    BY <2>4, <1>1, <1>2 DEF IsPrefix
<1>5. Inner(place, p) = r
  <2>1. \A i \in Len(place) + 1 .. Len(p) : p[i] \in Keys
    BY <1>1, <1>2, ByKeys
  <2>2. /\ Inner(place, p) \in KeySeqs /\ Len(Inner(place, p)) = Len(r)
        /\ \A i \in 1 .. Len(r) : Inner(place, p)[i] = p[Len(place) + i]
    BY <1>1, <1>2, <2>1, SubSeqProperties DEF Inner, KeySeqs
  <2> QED
    BY <1>3, <2>2, SeqEqual DEF KeySeqs
<1> QED
  BY <1>1, <1>3, <1>4, <1>5 DEF p

LEMMA Parted ==
  ASSUME NEW place \in KeySeqs, NEW p \in KeySeqs, IsPrefix(place, p)
  PROVE  Inner(place, p) \in KeySeqs /\ place \o Inner(place, p) = p
<1>1. Len(place) \in Nat /\ Len(p) \in Nat /\ Len(place) <= Len(p) /\ SubSeq(place, 1, Len(place)) = SubSeq(p, 1, Len(place))
  BY ByKeys DEF IsPrefix
<1>2. SubSeq(p, 1, Len(place)) = place
  BY <1>1, SubSeqFull DEF KeySeqs
<1>3. \A i \in Len(place) + 1 .. Len(p) : p[i] \in Keys
  BY <1>1, ByKeys
<1>4. Inner(place, p) \in KeySeqs
  BY <1>1, <1>3, SubSeqProperties DEF Inner, KeySeqs
<1>5. SubSeq(p, 1, Len(place)) \o SubSeq(p, Len(place) + 1, Len(p)) = SubSeq(p, 1, Len(p))
  <2>1. 1 \in 1 .. Len(p) + 1 /\ Len(place) \in 1 - 1 .. Len(p) /\ Len(p) \in Len(place) .. Len(p)
    BY <1>1
  <2> QED
    BY <2>1, ConcatAdjacentSubSeq DEF KeySeqs
<1> QED
  BY <1>2, <1>4, <1>5, SubSeqFull DEF Inner, KeySeqs

LEMMA InnerIsPath ==
  ASSUME NEW place \in KeySeqs, NEW p \in KeySeqs
  PROVE  Inner(place, p) \in KeySeqs
<1>1. Len(place) \in Nat /\ Len(p) \in Nat /\ \A i \in Len(place) + 1 .. Len(p) : p[i] \in Keys
  BY ByKeys
<1> QED
  BY <1>1, SubSeqProperties DEF Inner, KeySeqs

\* The value at a place has the paths that lead on from there.
LEMMA UnderIs ==
  ASSUME NEW value, DOMAIN value \subseteq KeySeqs, NEW place \in KeySeqs
  PROVE  /\ DOMAIN Under(value, place) = {r \in KeySeqs : place \o r \in DOMAIN value}
         /\ \A r \in KeySeqs : place \o r \in DOMAIN value => Under(value, place)[r] = value[place \o r]
         /\ Under(value, place) = [r \in {s \in KeySeqs : place \o s \in DOMAIN value} |-> value[place \o r]]
<1> DEFINE A == {s \in {Inner(place, p) : p \in DOMAIN value} : place \o s \in DOMAIN value}
           B == {s \in KeySeqs : place \o s \in DOMAIN value}
<1>1. A \subseteq B
  BY InnerIsPath
<1>2. B \subseteq A
  BY Joined
<1>3. A = B
  BY <1>1, <1>2
<1> HIDE DEF A, B
<1>4. Under(value, place) = [r \in A |-> value[place \o r]]
  BY DEF Under, A
<1> QED
  BY <1>3, <1>4 DEF B

LEMMA FrontOf ==
  ASSUME NEW p \in KeySeqs, p # Root
  PROVE  /\ Front(p) \in KeySeqs /\ Len(p) > 0 /\ Len(Front(p)) = Len(p) - 1
         /\ \A i \in 1 .. Len(p) - 1 : Front(p)[i] = p[i]
         /\ Len(p) = 1 => Front(p) = Root
         /\ Len(p) = 2 => Front(p) = <<p[1]>>
<1>1. Len(p) \in Nat /\ Len(p) # 0 /\ \A i \in 1 .. Len(p) : p[i] \in Keys
  BY ByKeys
<1>2. /\ Front(p) \in KeySeqs /\ Len(Front(p)) = Len(p) - 1
      /\ \A i \in 1 .. Len(p) - 1 : Front(p)[i] = p[i]
  <2>1. \A i \in 1 .. Len(p) - 1 : p[i] \in Keys
    BY <1>1
  <2>2. Len(p) - 1 \in Int /\ 1 \in Int
    BY <1>1
  <2>3. /\ SubSeq(p, 1, Len(p) - 1) \in KeySeqs
        /\ Len(SubSeq(p, 1, Len(p) - 1)) = IF 1 <= Len(p) - 1 THEN Len(p) - 1 - 1 + 1 ELSE 0
        /\ \A i \in 1 .. Len(p) - 1 - 1 + 1 : SubSeq(p, 1, Len(p) - 1)[i] = p[1 + i - 1]
    BY <2>1, <2>2, SubSeqProperties DEF KeySeqs
  <2>4. \A i \in 1 .. Len(p) - 1 : 1 + i - 1 = i
    OBVIOUS
  <2>5. Front(p) = SubSeq(p, 1, Len(p) - 1)
    BY DEF Front
  <2>6. \A n \in Nat : n # 0 => n - 1 - 1 + 1 = n - 1 /\ (~(1 <= n - 1) => n - 1 = 0)
    OBVIOUS
  <2> QED
    BY <1>1, <2>3, <2>4, <2>5, <2>6
<1>3. Len(p) = 1 => Front(p) = Root
  BY <1>2, ByKeys
<1>4. Len(p) = 2 => Front(p) = <<p[1]>>
  <2>1. Len(p) = 2 => 1 \in 1 .. Len(p) - 1 /\ 1 \in 1 .. Len(p) /\ Len(Front(p)) = 1
    BY <1>2
  <2> QED
    BY <1>1, <1>2, <2>1, ByKeys
<1> QED
  BY <1>1, <1>2, <1>3, <1>4

LEMMA FrontOfJoined ==
  ASSUME NEW place \in KeySeqs, NEW r \in KeySeqs, r # Root
  PROVE  place \o r # Root /\ Front(place \o r) = place \o Front(r)
<1> DEFINE p == place \o r
           q == place \o Front(r)
<1>1. Len(place) \in Nat /\ Len(r) \in Nat /\ Len(r) > 0 /\ Front(r) \in KeySeqs /\ Len(Front(r)) = Len(r) - 1
  BY ByKeys, FrontOf
<1>2. /\ p \in KeySeqs /\ Len(p) = Len(place) + Len(r)
      /\ \A i \in 1 .. Len(place) : p[i] = place[i]
      /\ \A i \in 1 .. Len(r) : p[Len(place) + i] = r[i]
  BY Joined
<1>3. /\ q \in KeySeqs /\ Len(q) = Len(place) + (Len(r) - 1)
      /\ \A i \in 1 .. Len(place) : q[i] = place[i]
      /\ \A i \in 1 .. Len(r) - 1 : q[Len(place) + i] = Front(r)[i]
  <2>1. /\ q \in KeySeqs /\ Len(q) = Len(place) + Len(Front(r))
        /\ \A i \in 1 .. Len(place) : q[i] = place[i]
        /\ \A i \in 1 .. Len(Front(r)) : q[Len(place) + i] = Front(r)[i]
    BY <1>1, Joined
  <2> QED
    BY <1>1, <2>1
<1> HIDE DEF p, q
<1>4. p # Root
  BY <1>1, <1>2, RootIsPath
<1>5. /\ Front(p) \in KeySeqs /\ Len(Front(p)) = Len(p) - 1
      /\ \A i \in 1 .. Len(p) - 1 : Front(p)[i] = p[i]
  BY <1>2, <1>4, FrontOf
<1>6. ASSUME NEW i \in 1 .. Len(p) - 1 PROVE Front(p)[i] = q[i]
  <2>1. CASE i <= Len(place)
    BY <1>1, <1>2, <1>3, <1>5, <2>1
  <2>2. CASE i > Len(place)
    <3>1. PICK k \in 1 .. Len(r) - 1 : i = Len(place) + k
      <4>1. i - Len(place) \in 1 .. Len(r) - 1 /\ i = Len(place) + (i - Len(place))
        BY <1>1, <1>2, <2>2
      <4> QED
        BY <4>1
    <3>2. k \in 1 .. Len(r) /\ Front(r)[k] = r[k]
      BY <1>1, FrontOf
    <3> QED
      BY <1>2, <1>3, <1>5, <3>1, <3>2
  <2> QED
    BY <1>1, <2>1, <2>2
<1>7. Front(p) = q
  BY <1>1, <1>2, <1>3, <1>5, <1>6, SeqEqual DEF KeySeqs
<1> QED
  BY <1>4, <1>7 DEF p, q

LEMMA UnderIsClosed ==
  ASSUME NEW value, IsTree(value), Closed(value), NEW place \in DOMAIN value
  PROVE  Closed(Under(value, place))
<1>1. place \in KeySeqs
  BY DEF IsTree
<1>2. DOMAIN Under(value, place) = {r \in KeySeqs : place \o r \in DOMAIN value}
  BY <1>1, UnderIs DEF IsTree
<1>3. SUFFICES ASSUME NEW r \in KeySeqs, r # Root, place \o r \in DOMAIN value
               PROVE  Front(r) \in KeySeqs /\ place \o Front(r) \in DOMAIN value
  BY <1>2 DEF Closed
<1>4. place \o r # Root /\ Front(place \o r) = place \o Front(r) /\ Front(r) \in KeySeqs
  BY <1>1, <1>3, FrontOf, FrontOfJoined
<1> QED
  BY <1>3, <1>4 DEF Closed

LEMMA UnderIsTree ==
  ASSUME NEW value, IsTree(value), NEW place \in DOMAIN value
  PROVE  IsTree(Under(value, place))
<1> DEFINE leg == Under(value, place)
<1>1. place \in KeySeqs /\ place \o Root = place /\ Root \in KeySeqs
  BY ConcatEmptySeq, RootIsPath DEF IsTree, KeySeqs, Root
<1>2. /\ DOMAIN leg = {r \in KeySeqs : place \o r \in DOMAIN value}
      /\ leg = [r \in {s \in KeySeqs : place \o s \in DOMAIN value} |-> value[place \o r]]
  BY <1>1, UnderIs DEF IsTree
<1>3. \A p \in DOMAIN value : value[p] \in Nodes
  BY DEF IsTree
<1> HIDE DEF leg
<1>4. leg \in [DOMAIN leg -> Nodes]
  BY <1>2, <1>3
<1> QED
  BY <1>1, <1>2, <1>4 DEF IsTree, leg

\* The names of the fields are keys, and none is another.
LEMMA KeysAre ==
  /\ "order" \in Keys /\ "orders" \in Keys /\ "last_fire" \in Keys
  /\ "id" \in Keys /\ "state_reason" \in Keys /\ "attempt" \in Keys /\ "sequence" \in Keys
  /\ "order" # "orders" /\ {"order", "orders"} \cap Forbidden = {}
  /\ ViewFields \cap Forbidden = {} /\ LastFireFields \cap Forbidden = {}
<1>1. /\ "order" \in Keys /\ "orders" \in Keys /\ "last_fire" \in Keys
      /\ "id" \in Keys /\ "state_reason" \in Keys /\ "attempt" \in Keys /\ "sequence" \in Keys
  BY KeeperRedactionAssumption DEF ViewFields, LastFireFields
<1>2. /\ "order" # "orders" /\ {"order", "orders"} \cap Forbidden = {}
      /\ ViewFields \cap Forbidden = {} /\ LastFireFields \cap Forbidden = {}
  BY DEF Forbidden, ViewFields, LastFireFields
<1> QED
  BY <1>1, <1>2

\* The places of legs are apart from each other, and none is above the root or the list.
LEMMA PlacesAre ==
  ASSUME NEW value, IsTree(value), NEW place \in LegPlaces(value)
  PROVE  /\ place \in DOMAIN value /\ place \in KeySeqs /\ value[Root] = "object"
         /\ \/ place = <<"order">> /\ Len(place) = 1 /\ place[1] = "order"
            \/ Len(place) = 2 /\ place[1] = "orders" /\ value[<<"orders">>] = "list" /\ place[2] \in Keys
<1>1. place \in DOMAIN value /\ place \in KeySeqs /\ value[Root] = "object"
  BY DEF LegPlaces, IsTree
<1>2. CASE place = <<"order">>
  BY <1>1, <1>2, KeyPaths, KeysAre
<1>3. CASE Len(place) = 2 /\ place[1] = "orders" /\ value[<<"orders">>] = "list"
  <2>1. 2 \in 1 .. Len(place)
    BY <1>3
  <2> QED
    BY <1>1, <1>3, <2>1, ByKeys
<1> QED
  BY <1>1, <1>2, <1>3 DEF LegPlaces

LEMMA OneLeg ==
  ASSUME NEW value, IsTree(value), NEW p \in DOMAIN value, NEW place \in LegPlaces(value), IsPrefix(place, p)
  PROVE  LegOf(value, p) = {place}
<1>1. SUFFICES ASSUME NEW other \in LegPlaces(value), IsPrefix(other, p) PROVE other = place
  BY DEF LegOf
<1>2. p \in KeySeqs /\ place \in KeySeqs /\ other \in KeySeqs
  BY PlacesAre DEF IsTree
<1>3. p = place \o Inner(place, p) /\ Inner(place, p) \in KeySeqs /\ p = other \o Inner(other, p) /\ Inner(other, p) \in KeySeqs
  BY <1>1, <1>2, Parted
<1>4. /\ \A i \in 1 .. Len(place) : p[i] = place[i]
      /\ \A i \in 1 .. Len(other) : p[i] = other[i]
  <2>1. PICK r \in KeySeqs : p = place \o r
    BY <1>3
  <2>2. PICK t \in KeySeqs : p = other \o t
    BY <1>3
  <2>3. \A i \in 1 .. Len(place) : (place \o r)[i] = place[i]
    BY <1>2, Joined
  <2>4. \A i \in 1 .. Len(other) : (other \o t)[i] = other[i]
    BY <1>2, Joined
  <2> QED
    BY <2>1, <2>2, <2>3, <2>4
<1>5. CASE place = <<"order">> /\ Len(place) = 1 /\ place[1] = "order"
  <2>1. Len(other) \in {1, 2} /\ (Len(other) = 2 => other[1] = "orders") /\ (Len(other) = 1 => other = <<"order">>)
    BY PlacesAre, <1>1
  <2>2. other[1] = place[1]
    <3>1. 1 \in 1 .. Len(place) /\ 1 \in 1 .. Len(other)
      BY <1>5, <2>1
    <3> QED
      BY <3>1, <1>4
  <2> QED
    BY <1>5, <2>1, <2>2, KeysAre
<1>6. CASE Len(place) = 2 /\ place[1] = "orders" /\ place[2] \in Keys
  <2>1. Len(other) \in {1, 2} /\ (Len(other) = 1 => other[1] = "order") /\ (Len(other) = 2 => other[1] = "orders")
    BY PlacesAre, <1>1
  <2>2. 1 \in 1 .. Len(place) /\ 2 \in 1 .. Len(place) /\ 1 \in 1 .. Len(other)
    BY <1>6, <2>1
  <2>3. other[1] = place[1]
    BY <2>2, <1>4
  <2>4. Len(other) = 2
    BY <1>6, <2>1, <2>3, KeysAre
  <2>5. 2 \in 1 .. Len(other) /\ other[2] = place[2]
    BY <2>2, <2>4, <1>4
  <2> QED
    BY <1>2, <1>6, <2>3, <2>4, <2>5, ByKeys, KeysAre
<1> QED
  BY <1>5, <1>6, PlacesAre

\* The root and the list of legs are in no leg.
LEMMA AboveLegs ==
  ASSUME NEW value, IsTree(value)
  PROVE  LegOf(value, Root) = {} /\ LegOf(value, <<"orders">>) = {}
<1>1. SUFFICES ASSUME NEW place \in LegPlaces(value) PROVE ~IsPrefix(place, Root) /\ ~IsPrefix(place, <<"orders">>)
  BY DEF LegOf
<1>2. <<"orders">> \in KeySeqs /\ Len(<<"orders">>) = 1 /\ <<"orders">>[1] = "orders"
  BY KeyPaths, KeysAre DEF KeySeqs
<1>3. place \in KeySeqs /\ Len(place) \in {1, 2} /\ (Len(place) = 1 => place[1] = "order")
  BY PlacesAre
<1>4. ~IsPrefix(place, Root)
  BY <1>3, RootIsPath DEF IsPrefix
<1>5. ASSUME IsPrefix(place, <<"orders">>) PROVE FALSE
  <2>1. Len(place) = 1
    BY <1>2, <1>3, <1>5 DEF IsPrefix
  <2>2. PICK r \in KeySeqs : <<"orders">> = place \o r
    BY <1>2, <1>3, <1>5, Parted
  <2>3. 1 \in 1 .. Len(place)
    BY <2>1
  <2>4. (place \o r)[1] = place[1]
    BY <1>3, <2>3, Joined
  <2> QED
    BY <1>2, <1>3, <2>1, <2>2, <2>4, KeysAre
<1> QED
  BY <1>4, <1>5

\* The paths of a leg that anything may be shown at, but for its root.
InView(p, node) ==
  \/ Len(p) = 1 /\ p[1] \in ViewFields /\ (p[1] = "last_fire" \/ node \in Scalars)
  \/ Len(p) = 2 /\ p[1] = "last_fire" /\ p[2] \in LastFireFields /\ node \in Scalars

\* The view of a leg is a tree with the fields of the view, and its own view.
LEMMA WhitelistIs ==
  ASSUME NEW leg, IsTree(leg), Closed(leg)
  PROVE  /\ IsTree(Whitelist(leg)) /\ DOMAIN Whitelist(leg) \subseteq DOMAIN leg
         /\ \A p \in DOMAIN Whitelist(leg) \ {Root} : InView(p, Whitelist(leg)[p])
         /\ Whitelist(leg) = NullValue <=> leg[Root] # "object"
         /\ leg[Root] = "object" => Whitelist(leg) = View(leg) /\ View(leg)[Root] = "object"
         /\ Whitelist(Whitelist(leg)) = Whitelist(leg)
<1> DEFINE null == NullValue
           view == View(leg)
<1>1. DOMAIN null = {Root} /\ null[Root] = "null" /\ null \in [DOMAIN null -> Nodes]
  BY DEF NullValue, Nodes, Scalars
<1>2. Root # <<"last_fire">> /\ <<"last_fire">> \in KeySeqs /\ Len(<<"last_fire">>) = 1 /\ <<"last_fire">>[1] = "last_fire"
  BY KeyPaths, KeysAre, RootIsPath DEF KeySeqs
<1>3. CASE leg[Root] # "object"
  <2>1. Whitelist(leg) = null
    BY <1>3 DEF Whitelist
  <2>2. Whitelist(null) = null
    BY <1>1 DEF Whitelist
  <2> HIDE DEF null
  <2> QED
    BY <1>1, <1>3, <2>1, <2>2, RootIsPath DEF IsTree, null
<1>4. CASE leg[Root] = "object"
  <2>1. Whitelist(leg) = view
    BY <1>4 DEF Whitelist
  <2>2. DOMAIN view = Shown(leg) /\ Shown(leg) \subseteq DOMAIN leg /\ Root \in Shown(leg)
    BY DEF View, Shown, IsTree
  <2>3. \A p \in Shown(leg) : view[p] = IF p = <<"last_fire">> /\ leg[p] # "object" THEN "null" ELSE leg[p]
    BY DEF View
  <2>4. view[Root] = "object"
    BY <1>2, <1>4, <2>2, <2>3
  <2>5. view \in [DOMAIN view -> Nodes]
    <3>1. \A p \in Shown(leg) : view[p] \in Nodes
      BY <2>2, <2>3 DEF IsTree, Nodes, Scalars
    <3>2. view = [p \in Shown(leg) |-> view[p]]
      BY DEF View
    <3> HIDE DEF view
    <3> QED
      BY <2>2, <3>1, <3>2
  <2>6. IsTree(view)
    BY <2>2, <2>5 DEF IsTree
  <2>7. ASSUME NEW p \in Shown(leg), p # Root PROVE InView(p, view[p])
    <3>1. CASE p = <<"last_fire">>
      BY <3>1, <1>2 DEF InView, ViewFields
    <3>2. CASE p # <<"last_fire">>
      BY <2>3, <2>7, <3>2 DEF InView, Shown
    <3> QED
      BY <3>1, <3>2
  <2>8. Shown(view) = Shown(leg)
    <3>1. Shown(view) \subseteq Shown(leg)
      BY <2>2 DEF Shown
    <3>2. ASSUME NEW p \in Shown(leg) PROVE p \in Shown(view)
      <4>1. p \in DOMAIN view
        BY <2>2
      <4>2. CASE p \in {Root, <<"last_fire">>}
        BY <4>1, <4>2 DEF Shown
      <4>3. CASE p \notin {Root, <<"last_fire">>} /\ Len(p) = 1 /\ p[1] \in ViewFields /\ leg[p] \in Scalars
        BY <4>1, <4>3, <2>3 DEF Shown
      <4>4. CASE /\ p \notin {Root, <<"last_fire">>}
                 /\ Len(p) = 2 /\ p[1] = "last_fire" /\ leg[<<"last_fire">>] = "object"
                 /\ p[2] \in LastFireFields /\ leg[p] \in Scalars
        <5>1. view[p] \in Scalars
          BY <4>4, <2>3
        <5>2. p \in KeySeqs /\ p # Root /\ Front(p) = <<"last_fire">>
          BY <4>4, <2>2, FrontOf DEF IsTree
        <5>3. <<"last_fire">> \in Shown(leg)
          BY <2>2, <5>2 DEF Closed, Shown
        <5>4. view[<<"last_fire">>] = "object"
          BY <4>4, <5>3, <2>3
        <5> QED
          BY <4>1, <4>4, <5>1, <5>4 DEF Shown
      <4> QED
        BY <4>2, <4>3, <4>4 DEF Shown
    <3> QED
      BY <3>1, <3>2
  <2>9. View(view) = view
    <3>1. View(view) = [p \in Shown(leg) |-> IF p = <<"last_fire">> /\ view[p] # "object" THEN "null" ELSE view[p]]
      BY <2>8 DEF View
    <3>2. \A p \in Shown(leg) : (IF p = <<"last_fire">> /\ view[p] # "object" THEN "null" ELSE view[p]) = view[p]
      BY <2>3
    <3>3. view = [p \in Shown(leg) |-> view[p]]
      BY DEF View
    <3> HIDE DEF view
    <3> QED
      BY <3>1, <3>2, <3>3
  <2>10. Whitelist(view) = view /\ view # null
    BY <1>1, <2>4, <2>9 DEF Whitelist
  <2> HIDE DEF null, view
  <2> QED
    BY <1>4, <2>1, <2>2, <2>4, <2>6, <2>7, <2>10 DEF null, view
<1> QED
  BY <1>3, <1>4

\* The leg at a place as redaction leaves it, and whether it leaves one.
LegAt(value, place) == Whitelist(Under(value, place))
Stays(value, place) == place = <<"order">> \/ LegAt(value, place) # NullValue

\* What WithLegs does to what is in no leg and to what is in one.
LEMMA WithLegsIs ==
  ASSUME NEW value, IsTree(value), Closed(value)
  PROVE  /\ IsTree(WithLegs(value)) /\ DOMAIN WithLegs(value) \subseteq DOMAIN value
         /\ \A p \in DOMAIN value : LegOf(value, p) = {} => p \in DOMAIN WithLegs(value) /\ WithLegs(value)[p] = value[p]
         /\ \A place \in LegPlaces(value) : \A r \in KeySeqs :
              /\ place \o r \in DOMAIN WithLegs(value) <=> Stays(value, place) /\ r \in DOMAIN LegAt(value, place)
              /\ place \o r \in DOMAIN WithLegs(value) => WithLegs(value)[place \o r] = LegAt(value, place)[r]
         /\ LegPlaces(WithLegs(value)) = {place \in LegPlaces(value) : Stays(value, place)}
<1> DEFINE W == WithLegs(value)
           kept == {p \in DOMAIN value : \A place \in LegOf(value, p) :
                      Inner(place, p) \in DOMAIN LegAt(value, place) /\ Stays(value, place)}
           Node(p) == IF LegOf(value, p) = {} THEN value[p]
                      ELSE LET place == CHOOSE q \in LegOf(value, p) : TRUE
                           IN LegAt(value, place)[Inner(place, p)]
<1>1. W = [p \in kept |-> Node(p)]
  BY DEF WithLegs, LegAt, Stays
<1>2. DOMAIN W = kept /\ \A p \in kept : W[p] = Node(p)
  BY <1>1
<1>3. DOMAIN W \subseteq DOMAIN value /\ DOMAIN value \subseteq KeySeqs
  BY <1>2 DEF IsTree
<1>4. ASSUME NEW p \in DOMAIN value, LegOf(value, p) = {} PROVE p \in DOMAIN W /\ W[p] = value[p]
  BY <1>2, <1>4
<1>5. ASSUME NEW place \in LegPlaces(value)
      PROVE  /\ place \in KeySeqs /\ place \in DOMAIN value /\ IsTree(Under(value, place)) /\ IsTree(LegAt(value, place))
             /\ \A r \in DOMAIN LegAt(value, place) : r \in KeySeqs /\ place \o r \in DOMAIN value
  <2>1. place \in KeySeqs /\ place \in DOMAIN value
    BY PlacesAre
  <2>2. /\ IsTree(Under(value, place)) /\ Closed(Under(value, place))
        /\ DOMAIN Under(value, place) = {r \in KeySeqs : place \o r \in DOMAIN value}
    BY <2>1, UnderIsTree, UnderIsClosed, UnderIs DEF IsTree
  <2>3. IsTree(LegAt(value, place)) /\ DOMAIN LegAt(value, place) \subseteq DOMAIN Under(value, place)
    BY <2>2, WhitelistIs DEF LegAt
  <2> QED
    BY <2>1, <2>2, <2>3
<1>6. ASSUME NEW place \in LegPlaces(value), NEW r \in KeySeqs, place \o r \in DOMAIN value
      PROVE  LegOf(value, place \o r) = {place} /\ Inner(place, place \o r) = r
  BY <1>5, <1>6, Joined, OneLeg
<1> HIDE DEF W, kept
<1>7. ASSUME NEW place \in LegPlaces(value), NEW r \in KeySeqs
      PROVE  /\ place \o r \in DOMAIN W <=> Stays(value, place) /\ r \in DOMAIN LegAt(value, place)
             /\ place \o r \in DOMAIN W => W[place \o r] = LegAt(value, place)[r]
  <2>1. CASE place \o r \notin DOMAIN value
    BY <1>3, <1>5, <2>1
  <2>2. CASE place \o r \in DOMAIN value
    <3>1. LegOf(value, place \o r) = {place} /\ Inner(place, place \o r) = r
      BY <1>6, <2>2
    <3>2. place \o r \in kept <=> Stays(value, place) /\ r \in DOMAIN LegAt(value, place)
      BY <2>2, <3>1 DEF kept
    <3>3. Node(place \o r) = LegAt(value, place)[r]
      <4>1. (CHOOSE q \in LegOf(value, place \o r) : TRUE) = place
        BY <3>1
      <4> QED
        BY <3>1, <4>1
    <3> HIDE DEF Node
    <3> QED
      BY <1>2, <3>2, <3>3
  <2> QED
    BY <2>1, <2>2
<1>8. \A p \in kept : Node(p) \in Nodes
  <2>1. SUFFICES ASSUME NEW p \in kept PROVE Node(p) \in Nodes
    OBVIOUS
  <2>2. CASE LegOf(value, p) = {}
    BY <2>2 DEF IsTree, kept
  <2>3. CASE LegOf(value, p) # {}
    <3>1. PICK place \in LegPlaces(value) : IsPrefix(place, p)
      BY <2>3 DEF LegOf
    <3>2. LegOf(value, p) = {place}
      BY <3>1, OneLeg DEF kept
    <3>3. Node(p) = LegAt(value, place)[Inner(place, p)] /\ Inner(place, p) \in DOMAIN LegAt(value, place)
      BY <3>2 DEF kept
    <3> QED
      BY <1>5, <3>3 DEF IsTree
  <2> QED
    BY <2>2, <2>3
<1>9. Root \in kept
  BY AboveLegs DEF kept, IsTree
<1>10. IsTree(W)
  <2> HIDE DEF Node
  <2>1. W \in [DOMAIN W -> Nodes]
    BY <1>1, <1>2, <1>8
  <2> QED
    BY <1>2, <1>3, <1>9, <2>1 DEF IsTree
<1>11. W[Root] = value[Root] /\ (<<"orders">> \in DOMAIN value => W[<<"orders">>] = value[<<"orders">>])
  BY <1>4, AboveLegs DEF IsTree
<1>a. ASSUME NEW p \in DOMAIN value, Len(p) = 2, p[1] = "orders" PROVE W[<<"orders">>] = value[<<"orders">>]
  <2>1. p \in KeySeqs /\ p # Root
    <3>1. p \in KeySeqs
      BY DEF IsTree
    <3>2. Len(p) # Len(Root)
      BY <1>a, RootIsPath
    <3> QED
      BY <3>1, <3>2
  <2>2. <<"orders">> \in DOMAIN value
    BY <1>a, <2>1, FrontOf DEF Closed
  <2> QED
    BY <2>2, <1>11
<1>12. ASSUME NEW place \in LegPlaces(value) PROVE place \in LegPlaces(W) <=> Stays(value, place)
  <2>1. place \o Root = place /\ Root \in DOMAIN LegAt(value, place) /\ Root \in KeySeqs
    BY <1>5, ConcatEmptySeq, RootIsPath DEF IsTree, KeySeqs, Root
  <2>2. place \in DOMAIN W <=> Stays(value, place)
    BY <2>1, <1>7
  <2>3. Len(place) = 2 => W[<<"orders">>] = value[<<"orders">>]
    BY <1>a, PlacesAre, KeysAre
  <2>4. W[Root] = "object" /\ (place = <<"order">> \/ (Len(place) = 2 /\ place[1] = "orders" /\ W[<<"orders">>] = "list"))
    <3>1. /\ value[Root] = "object"
          /\ place = <<"order">> \/ (Len(place) = 2 /\ place[1] = "orders" /\ value[<<"orders">>] = "list")
      BY PlacesAre
    <3> QED
      BY <1>11, <2>3, <3>1
  <2> QED
    BY <2>2, <2>4 DEF LegPlaces
<1>13. ASSUME NEW place \in LegPlaces(W) PROVE place \in LegPlaces(value)
  <2>1. place \in DOMAIN value /\ value[Root] = "object"
    BY <1>3, <1>11 DEF LegPlaces
  <2>2. CASE place = <<"order">>
    BY <2>1, <2>2 DEF LegPlaces
  <2>3. CASE Len(place) = 2 /\ place[1] = "orders" /\ W[<<"orders">>] = "list"
    BY <2>1, <2>3, <1>a DEF LegPlaces
  <2> QED
    BY <2>2, <2>3 DEF LegPlaces
<1> QED
  BY <1>3, <1>4, <1>7, <1>10, <1>12, <1>13 DEF W

LEMMA JsonIsTree ==
  ASSUME NEW value, IsJson(value)
  PROVE  IsTree(value) /\ Closed(value)
BY DEF IsJson, IsTree, Closed, Nodes, KeySeqs

LEMMA StripIs ==
  ASSUME NEW value, IsTree(value), Closed(value)
  PROVE  /\ IsTree(Strip(value)) /\ Closed(Strip(value))
         /\ DOMAIN Strip(value) = {p \in DOMAIN value : Len(p) <= MaxDepth + 1 /\ \A i \in DOMAIN p : p[i] \notin Forbidden}
         /\ \A p \in DOMAIN Strip(value) : Strip(value)[p] = IF Len(p) > MaxDepth THEN "null" ELSE value[p]
<1> DEFINE s == Strip(value)
           D == {p \in DOMAIN value : Len(p) <= MaxDepth + 1 /\ \A i \in DOMAIN p : p[i] \notin Forbidden}
<1>1. MaxDepth \in Nat /\ DOMAIN value \subseteq KeySeqs /\ Root \in DOMAIN value /\ \A p \in DOMAIN value : value[p] \in Nodes
  BY KeeperRedactionAssumption DEF IsTree
<1>2. DOMAIN s = D /\ \A p \in D : s[p] = IF Len(p) > MaxDepth THEN "null" ELSE value[p]
  BY DEF Strip
<1>3. s \in [DOMAIN s -> Nodes]
  <2>1. s = [p \in D |-> s[p]]
    BY DEF Strip
  <2>2. \A p \in D : s[p] \in Nodes
    BY <1>1, <1>2 DEF Nodes, Scalars
  <2> HIDE DEF s, D
  <2> QED
    BY <1>2, <2>1, <2>2
<1>4. Root \in D
  BY <1>1, RootIsPath, ByKeys
<1>5. ASSUME NEW p \in D, p # Root PROVE Front(p) \in D
  <2>1. p \in KeySeqs /\ Front(p) \in KeySeqs /\ Front(p) \in DOMAIN value
    BY <1>1, <1>5, FrontOf DEF Closed
  <2>2. /\ Len(p) \in Nat /\ Len(Front(p)) = Len(p) - 1 /\ DOMAIN p = 1 .. Len(p) /\ DOMAIN Front(p) = 1 .. Len(Front(p))
        /\ \A i \in 1 .. Len(p) - 1 : Front(p)[i] = p[i]
    BY <1>5, <2>1, ByKeys, FrontOf
  <2>3. Len(Front(p)) <= MaxDepth + 1
    BY <1>1, <2>2
  <2>4. \A i \in DOMAIN Front(p) : Front(p)[i] \notin Forbidden
    BY <2>2
  <2> QED
    BY <2>1, <2>3, <2>4
<1> HIDE DEF s, D
<1>6. D \subseteq KeySeqs
  BY <1>1 DEF D
<1>7. IsTree(s) /\ Closed(s)
  BY <1>2, <1>3, <1>4, <1>5, <1>6 DEF IsTree, Closed
<1> QED
  BY <1>2, <1>7 DEF s, D

\* What Redact makes of an answer, part by part.
LEMMA RedactIs ==
  ASSUME NEW value, IsJson(value)
  PROVE  /\ IsTree(Redact(value)) /\ DOMAIN Redact(value) \subseteq DOMAIN Strip(value)
         /\ \A p \in DOMAIN Redact(value) :
              /\ Len(p) <= MaxDepth + 1 /\ \A i \in DOMAIN p : p[i] \notin Forbidden
              /\ Len(p) > MaxDepth => Redact(value)[p] = "null"
         /\ LegPlaces(Redact(value)) = {place \in LegPlaces(Strip(value)) : Stays(Strip(value), place)}
         /\ \A place \in LegPlaces(Redact(value)) :
              /\ Under(Redact(value), place) = LegAt(Strip(value), place)
              /\ IsTree(Under(Strip(value), place)) /\ Closed(Under(Strip(value), place))
<1> DEFINE s == Strip(value)
           W == WithLegs(s)
<1>1. /\ IsTree(s) /\ Closed(s) /\ MaxDepth \in Nat /\ MaxDepth >= 4
      /\ \A p \in DOMAIN s : /\ Len(p) <= MaxDepth + 1 /\ \A i \in DOMAIN p : p[i] \notin Forbidden
                             /\ Len(p) > MaxDepth => s[p] = "null"
  <2>1. IsTree(value) /\ Closed(value)
    BY JsonIsTree
  <2> QED
    BY <2>1, StripIs, KeeperRedactionAssumption
<1> HIDE DEF s
<1>2. /\ IsTree(W) /\ DOMAIN W \subseteq DOMAIN s
      /\ \A p \in DOMAIN s : LegOf(s, p) = {} => p \in DOMAIN W /\ W[p] = s[p]
      /\ \A place \in LegPlaces(s) : \A r \in KeySeqs :
           /\ place \o r \in DOMAIN W <=> Stays(s, place) /\ r \in DOMAIN LegAt(s, place)
           /\ place \o r \in DOMAIN W => W[place \o r] = LegAt(s, place)[r]
      /\ LegPlaces(W) = {place \in LegPlaces(s) : Stays(s, place)}
  BY <1>1, WithLegsIs
<1> HIDE DEF W
<1>3. ASSUME NEW place \in LegPlaces(s)
      PROVE  /\ place \in KeySeqs /\ IsTree(Under(s, place)) /\ Closed(Under(s, place)) /\ IsTree(LegAt(s, place))
             /\ \A p \in DOMAIN LegAt(s, place) \ {Root} : InView(p, LegAt(s, place)[p])
  <2>1. place \in KeySeqs /\ place \in DOMAIN s
    BY <1>1, PlacesAre
  <2>2. IsTree(Under(s, place)) /\ Closed(Under(s, place))
    BY <1>1, <2>1, UnderIsTree, UnderIsClosed
  <2> QED
    BY <2>1, <2>2, WhitelistIs DEF LegAt
<1>4. ASSUME NEW p \in DOMAIN W, Len(p) > MaxDepth PROVE W[p] = "null"
  <2>1. CASE LegOf(s, p) = {}
    BY <1>1, <1>2, <1>4, <2>1
  <2>2. CASE LegOf(s, p) # {}
    <3>1. PICK place \in LegPlaces(s) : IsPrefix(place, p)
      BY <2>2 DEF LegOf
    <3>2. PICK r \in KeySeqs : p = place \o r
      BY <1>2, <1>3, <3>1, Parted DEF IsTree
    <3>3. r \in DOMAIN LegAt(s, place) /\ Len(p) = Len(place) + Len(r)
      BY <1>2, <1>3, <1>4, <3>2, Joined
    <3>4. Len(r) <= 2
      <4>1. r = Root \/ InView(r, LegAt(s, place)[r])
        BY <1>3, <3>3
      <4>2. Len(r) \in {0, 1, 2}
        BY <4>1, RootIsPath DEF InView
      <4>3. \A n \in {0, 1, 2} : n <= 2
        OBVIOUS
      <4> QED
        BY <4>2, <4>3
    <3>5. Len(place) <= 2 /\ Len(place) \in Nat /\ Len(r) \in Nat
      <4>1. Len(place) \in {1, 2}
        BY <1>1, PlacesAre
      <4>2. \A n \in {1, 2} : n <= 2 /\ n \in Nat
        OBVIOUS
      <4>3. Len(r) \in Nat
        BY <3>2, ByKeys
      <4> QED
        BY <4>1, <4>2, <4>3
    <3> QED
      BY <1>1, <1>4, <3>3, <3>4, <3>5
  <2> QED
    BY <2>1, <2>2
<1>5. ASSUME NEW place \in LegPlaces(W) PROVE Under(W, place) = LegAt(s, place)
  <2>1. place \in LegPlaces(s) /\ Stays(s, place) /\ place \in KeySeqs
    BY <1>2, <1>3
  <2>2. {r \in KeySeqs : place \o r \in DOMAIN W} = DOMAIN LegAt(s, place)
    BY <1>2, <1>3, <2>1 DEF IsTree
  <2>3. \A r \in DOMAIN LegAt(s, place) : W[place \o r] = LegAt(s, place)[r]
    BY <1>2, <2>1, <2>2
  <2>4. Under(W, place) = [r \in DOMAIN LegAt(s, place) |-> W[place \o r]]
    <3>1. DOMAIN W \subseteq KeySeqs
      BY <1>2 DEF IsTree
    <3>2. Under(W, place) = [r \in {t \in KeySeqs : place \o t \in DOMAIN W} |-> W[place \o r]]
      BY <2>1, <3>1, UnderIs
    <3> QED
      BY <2>2, <3>2
  <2>5. LegAt(s, place) = [r \in DOMAIN LegAt(s, place) |-> LegAt(s, place)[r]]
    BY <1>3, <2>1 DEF IsTree
  <2> QED
    BY <2>3, <2>4, <2>5
<1> QED
  BY <1>1, <1>2, <1>3, <1>4, <1>5 DEF s, W, Redact

\* Redacting what was redacted changes nothing.
LEMMA RedactedTwice ==
  ASSUME NEW value, IsJson(value)
  PROVE  Redact(Redact(value)) = Redact(value)
<1>1. PICK s : s = Strip(value)
  OBVIOUS
<1>2. PICK W : W = Redact(value)
  OBVIOUS
<1>3. /\ IsTree(W)
      /\ \A p \in DOMAIN W : /\ Len(p) <= MaxDepth + 1 /\ \A i \in DOMAIN p : p[i] \notin Forbidden
                             /\ Len(p) > MaxDepth => W[p] = "null"
      /\ LegPlaces(W) = {place \in LegPlaces(s) : Stays(s, place)}
      /\ \A place \in LegPlaces(W) : Under(W, place) = LegAt(s, place) /\ IsTree(Under(s, place)) /\ Closed(Under(s, place))
  BY <1>1, <1>2, RedactIs
<1>4. W = [p \in DOMAIN W |-> W[p]]
  BY <1>3 DEF IsTree
<1>5. Strip(W) = W
  <2>1. Strip(W) = [p \in DOMAIN W |-> IF Len(p) > MaxDepth THEN "null" ELSE W[p]]
    BY <1>3 DEF Strip
  <2>2. \A p \in DOMAIN W : (IF Len(p) > MaxDepth THEN "null" ELSE W[p]) = W[p]
    BY <1>3
  <2> QED
    BY <1>4, <2>1, <2>2
<1>6. ASSUME NEW place \in LegPlaces(W)
      PROVE  /\ Whitelist(Under(W, place)) = Under(W, place)
             /\ place = <<"order">> \/ Whitelist(Under(W, place)) # NullValue
             /\ place \in KeySeqs
  <2>1. Under(W, place) = LegAt(s, place) /\ IsTree(Under(s, place)) /\ Closed(Under(s, place)) /\ Stays(s, place)
    BY <1>3
  <2>2. Whitelist(LegAt(s, place)) = LegAt(s, place)
    BY <2>1, WhitelistIs DEF LegAt
  <2> QED
    BY <1>3, <2>1, <2>2, PlacesAre DEF Stays
<1>7. ASSUME NEW p \in DOMAIN W, NEW place \in LegOf(W, p)
      PROVE  /\ place \in LegPlaces(W) /\ LegOf(W, p) = {place}
             /\ Inner(place, p) \in DOMAIN Under(W, place) /\ Under(W, place)[Inner(place, p)] = W[p]
  <2>1. place \in LegPlaces(W) /\ IsPrefix(place, p) /\ place \in KeySeqs /\ p \in KeySeqs
    BY <1>3, <1>6 DEF LegOf, IsTree
  <2>2. Inner(place, p) \in KeySeqs /\ place \o Inner(place, p) = p
    BY <2>1, Parted
  <2> QED
    <3>1. DOMAIN W \subseteq KeySeqs
      BY <1>3 DEF IsTree
    <3>2. Inner(place, p) \in DOMAIN Under(W, place) /\ Under(W, place)[Inner(place, p)] = W[place \o Inner(place, p)]
      <4>1. PICK r \in KeySeqs : r = Inner(place, p) /\ place \o r = p
        BY <2>2
      <4>2. DOMAIN Under(W, place) = {t \in KeySeqs : place \o t \in DOMAIN W}
        BY <2>1, <3>1, UnderIs
      <4>3. Under(W, place)[r] = W[place \o r]
        BY <2>1, <3>1, <4>1, UnderIs
      <4> QED
        BY <4>1, <4>2, <4>3
    <3>3. LegOf(W, p) = {place}
      BY <1>3, <2>1, OneLeg
    <3> QED
      BY <2>1, <2>2, <3>2, <3>3
<1>8. WithLegs(W) = W
  <2> DEFINE kept == {p \in DOMAIN W : \A place \in LegOf(W, p) :
                        Inner(place, p) \in DOMAIN LegAt(W, place) /\ Stays(W, place)}
             Node(p) == IF LegOf(W, p) = {} THEN W[p]
                        ELSE LET place == CHOOSE q \in LegOf(W, p) : TRUE
                             IN LegAt(W, place)[Inner(place, p)]
  <2>1. WithLegs(W) = [p \in kept |-> Node(p)]
    BY DEF WithLegs, LegAt, Stays
  <2>2. kept = DOMAIN W
    <3>1. ASSUME NEW p \in DOMAIN W, NEW place \in LegOf(W, p)
          PROVE  Inner(place, p) \in DOMAIN LegAt(W, place) /\ Stays(W, place)
      BY <1>6, <1>7 DEF LegAt, Stays
    <3> QED
      BY <3>1
  <2>3. ASSUME NEW p \in DOMAIN W PROVE Node(p) = W[p]
    <3>1. CASE LegOf(W, p) = {}
      BY <3>1
    <3>2. CASE LegOf(W, p) # {}
      <4>1. PICK place : place \in LegOf(W, p)
        BY <3>2
      <4>2. (CHOOSE q \in LegOf(W, p) : TRUE) = place
        BY <1>7, <4>1
      <4>3. Node(p) = LegAt(W, place)[Inner(place, p)]
        BY <3>2, <4>2
      <4> QED
        BY <1>6, <1>7, <4>1, <4>3 DEF LegAt
    <3> QED
      BY <3>1, <3>2
  <2> HIDE DEF kept, Node
  <2> QED
    BY <1>4, <2>1, <2>2, <2>3
<1> QED
  BY <1>2, <1>5, <1>8 DEF Redact

\* What NothingForbidden says of a redacted answer.
Clean(value) ==
  /\ \A p \in DOMAIN value : \A i \in DOMAIN p : p[i] \notin Forbidden
  /\ \A place \in LegPlaces(value) : \A p \in DOMAIN Under(value, place) \ {Root} : InView(p, Under(value, place)[p])

LEMMA RedactedIsClean ==
  ASSUME NEW value, IsJson(value)
  PROVE  Clean(Redact(value))
<1>1. ASSUME NEW place \in LegPlaces(Redact(value)), NEW p \in DOMAIN Under(Redact(value), place) \ {Root}
      PROVE  InView(p, Under(Redact(value), place)[p])
  BY <1>1, RedactIs, WhitelistIs DEF LegAt
<1> QED
  BY <1>1, RedactIs DEF Clean

\* The paths that a leg view may have.
FieldPath(r) ==
  \/ r = Root
  \/ Len(r) = 1 /\ r[1] \in ViewFields
  \/ Len(r) = 2 /\ r[1] = "last_fire" /\ r[2] \in LastFireFields

\* What RedactionHidesNoLeg says of a leg and of the same leg after a redaction.
Retains(leg, same) ==
  LET lacking == {p \in DOMAIN leg : p = <<"last_fire">> /\ leg[p] = "null"}
  IN /\ DOMAIN leg \subseteq DOMAIN same
     /\ \A p \in DOMAIN leg \ lacking : same[p] = leg[p]
     /\ lacking = {} => DOMAIN same = DOMAIN leg

\* The paths of the view of a well-formed leg.
Kept(leg) ==
  {p \in DOMAIN leg :
     \/ p = Root
     \/ Len(p) = 1 /\ p[1] \in ViewFields
     \/ Len(p) = 2 /\ p[1] = "last_fire" /\ p[2] \in LastFireFields /\ FitsLastFire(leg)}

LEMMA SanitizeIs ==
  ASSUME NEW leg, Root \in DOMAIN leg
  PROVE  /\ Sanitize(leg) # NullValue => leg[Root] = "object" /\ Fits(leg, {<<"id">>}, {<<"state_reason">>})
         /\ leg[Root] = "object" /\ Fits(leg, {<<"id">>}, {<<"state_reason">>}) =>
              /\ Sanitize(leg) # NullValue
              /\ DOMAIN Sanitize(leg) = Kept(leg)
              /\ \A p \in Kept(leg) :
                   Sanitize(leg)[p] = IF p = <<"last_fire">> /\ ~FitsLastFire(leg) THEN "null" ELSE leg[p]
<1>1. Sanitize(leg) # NullValue => leg[Root] = "object" /\ Fits(leg, {<<"id">>}, {<<"state_reason">>})
  BY DEF Sanitize
<1>2. ASSUME leg[Root] = "object", Fits(leg, {<<"id">>}, {<<"state_reason">>})
      PROVE  /\ Sanitize(leg) # NullValue
             /\ DOMAIN Sanitize(leg) = Kept(leg)
             /\ \A p \in Kept(leg) :
                   Sanitize(leg)[p] = IF p = <<"last_fire">> /\ ~FitsLastFire(leg) THEN "null" ELSE leg[p]
  <2>1. Sanitize(leg) = [p \in Kept(leg) |-> IF p = <<"last_fire">> /\ ~FitsLastFire(leg) THEN "null" ELSE leg[p]]
    BY <1>2 DEF Sanitize, Kept
  <2>2. Root \in Kept(leg) /\ Root # <<"last_fire">>
    <3>1. Len(<<"last_fire">>) = 1
      BY KeyPaths, KeysAre
    <3> QED
      BY <3>1, RootIsPath DEF Kept
  <2>3. Sanitize(leg)[Root] = "object"
    BY <1>2, <2>1, <2>2
  <2>4. Sanitize(leg) # NullValue
    BY <2>3 DEF NullValue
  <2> QED
    BY <2>1, <2>4
<1> QED
  BY <1>1, <1>2

\* The view of a leg shows the harness what the leg itself would.
LEMMA ViewRetains ==
  ASSUME NEW x, IsTree(x), Closed(x), NEW y, IsTree(y), Closed(y), Sanitize(x) # NullValue,
         \A r \in KeySeqs : FieldPath(r) => /\ r \in DOMAIN y <=> r \in DOMAIN x
                                            /\ r \in DOMAIN x => y[r] = x[r]
  PROVE  /\ Whitelist(y) # NullValue /\ Sanitize(Whitelist(y)) # NullValue
         /\ Retains(Sanitize(x), Sanitize(Whitelist(y)))
<1> DEFINE lf == <<"last_fire">>
           id == <<"id">>
           sr == <<"state_reason">>
           at == <<"last_fire", "attempt">>
           sq == <<"last_fire", "sequence">>
<1>1. /\ {Root, lf, id, sr, at, sq} \subseteq KeySeqs
      /\ lf # Root /\ id # lf /\ sr # lf
      /\ Len(lf) = 1 /\ Len(id) = 1 /\ Len(sr) = 1 /\ Len(at) = 2 /\ Len(sq) = 2
      /\ lf[1] = "last_fire" /\ id[1] = "id" /\ sr[1] = "state_reason"
      /\ at[1] = "last_fire" /\ at[2] = "attempt" /\ sq[1] = "last_fire" /\ sq[2] = "sequence"
  <2>1. /\ lf \in KeySeqs /\ Len(lf) = 1 /\ lf[1] = "last_fire"
        /\ id \in KeySeqs /\ Len(id) = 1 /\ id[1] = "id"
        /\ sr \in KeySeqs /\ Len(sr) = 1 /\ sr[1] = "state_reason"
    BY KeyPaths, KeysAre DEF KeySeqs
  <2>2. /\ at \in KeySeqs /\ Len(at) = 2 /\ at[1] = "last_fire" /\ at[2] = "attempt"
        /\ sq \in KeySeqs /\ Len(sq) = 2 /\ sq[1] = "last_fire" /\ sq[2] = "sequence"
    BY KeyPaths, KeysAre DEF KeySeqs
  <2> QED
    BY <2>1, <2>2, RootIsPath
<1>2. FieldPath(Root) /\ FieldPath(lf) /\ FieldPath(id) /\ FieldPath(sr) /\ FieldPath(at) /\ FieldPath(sq)
  BY <1>1 DEF FieldPath, ViewFields, LastFireFields
<1> HIDE DEF lf, id, sr, at, sq
<1>3. /\ x[Root] = "object" /\ id \in DOMAIN x /\ x[id] = "good" /\ (sr \in DOMAIN x => x[sr] \in {"good", "null"})
      /\ DOMAIN Sanitize(x) = Kept(x)
      /\ \A p \in Kept(x) : Sanitize(x)[p] = IF p = lf /\ ~FitsLastFire(x) THEN "null" ELSE x[p]
  <2>1. Root \in DOMAIN x
    BY DEF IsTree
  <2>2. x[Root] = "object" /\ Fits(x, {id}, {sr})
    BY <2>1, SanitizeIs DEF id, sr
  <2>3. /\ DOMAIN Sanitize(x) = Kept(x)
        /\ \A p \in Kept(x) : Sanitize(x)[p] = IF p = lf /\ ~FitsLastFire(x) THEN "null" ELSE x[p]
    BY <2>1, <2>2, SanitizeIs DEF id, sr, lf
  <2> QED
    BY <2>2, <2>3 DEF Fits
<1>4. \A p \in DOMAIN x : p \in KeySeqs /\ (Len(p) = 2 /\ p[1] = "last_fire" => lf \in DOMAIN x)
  <2>1. SUFFICES ASSUME NEW p \in DOMAIN x, Len(p) = 2, p[1] = "last_fire" PROVE lf \in DOMAIN x
    BY DEF IsTree
  <2>2. p \in KeySeqs /\ p # Root
    <3>1. p \in KeySeqs
      BY DEF IsTree
    <3>2. Len(p) # Len(Root)
      BY <2>1, RootIsPath
    <3> QED
      BY <3>1, <3>2
  <2>3. Front(p) = lf
    BY <2>1, <2>2, FrontOf DEF lf
  <2> QED
    BY <2>1, <2>2, <2>3 DEF Closed
<1>5. PICK L : L = Whitelist(y)
  OBVIOUS
<1>6. /\ L # NullValue /\ L[Root] = "object" /\ DOMAIN L = Shown(y) /\ Shown(y) \subseteq DOMAIN y /\ DOMAIN y \subseteq KeySeqs
      /\ \A p \in Shown(y) : L[p] = IF p = lf /\ y[p] # "object" THEN "null" ELSE y[p]
  <2>1. y[Root] = "object"
    BY <1>1, <1>2, <1>3 DEF IsTree
  <2>2. L = View(y) /\ L[Root] = "object" /\ L # NullValue
    BY <1>5, <2>1, WhitelistIs
  <2> QED
    BY <2>2 DEF View, Shown, lf, IsTree
<1>7. /\ Root \in Shown(y)
      /\ lf \in DOMAIN x => lf \in Shown(y)
      /\ id \in Shown(y) /\ L[id] = "good"
      /\ sr \in DOMAIN x => sr \in Shown(y) /\ L[sr] = x[sr] /\ x[sr] \in {"good", "null"}
      /\ sr \in DOMAIN L => sr \in DOMAIN x
  <2>1. Root \in Shown(y) /\ (lf \in DOMAIN x => lf \in Shown(y))
    BY <1>1, <1>2 DEF Shown, IsTree, lf
  <2>2. id \in Shown(y) /\ y[id] = "good"
    BY <1>1, <1>2, <1>3 DEF Shown, Scalars, ViewFields
  <2>3. sr \in DOMAIN x => sr \in Shown(y) /\ y[sr] = x[sr] /\ x[sr] \in {"good", "null"}
    BY <1>1, <1>2, <1>3 DEF Shown, Scalars, ViewFields
  <2>4. sr \in DOMAIN L => sr \in DOMAIN x
    BY <1>1, <1>2, <1>6
  <2> QED
    BY <1>1, <1>6, <2>1, <2>2, <2>3, <2>4
<1>8. /\ Sanitize(L) # NullValue /\ DOMAIN Sanitize(L) = Kept(L)
      /\ \A p \in Kept(L) : Sanitize(L)[p] = IF p = lf /\ ~FitsLastFire(L) THEN "null" ELSE L[p]
  <2>1. Root \in DOMAIN L
    BY <1>6, <1>7
  <2>2. Fits(L, {id}, {sr})
    BY <1>6, <1>7 DEF Fits
  <2> QED
    BY <1>6, <2>1, <2>2, SanitizeIs DEF id, sr, lf
<1>9. ASSUME lf \in DOMAIN x, FitsLastFire(x)
      PROVE  /\ FitsLastFire(L) /\ L[lf] = x[lf]
             /\ \A p \in DOMAIN x : Len(p) = 2 /\ p[1] = "last_fire" /\ p[2] \in LastFireFields => p \in Shown(y) /\ L[p] = x[p]
  <2>1. /\ x[lf] = "object" /\ at \in DOMAIN x /\ x[at] = "good" /\ (sq \in DOMAIN x => x[sq] \in {"good", "null"})
    BY <1>9 DEF FitsLastFire, Fits, lf, at, sq
  <2>2. y[lf] = "object" /\ lf \in Shown(y) /\ L[lf] = "object"
    BY <1>1, <1>2, <1>6, <1>7, <1>9, <2>1
  <2>3. ASSUME NEW p \in DOMAIN x, Len(p) = 2, p[1] = "last_fire", p[2] \in LastFireFields
        PROVE  p \in Shown(y) /\ L[p] = x[p]
    <3>1. p \in KeySeqs /\ FieldPath(p) /\ p \in DOMAIN y /\ y[p] = x[p]
      BY <1>4, <2>3 DEF FieldPath
    <3>2. p = at \/ p = sq
      <4>1. p[2] = "attempt" \/ p[2] = "sequence"
        BY <2>3 DEF LastFireFields
      <4> QED
        BY <2>3, <3>1, <4>1, ByKeys, KeysAre DEF at, sq
    <3>3. x[p] \in {"good", "null"}
      BY <2>1, <2>3, <3>2
    <3>4. p \in Shown(y)
      BY <2>2, <2>3, <3>1, <3>3 DEF Shown, Scalars, lf
    <3>5. p # lf
      BY <1>1, <2>3
    <3> QED
      BY <1>6, <3>1, <3>4, <3>5
  <2>4. at \in Shown(y) /\ L[at] = "good"
    BY <1>1, <2>1, <2>3 DEF LastFireFields
  <2>5. sq \in DOMAIN L => L[sq] \in {"good", "null"}
    <3>1. sq \in DOMAIN L => sq \in DOMAIN x
      BY <1>1, <1>2, <1>6
    <3> QED
      BY <1>1, <2>1, <2>3, <3>1 DEF LastFireFields
  <2>6. FitsLastFire(L)
    BY <1>6, <2>2, <2>4, <2>5 DEF FitsLastFire, Fits, lf, at, sq
  <2> QED
    BY <2>1, <2>2, <2>3, <2>6
<1>10. ASSUME NEW p \in Kept(x), Len(p) = 1, p # lf PROVE p \in Shown(y) /\ L[p] = x[p]
  <2>1. p \in KeySeqs /\ p[1] \in ViewFields
    BY <1>4, <1>10, RootIsPath DEF Kept
  <2>2. p = id \/ p = sr
    <3>1. p[1] = "id" \/ p[1] = "state_reason" \/ p[1] = "last_fire"
      BY <2>1 DEF ViewFields
    <3> QED
      BY <1>10, <2>1, <3>1, ByKeys, KeysAre DEF id, sr, lf
  <2> QED
    BY <1>3, <1>7, <1>10, <2>2 DEF Kept
<1>11. ASSUME NEW p \in Kept(x) PROVE p \in Kept(L)
  <2>1. p \in DOMAIN x /\ p \in KeySeqs
    BY <1>4 DEF Kept
  <2>2. CASE p = Root
    BY <1>6, <1>7, <2>2 DEF Kept
  <2>3. CASE Len(p) = 1 /\ p[1] \in ViewFields
    BY <1>6, <1>7, <1>10, <2>1, <2>3 DEF Kept
  <2>4. CASE Len(p) = 2 /\ p[1] = "last_fire" /\ p[2] \in LastFireFields /\ FitsLastFire(x)
    BY <1>4, <1>6, <1>9, <2>1, <2>4 DEF Kept
  <2> QED
    BY <2>2, <2>3, <2>4 DEF Kept
<1>12. ASSUME NEW p \in Kept(x), ~(p = lf /\ ~FitsLastFire(x)) PROVE Sanitize(L)[p] = Sanitize(x)[p]
  <2>1. Sanitize(x)[p] = x[p] /\ p \in Kept(L) /\ p \in DOMAIN x
    BY <1>3, <1>11, <1>12 DEF Kept
  <2>2. CASE p = Root
    BY <1>1, <1>3, <1>6, <1>8, <2>1, <2>2
  <2>3. CASE p = lf
    BY <1>8, <1>9, <1>12, <2>1, <2>3
  <2>4. CASE p # lf /\ Len(p) = 1
    BY <1>8, <1>10, <2>1, <2>4
  <2>5. CASE p # lf /\ Len(p) = 2 /\ p[1] = "last_fire" /\ p[2] \in LastFireFields /\ FitsLastFire(x)
    BY <1>4, <1>8, <1>9, <2>1, <2>5
  <2> QED
    BY <2>2, <2>3, <2>4, <2>5 DEF Kept
<1>13. ASSUME lf \in DOMAIN x => FitsLastFire(x), NEW p \in Kept(L) PROVE p \in Kept(x)
  <2>1. p \in DOMAIN y /\ p \in KeySeqs
    BY <1>6 DEF Kept
  <2>2. FieldPath(p)
    BY DEF Kept, FieldPath
  <2>3. p \in DOMAIN x
    BY <2>1, <2>2
  <2> QED
    BY <1>4, <1>13, <2>3 DEF Kept
<1>14. Retains(Sanitize(x), Sanitize(L))
  <2> DEFINE lacking == {p \in DOMAIN Sanitize(x) : p = <<"last_fire">> /\ Sanitize(x)[p] = "null"}
  <2>1. DOMAIN Sanitize(x) \subseteq DOMAIN Sanitize(L)
    BY <1>3, <1>8, <1>11
  <2>2. ASSUME NEW p \in DOMAIN Sanitize(x) \ lacking PROVE Sanitize(L)[p] = Sanitize(x)[p]
    <3>1. ~(p = lf /\ ~FitsLastFire(x))
      BY <1>3, <2>2 DEF lf
    <3> QED
      BY <1>3, <1>12, <2>2, <3>1
  <2>3. ASSUME lacking = {} PROVE DOMAIN Sanitize(L) = DOMAIN Sanitize(x)
    <3>1. lf \in DOMAIN x => lf \in Kept(x)
      BY <1>1 DEF Kept, ViewFields
    <3>2. lf \in DOMAIN x => FitsLastFire(x)
      BY <1>3, <2>3, <3>1 DEF lf
    <3> QED
      BY <1>3, <1>8, <1>11, <1>13, <3>2
  <2> HIDE DEF lacking
  <2> QED
    BY <2>1, <2>2, <2>3 DEF Retains, lacking
<1> QED
  BY <1>5, <1>6, <1>8, <1>14

\* Whatever a leg the harness shows of an answer, it shows of the answer redacted.
LEMMA RedactedRetains ==
  ASSUME NEW value, IsJson(value), NEW leg \in LegsOf(value)
  PROVE  \E same \in LegsOf(Redact(value)) : Retains(leg, same)
<1>1. PICK place \in LegPlaces(value) : leg = Sanitize(Under(value, place)) /\ leg # NullValue
  BY DEF LegsOf
<1>2. PICK s : s = Strip(value)
  OBVIOUS
<1>3. /\ IsTree(value) /\ Closed(value) /\ IsTree(s) /\ Closed(s) /\ MaxDepth \in Nat /\ MaxDepth >= 4
      /\ DOMAIN s = {p \in DOMAIN value : Len(p) <= MaxDepth + 1 /\ \A i \in DOMAIN p : p[i] \notin Forbidden}
      /\ \A p \in DOMAIN s : s[p] = IF Len(p) > MaxDepth THEN "null" ELSE value[p]
  BY <1>2, JsonIsTree, StripIs, KeeperRedactionAssumption
<1>4. /\ place \in DOMAIN value /\ place \in KeySeqs /\ value[Root] = "object"
      /\ \/ place = <<"order">> /\ Len(place) = 1 /\ place[1] = "order"
         \/ Len(place) = 2 /\ place[1] = "orders" /\ value[<<"orders">>] = "list" /\ place[2] \in Keys
  BY <1>3, PlacesAre
<1>5. /\ Len(place) \in {1, 2} /\ \A i \in 1 .. Len(place) : place[i] \notin Forbidden
      /\ Len(place) = 2 => <<"orders">> \in DOMAIN value
  <2>1. CASE Len(place) = 1 /\ place[1] = "order"
    <3>1. \A i \in 1 .. Len(place) : i = 1
      BY <2>1
    <3> QED
      BY <2>1, <3>1, KeysAre
  <2>2. CASE Len(place) = 2 /\ place[1] = "orders" /\ value[<<"orders">>] = "list"
    <3>1. place # Root
      BY <2>2, RootIsPath
    <3>2. Front(place) = <<"orders">> /\ Front(place) \in DOMAIN value
      BY <1>3, <1>4, <2>2, <3>1, FrontOf DEF Closed
    <3>3. Last(place) \notin Forbidden
      BY <1>4, <2>2, <3>1, <3>2 DEF IsJson
    <3>4. place[2] \notin Forbidden
      BY <2>2, <3>3 DEF Last
    <3>5. \A i \in 1 .. Len(place) : i = 1 \/ i = 2
      BY <2>2
    <3> QED
      BY <2>2, <3>2, <3>4, <3>5, KeysAre
  <2> QED
    BY <1>4, <2>1, <2>2
<1>6. ASSUME NEW r \in KeySeqs, FieldPath(r)
      PROVE  /\ place \o r \in DOMAIN s <=> place \o r \in DOMAIN value
             /\ place \o r \in DOMAIN value => s[place \o r] = value[place \o r]
  <2>1. /\ place \o r \in KeySeqs /\ Len(place \o r) = Len(place) + Len(r)
        /\ \A i \in 1 .. Len(place) : (place \o r)[i] = place[i]
        /\ \A i \in 1 .. Len(r) : (place \o r)[Len(place) + i] = r[i]
    BY <1>4, Joined
  <2>2. Len(r) \in {0, 1, 2} /\ \A i \in 1 .. Len(r) : r[i] \notin Forbidden
    <3>1. CASE r = Root
      BY <3>1, RootIsPath
    <3>2. CASE Len(r) = 1 /\ r[1] \in ViewFields
      <4>1. \A i \in 1 .. Len(r) : i = 1
        BY <3>2
      <4> QED
        BY <3>2, <4>1, KeysAre
    <3>3. CASE Len(r) = 2 /\ r[1] = "last_fire" /\ r[2] \in LastFireFields
      <4>1. \A i \in 1 .. Len(r) : i = 1 \/ i = 2
        BY <3>3
      <4>2. r[1] \notin Forbidden
        BY <3>3, KeysAre DEF ViewFields
      <4> QED
        BY <3>3, <4>1, <4>2, KeysAre
    <3> QED
      BY <1>6, <3>1, <3>2, <3>3 DEF FieldPath
  <2>3. \A m \in {1, 2}, n \in {0, 1, 2} : m + n <= MaxDepth + 1 /\ ~(m + n > MaxDepth) /\ m \in Nat /\ n \in Nat
    BY <1>3
  <2>4. Len(place \o r) <= MaxDepth + 1 /\ ~(Len(place \o r) > MaxDepth) /\ Len(place) \in Nat /\ Len(r) \in Nat
    BY <1>5, <2>1, <2>2, <2>3
  <2>5. ASSUME NEW i \in DOMAIN (place \o r) PROVE (place \o r)[i] \notin Forbidden
    <3>1. i \in 1 .. Len(place) + Len(r)
      BY <2>1, <2>5, ByKeys
    <3>2. CASE i \in 1 .. Len(place)
      BY <1>5, <2>1, <3>2
    <3>3. CASE i \notin 1 .. Len(place)
      <4>1. PICK k \in 1 .. Len(r) : i = Len(place) + k
        <5>1. i - Len(place) \in 1 .. Len(r) /\ i = Len(place) + (i - Len(place))
          BY <2>4, <3>1, <3>3
        <5> QED
          BY <5>1
      <4> QED
        BY <2>1, <2>2, <4>1
    <3> QED
      BY <3>2, <3>3
  <2> QED
    BY <1>3, <2>4, <2>5
<1>7. place \o Root = place /\ FieldPath(Root) /\ Root \in KeySeqs
  BY <1>4, ConcatEmptySeq, RootIsPath DEF FieldPath, Root, KeySeqs
<1>8. place \in LegPlaces(s)
  <2>1. place \in DOMAIN s
    BY <1>4, <1>6, <1>7
  <2>2. Root \in DOMAIN s /\ s[Root] = value[Root]
    <3>1. ~(Len(Root) > MaxDepth)
      BY <1>3, RootIsPath
    <3> QED
      BY <1>3, <3>1 DEF IsTree
  <2>3. Len(place) = 2 => s[<<"orders">>] = value[<<"orders">>]
    <3>1. SUFFICES ASSUME Len(place) = 2 PROVE s[<<"orders">>] = value[<<"orders">>]
      OBVIOUS
    <3>2. <<"orders">> \in KeySeqs /\ Len(<<"orders">>) = 1 /\ place # Root
      BY <3>1, KeyPaths, KeysAre, RootIsPath DEF KeySeqs
    <3>3. Front(place) = <<"orders">>
      BY <1>4, <3>1, <3>2, FrontOf
    <3>4. <<"orders">> \in DOMAIN s
      BY <1>3, <2>1, <3>2, <3>3 DEF Closed
    <3>5. ~(Len(<<"orders">>) > MaxDepth)
      BY <1>3, <3>2
    <3> QED
      BY <1>3, <3>4, <3>5
  <2> QED
    BY <1>4, <2>1, <2>2, <2>3 DEF LegPlaces
<1>9. PICK x : x = Under(value, place)
  OBVIOUS
<1>10. PICK y : y = Under(s, place)
  OBVIOUS
<1>11. /\ IsTree(x) /\ Closed(x) /\ IsTree(y) /\ Closed(y)
  BY <1>3, <1>4, <1>8, <1>9, <1>10, UnderIsTree, UnderIsClosed, PlacesAre
<1>12. ASSUME NEW r \in KeySeqs, FieldPath(r)
       PROVE  (r \in DOMAIN y <=> r \in DOMAIN x) /\ (r \in DOMAIN x => y[r] = x[r])
  <2>1. DOMAIN value \subseteq KeySeqs /\ DOMAIN s \subseteq KeySeqs
    BY <1>3 DEF IsTree
  <2>2. /\ DOMAIN x = {t \in KeySeqs : place \o t \in DOMAIN value}
        /\ place \o r \in DOMAIN value => x[r] = value[place \o r]
    BY <1>4, <1>9, <2>1, UnderIs
  <2>3. /\ DOMAIN y = {t \in KeySeqs : place \o t \in DOMAIN s}
        /\ place \o r \in DOMAIN s => y[r] = s[place \o r]
    BY <1>4, <1>10, <2>1, UnderIs
  <2> QED
    BY <1>6, <1>12, <2>2, <2>3
<1>13. /\ Whitelist(y) # NullValue /\ Sanitize(Whitelist(y)) # NullValue
       /\ Retains(leg, Sanitize(Whitelist(y)))
  BY <1>1, <1>9, <1>11, <1>12, ViewRetains
<1>14. place \in LegPlaces(Redact(value)) /\ Under(Redact(value), place) = Whitelist(y)
  BY <1>2, <1>8, <1>10, <1>13, RedactIs DEF Stays, LegAt
<1>15. Sanitize(Whitelist(y)) \in LegsOf(Redact(value))
  BY <1>13, <1>14 DEF LegsOf
<1> QED
  BY <1>13, <1>15

LEMMA RetainsItself ==
  ASSUME NEW leg
  PROVE  Retains(leg, leg)
BY DEF Retains

\* Whatever was forwarded is the answer itself or the answer redacted once.
Redacted ==
  /\ IsJson(answer) /\ hops \in Nat
  /\ hops = 0 => body = answer
  /\ hops > 0 => body = Redact(answer)

THEOREM RedactedOnce == RedactSpec => []Redacted
<1>1. RedactInit => Redacted
  BY KeeperRedactionAssumption DEF RedactInit, Redacted
<1>2. Redacted /\ [RedactNext]_redactVars => Redacted'
  <2>1. SUFFICES ASSUME Redacted, [RedactNext]_redactVars PROVE Redacted'
    OBVIOUS
  <2>2. CASE Forward
    <3>1. answer' = answer /\ hops' = hops + 1 /\ body' = Redact(body) /\ IsJson(answer) /\ hops \in Nat
      BY <2>1, <2>2 DEF Forward, Redacted
    <3>2. Redact(body) = Redact(answer)
      <4>1. CASE hops = 0
        BY <2>1, <4>1 DEF Redacted
      <4>2. CASE hops > 0
        BY <2>1, <4>2, RedactedTwice DEF Redacted
      <4> QED
        BY <3>1, <4>1, <4>2
    <3>3. body' = Redact(answer)
      BY <3>1, <3>2
    <3>4. hops' \in Nat /\ hops' > 0
      BY <3>1
    <3>5. Redact(answer') = Redact(answer) /\ IsJson(answer')
      BY <3>1
    <3> QED
      BY <3>3, <3>4, <3>5 DEF Redacted
  <2>3. CASE UNCHANGED redactVars
    BY <2>1, <2>3 DEF Redacted, redactVars
  <2> QED
    BY <2>1, <2>2, <2>3 DEF RedactNext
<1> QED
  BY <1>1, <1>2, PTL DEF RedactSpec

\* Nothing that makes a stored leg replayable passes one redaction (triggerOrderViews.ts 312-410).
THEOREM KeeperClean == RedactSpec => []NothingForbidden
<1>1. Redacted => NothingForbidden
  <2>1. SUFFICES ASSUME Redacted, hops > 0 PROVE Clean(body)
    BY DEF NothingForbidden, Clean, InView
  <2> QED
    BY <2>1, RedactedIsClean DEF Redacted
<1> QED
  BY <1>1, RedactedOnce, PTL

\* What the harness would show of the keeper's answer it shows after any number of redactions, and
\* after the first nothing changes (triggerOrderViews.ts 204-310, 321-410).
THEOREM KeeperHidesNoLeg == RedactSpec => []RedactionHidesNoLeg
<1>1. Redacted => RedactionHidesNoLeg
  <2>1. SUFFICES ASSUME Redacted PROVE RedactionHidesNoLeg
    OBVIOUS
  <2>2. ASSUME NEW leg \in LegsOf(answer) PROVE \E same \in LegsOf(body) : Retains(leg, same)
    <3>1. CASE hops = 0
      BY <2>1, <2>2, <3>1, RetainsItself DEF Redacted
    <3>2. CASE hops > 0
      BY <2>1, <2>2, <3>2, RedactedRetains DEF Redacted
    <3> QED
      BY <2>1, <3>1, <3>2 DEF Redacted
  <2>3. hops > 0 => Redact(body) = body
    BY <2>1, RedactedTwice DEF Redacted
  <2> QED
    BY <2>2, <2>3 DEF RedactionHidesNoLeg, Retains
<1> QED
  BY <1>1, RedactedOnce, PTL

(***************************************************************************)
(* The items that a loop keeps                                             *)
(***************************************************************************)
\* The least of some numbers.
LEMMA Least ==
  ASSUME NEW N \in SUBSET Nat, N # {}
  PROVE  \E n \in N : \A m \in N : n <= m
<1>1. PICK n \in N : \A m \in N : ~(<<m, n>> \in OpToRel(<, Nat))
  BY NatLessThanWellFounded, WFMin
<1>2. \A m \in N : ~(m < n)
  BY <1>1 DEF OpToRel
<1>3. \A m \in N : n <= m
  BY <1>2
<1> QED
  BY <1>3

\* An enumeration of some numbers in their order.
Enumerates(f, places) ==
  /\ f \in [1 .. Cardinality(places) -> places]
  /\ \A i, j \in DOMAIN f : i < j => f[i] < f[j]

LEMMA PlacesFinite ==
  ASSUME NEW n \in Nat, NEW places \in SUBSET (1 .. n)
  PROVE  IsFiniteSet(places) /\ Cardinality(places) \in Nat
<1>1. IsFiniteSet(1 .. n)
  <2>1. 1 \in Int /\ n \in Int
    OBVIOUS
  <2> QED
    BY <2>1, FS_Interval
<1>2. IsFiniteSet(places)
  BY <1>1, FS_Subset
<1> QED
  BY <1>2, FS_CardinalityType

\* One more number, above the others, comes last.
LEMMA EnumerationGrows ==
  ASSUME NEW n \in Nat, NEW places \in SUBSET (1 .. n), NEW f, Enumerates(f, places), NEW m \in Nat, m > n
  PROVE  /\ Cardinality(places \cup {m}) = Cardinality(places) + 1
         /\ Enumerates([k \in 1 .. Cardinality(places) + 1 |-> IF k = Cardinality(places) + 1 THEN m ELSE f[k]],
                       places \cup {m})
<1> DEFINE c == Cardinality(places)
           g == [k \in 1 .. c + 1 |-> IF k = c + 1 THEN m ELSE f[k]]
<1>1. m \notin places /\ IsFiniteSet(places) /\ c \in Nat
  BY PlacesFinite
<1>2. Cardinality(places \cup {m}) = c + 1
  BY <1>1, FS_AddElement
<1>3. f \in [1 .. c -> places] /\ \A i, j \in 1 .. c : i < j => f[i] < f[j]
  BY DEF Enumerates
<1> HIDE DEF c
<1>4. g \in [1 .. c + 1 -> places \cup {m}]
  BY <1>1, <1>3
<1>5. ASSUME NEW i \in 1 .. c + 1, NEW j \in 1 .. c + 1, i < j PROVE g[i] < g[j]
  <2>1. i \in 1 .. c /\ g[i] = f[i] /\ f[i] \in places
    BY <1>1, <1>3, <1>5
  <2>2. CASE j = c + 1
    <3>1. g[j] = m /\ f[i] \in 1 .. n
      BY <2>1, <2>2
    <3> QED
      BY <2>1, <3>1
  <2>3. CASE j # c + 1
    BY <1>1, <1>3, <1>5, <2>1, <2>3
  <2> QED
    BY ONLY <2>2, <2>3
<1>6. Enumerates(g, places \cup {m})
  BY <1>2, <1>4, <1>5 DEF Enumerates
<1> QED
  BY <1>2, <1>6 DEF c

LEMMA EnumerationExists ==
  ASSUME NEW n \in Nat, NEW places \in SUBSET (1 .. n)
  PROVE  \E f : Enumerates(f, places)
<1> DEFINE Fails == {k \in Nat : \E P \in SUBSET (1 .. k) : ~\E f : Enumerates(f, P)}
<1>1. SUFFICES ASSUME Fails # {} PROVE FALSE
  OBVIOUS
<1>2. PICK k \in Fails : \A m \in Fails : k <= m
  BY <1>1, Least
<1>3. k \in Nat
  BY DEF Fails
<1>4. PICK P \in SUBSET (1 .. k) : ~\E f : Enumerates(f, P)
  OBVIOUS
<1> HIDE DEF Fails
<1>5. CASE P = {}
  <2>1. Cardinality(P) = 0
    BY <1>5, FS_EmptySet
  <2>2. Enumerates([i \in 1 .. 0 |-> i], P)
    BY <1>5, <2>1 DEF Enumerates
  <2> QED
    BY <1>4, <2>2
<1>6. CASE k \notin P
  <2>1. k # 0 \/ P = {}
    OBVIOUS
  <2>2. CASE k # 0
    <3>1. P \in SUBSET (1 .. k - 1) /\ k - 1 \in Nat
      BY <1>3, <1>6, <2>2
    <3>2. k - 1 \in Fails
      BY <1>4, <3>1 DEF Fails
    <3> QED
      BY <1>2, <1>3, <3>1, <3>2
  <2> QED
    BY <1>5, <2>1, <2>2
<1>7. CASE k \in P
  <2>1. k - 1 \in Nat /\ P \ {k} \in SUBSET (1 .. k - 1) /\ k > k - 1 /\ P = (P \ {k}) \cup {k}
    BY <1>3, <1>7
  <2>2. k - 1 \notin Fails
    BY <1>2, <1>3, <2>1
  <2>3. PICK f : Enumerates(f, P \ {k})
    BY <2>1, <2>2 DEF Fails
  <2>4. \E g : Enumerates(g, (P \ {k}) \cup {k})
    <3> DEFINE m == k - 1
               Q == P \ {k}
    <3>1. m \in Nat /\ Q \in SUBSET (1 .. m) /\ k > m /\ Enumerates(f, Q) /\ k \in Nat
      BY <1>3, <2>1, <2>3
    <3> HIDE DEF m, Q
    <3>2. \E g : Enumerates(g, Q \cup {k})
      BY <3>1, EnumerationGrows
    <3> QED
      BY <3>2 DEF Q
  <2> QED
    BY <1>4, <2>1, <2>4
<1> QED
  BY <1>6, <1>7

\* An enumeration has every number, each once.
LEMMA EnumerationIs ==
  ASSUME NEW n \in Nat, NEW places \in SUBSET (1 .. n), NEW f, Enumerates(f, places)
  PROVE  /\ Cardinality(places) \in Nat /\ DOMAIN f = 1 .. Cardinality(places)
         /\ \A k \in 1 .. Cardinality(places) : f[k] \in places
         /\ \A p \in places : \E k \in 1 .. Cardinality(places) : f[k] = p
         /\ \A i, j \in 1 .. Cardinality(places) : f[i] = f[j] => i = j
<1> DEFINE c == Cardinality(places)
<1>1. IsFiniteSet(places) /\ c \in Nat
  BY PlacesFinite DEF c
<1>2. f \in [1 .. c -> places] /\ DOMAIN f = 1 .. c /\ \A i, j \in 1 .. c : i < j => f[i] < f[j]
  BY DEF Enumerates
<1> HIDE DEF c
<1>3. ASSUME NEW i \in 1 .. c, NEW j \in 1 .. c, f[i] = f[j] PROVE i = j
  <2>1. f[i] \in Nat /\ f[j] \in Nat
    <3>1. f[i] \in places /\ f[j] \in places
      BY <1>2
    <3>2. \A p \in places : p \in Nat
      BY places \in SUBSET (1 .. n)
    <3> QED
      BY ONLY <3>1, <3>2
  <2>2. ~(i < j)
    BY <1>2, <1>3, <2>1
  <2>3. ~(j < i)
    BY <1>2, <1>3, <2>1
  <2>4. i \in Int /\ j \in Int
    OBVIOUS
  <2> QED
    BY ONLY <2>2, <2>3, <2>4
<1>4. f \in Injection(1 .. c, places)
  BY <1>2, <1>3 DEF Injection, IsInjective
<1>5. Cardinality(1 .. c) = c
  BY <1>1, FS_Interval
<1>6. f \in Surjection(1 .. c, places)
  BY <1>1, <1>4, <1>5, FS_Injection DEF c
<1>7. \A p \in places : \E k \in 1 .. c : f[k] = p
  BY <1>6 DEF Surjection
<1> QED
  BY <1>1, <1>2, <1>3, <1>7 DEF c

\* The numbers below the one at a place are those at the places before it.
LEMMA RankIs ==
  ASSUME NEW n \in Nat, NEW places \in SUBSET (1 .. n), NEW f, Enumerates(f, places),
         NEW k \in 1 .. Cardinality(places)
  PROVE  Cardinality({q \in places : q < f[k]}) = k - 1
<1> DEFINE c == Cardinality(places)
           Q == {q \in places : q < f[k]}
           g == [j \in 1 .. k - 1 |-> f[j]]
<1>1. /\ c \in Nat
      /\ \A j \in 1 .. c : f[j] \in places
      /\ \A p \in places : \E j \in 1 .. c : f[j] = p
      /\ \A i, j \in 1 .. c : f[i] = f[j] => i = j
  BY ONLY n \in Nat, places \in SUBSET (1 .. n), Enumerates(f, places), EnumerationIs
<1>2. \A i, j \in 1 .. c : i < j => f[i] < f[j]
  <2>1. DOMAIN f = 1 .. c
    BY EnumerationIs
  <2> QED
    BY <2>1 DEF Enumerates
<1>3. \A p \in places : p \in Nat
  BY places \in SUBSET (1 .. n)
<1> HIDE DEF c
<1>4. k \in 1 .. c
  BY DEF c
<1>5. \A j \in 1 .. k - 1 : j \in 1 .. c /\ f[j] \in Q
  BY <1>1, <1>2, <1>4
<1>6. ASSUME NEW q \in Q PROVE \E j \in 1 .. k - 1 : f[j] = q
  <2>1. PICK j \in 1 .. c : f[j] = q
    BY <1>1
  <2>2. f[j] \in Nat /\ f[k] \in Nat /\ f[j] < f[k]
    BY <1>1, <1>3, <1>4, <2>1
  <2>3. ~(k < j) /\ j # k
    BY <1>2, <1>4, <2>2
  <2>4. j \in 1 .. k - 1
    BY <1>4, <2>3
  <2> QED
    BY <2>1, <2>4
<1>7. g \in Bijection(1 .. k - 1, Q)
  <2> HIDE DEF Q
  <2>1. g \in [1 .. k - 1 -> Q]
    BY <1>5
  <2>2. \A i, j \in 1 .. k - 1 : g[i] = g[j] => i = j
    BY <1>1, <1>5
  <2>3. \A q \in Q : \E j \in 1 .. k - 1 : g[j] = q
    BY <1>6
  <2> HIDE DEF g
  <2> QED
    BY <2>1, <2>2, <2>3 DEF Bijection, Injection, IsInjective, Surjection
<1>8. ExistsBijection(1 .. k - 1, Q)
  BY <1>7 DEF ExistsBijection
<1>9. k - 1 \in Nat
  BY <1>1, <1>4
<1> HIDE DEF Q
<1>10. Cardinality(Q) = k - 1
  BY <1>8, <1>9, FS_CountingElements
<1> QED
  BY <1>10 DEF Q

LEMMA InOrderOf ==
  ASSUME NEW n \in Nat, NEW places \in SUBSET (1 .. n), NEW f, Enumerates(f, places)
  PROVE  InOrder(places) = f
<1> DEFINE c == Cardinality(places)
           rank(p) == Cardinality({q \in places : q < p})
<1>1. /\ c \in Nat /\ DOMAIN f = 1 .. c
      /\ \A j \in 1 .. c : f[j] \in places
      /\ \A p \in places : \E j \in 1 .. c : f[j] = p
  <2>1. c \in Nat /\ DOMAIN f = 1 .. c
    BY EnumerationIs
  <2>2. \A j \in 1 .. c : f[j] \in places
    BY ONLY n \in Nat, places \in SUBSET (1 .. n), Enumerates(f, places), EnumerationIs
  <2>3. \A p \in places : \E j \in 1 .. c : f[j] = p
    <3>1. TAKE p \in places
    <3>2. \E k \in 1 .. Cardinality(places) : f[k] = p
      BY EnumerationIs
    <3> QED
      BY <3>2
  <2> HIDE DEF c, rank
  <2> QED
    BY <2>1, <2>2, <2>3
<1>2. \A k \in 1 .. c : rank(f[k]) = k - 1
  BY RankIs
<1>3. InOrder(places) = [k \in 1 .. c |-> CHOOSE p \in places : rank(p) = k - 1]
  BY DEF InOrder
<1> HIDE DEF c, rank
<1>4. ASSUME NEW k \in 1 .. c PROVE (CHOOSE p \in places : rank(p) = k - 1) = f[k]
  <2>1. ASSUME NEW p \in places, rank(p) = k - 1 PROVE p = f[k]
    <3>1. PICK j \in 1 .. c : f[j] = p
      BY <1>1
    <3>2. rank(p) = j - 1
      BY <1>2, <3>1
    <3>3. j = k
      BY <1>1, <2>1, <3>2
    <3> QED
      BY <3>1, <3>3
  <2>2. f[k] \in places /\ rank(f[k]) = k - 1
    BY <1>1, <1>2
  <2> QED
    BY <2>1, <2>2
<1>5. f = [k \in 1 .. c |-> f[k]]
  BY <1>1 DEF Enumerates, c
<1> QED
  BY <1>3, <1>4, <1>5

LEMMA InOrderIs ==
  ASSUME NEW n \in Nat, NEW places \in SUBSET (1 .. n)
  PROVE  Enumerates(InOrder(places), places)
<1>1. PICK f : Enumerates(f, places)
  BY EnumerationExists
<1> QED
  BY <1>1, InOrderOf

\* What is selected is the items at the places; of different items each stands once.
LEMMA SelectedIs ==
  ASSUME NEW S, NEW s \in Seq(S), NEW places \in SUBSET (1 .. Len(s))
  PROVE  /\ Selected(s, places) \in Seq(S)
         /\ \A p \in places : \E k \in 1 .. Len(Selected(s, places)) : Selected(s, places)[k] = s[p]
         /\ \A k \in 1 .. Len(Selected(s, places)) : \E p \in places : Selected(s, places)[k] = s[p]
         /\ (\A p, q \in places : s[p] = s[q] => p = q) =>
              \A i, j \in 1 .. Len(Selected(s, places)) : Selected(s, places)[i] = Selected(s, places)[j] => i = j
<1> DEFINE at == InOrder(places)
           t == Selected(s, places)
           c == Cardinality(places)
<1>1. Len(s) \in Nat /\ \A i \in 1 .. Len(s) : s[i] \in S
  BY LenProperties, ElementOfSeq
<1>2. /\ c \in Nat /\ DOMAIN at = 1 .. c
      /\ \A k \in 1 .. c : at[k] \in places
      /\ \A p \in places : \E k \in 1 .. c : at[k] = p
      /\ \A i, j \in 1 .. c : at[i] = at[j] => i = j
  <2>1. Enumerates(at, places)
    BY <1>1, InOrderIs
  <2> QED
    BY <1>1, <2>1, EnumerationIs
<1>3. t = [k \in 1 .. c |-> s[at[k]]]
  BY <1>2 DEF Selected
<1> HIDE DEF at, c
<1>4. t \in [1 .. c -> S]
  BY <1>1, <1>2, <1>3
<1>5. t \in Seq(S) /\ Len(t) = c
  <2>1. t \in Seq(S)
    BY <1>2, <1>4, SeqDef
  <2> QED
    BY <1>2, <1>3, <2>1, LenProperties
<1> HIDE DEF t
<1>6. \A k \in 1 .. c : t[k] = s[at[k]]
  BY <1>3
<1>7. \A p \in places : \E k \in 1 .. c : t[k] = s[p]
  BY <1>2, <1>6
<1>8. \A k \in 1 .. c : \E p \in places : t[k] = s[p]
  BY <1>2, <1>6
<1>9. ASSUME \A p, q \in places : s[p] = s[q] => p = q, NEW i \in 1 .. c, NEW j \in 1 .. c, t[i] = t[j] PROVE i = j
  <2>1. at[i] \in places /\ at[j] \in places /\ s[at[i]] = s[at[j]]
    BY <1>2, <1>6, <1>9
  <2>2. at[i] = at[j]
    BY <1>9, <2>1
  <2> QED
    BY <1>2, <2>2
<1> QED
  BY <1>5, <1>7, <1>8, <1>9 DEF t

(***************************************************************************)
(* Places of an item                                                       *)
(***************************************************************************)
\* An item stands at one place of a sequence, or at no two.
Once(s, x) == \E i \in 1 .. Len(s) : \A j \in 1 .. Len(s) : s[j] = x <=> j = i

Single(s, x) == \A i, j \in 1 .. Len(s) : s[i] = x /\ s[j] = x => i = j

Injective(s) == \A i, j \in 1 .. Len(s) : s[i] = s[j] => i = j

LEMMA ItemsOf ==
  ASSUME NEW S, NEW s \in Seq(S)
  PROVE  /\ Len(s) \in Nat /\ DOMAIN s = 1 .. Len(s) /\ ToSet(s) \subseteq S
         /\ \A i \in 1 .. Len(s) : s[i] \in ToSet(s)
         /\ \A x \in ToSet(s) : \E i \in 1 .. Len(s) : s[i] = x
<1>1. Len(s) \in Nat /\ DOMAIN s = 1 .. Len(s)
  BY LenProperties
<1>2. \A i \in 1 .. Len(s) : s[i] \in S
  BY ElementOfSeq
<1> QED
  BY <1>1, <1>2 DEF ToSet

\* What stands where in two sequences one behind the other.
LEMMA ConcatIs ==
  ASSUME NEW S, NEW s \in Seq(S), NEW t \in Seq(S)
  PROVE  /\ s \o t \in Seq(S) /\ Len(s \o t) = Len(s) + Len(t)
         /\ \A i \in 1 .. Len(s) : i \in 1 .. Len(s \o t) /\ (s \o t)[i] = s[i]
         /\ \A i \in 1 .. Len(t) : Len(s) + i \in 1 .. Len(s \o t) /\ (s \o t)[Len(s) + i] = t[i]
         /\ \A k \in 1 .. Len(s \o t) : \/ k \in 1 .. Len(s) /\ (s \o t)[k] = s[k]
                                        \/ k - Len(s) \in 1 .. Len(t) /\ (s \o t)[k] = t[k - Len(s)]
         /\ ToSet(s \o t) = ToSet(s) \cup ToSet(t)
<1>1. /\ s \o t \in Seq(S) /\ Len(s \o t) = Len(s) + Len(t) /\ Len(s) \in Nat /\ Len(t) \in Nat
      /\ \A i \in 1 .. Len(s) + Len(t) : (s \o t)[i] = IF i <= Len(s) THEN s[i] ELSE t[i - Len(s)]
  BY ConcatProperties, LenProperties
<1> DEFINE u == s \o t
           a == Len(s)
           b == Len(t)
<1> HIDE DEF u, a, b
<1>2. /\ u \in Seq(S) /\ Len(u) = a + b /\ a \in Nat /\ b \in Nat
      /\ \A i \in 1 .. a + b : u[i] = IF i <= a THEN s[i] ELSE t[i - a]
  BY <1>1 DEF u, a, b
<1>3. \A i \in 1 .. a : i \in 1 .. a + b /\ u[i] = s[i]
  BY <1>2
<1>4. ASSUME NEW i \in 1 .. b PROVE a + i \in 1 .. a + b /\ u[a + i] = t[i]
  <2>1. a + i \in 1 .. a + b /\ ~(a + i <= a) /\ (a + i) - a = i
    BY <1>2
  <2> QED
    BY <1>2, <2>1
<1>5. ASSUME NEW k \in 1 .. a + b
      PROVE  (k \in 1 .. a /\ u[k] = s[k]) \/ (k - a \in 1 .. b /\ u[k] = t[k - a])
  BY <1>2
<1>6. ToSet(u) = ToSet(s) \cup ToSet(t)
  <2>1. \A x \in ToSet(u) : x \in ToSet(s) \cup ToSet(t)
    <3>1. TAKE x \in ToSet(u)
    <3>2. PICK k \in 1 .. a + b : u[k] = x
      BY <1>2, ItemsOf
    <3>3. CASE k \in 1 .. a /\ u[k] = s[k]
      BY <3>2, <3>3, ItemsOf DEF a
    <3>4. CASE k - a \in 1 .. b /\ u[k] = t[k - a]
      BY <3>2, <3>4, ItemsOf DEF b
    <3> QED
      BY <1>5, <3>3, <3>4
  <2>2. \A x \in ToSet(s) : x \in ToSet(u)
    <3>1. TAKE x \in ToSet(s)
    <3>2. PICK k \in 1 .. a : s[k] = x
      BY ItemsOf DEF a
    <3>3. k \in 1 .. Len(u) /\ u[k] = x
      BY <1>2, <1>3, <3>2
    <3> QED
      BY <1>2, <3>3, ItemsOf
  <2>3. \A x \in ToSet(t) : x \in ToSet(u)
    <3>1. TAKE x \in ToSet(t)
    <3>2. PICK k \in 1 .. b : t[k] = x
      BY ItemsOf DEF b
    <3>3. a + k \in 1 .. Len(u) /\ u[a + k] = x
      BY <1>2, <1>4, <3>2
    <3> QED
      BY <1>2, <3>3, ItemsOf
  <2> QED
    BY <2>1, <2>2, <2>3
<1> QED
  BY <1>2, <1>3, <1>4, <1>5, <1>6 DEF u, a, b

LEMMA OnceJoined ==
  ASSUME NEW S, NEW s \in Seq(S), NEW t \in Seq(S), NEW x
  PROVE  /\ Once(s, x) /\ x \notin ToSet(t) => Once(s \o t, x)
         /\ x \notin ToSet(s) /\ Once(t, x) => Once(s \o t, x)
         /\ Single(s, x) /\ x \notin ToSet(t) => Single(s \o t, x)
         /\ x \notin ToSet(s) /\ Single(t, x) => Single(s \o t, x)
<1> DEFINE u == s \o t
           a == Len(s)
           b == Len(t)
<1>1. /\ a \in Nat /\ b \in Nat /\ Len(u) = a + b
      /\ \A i \in 1 .. a : i \in 1 .. a + b /\ u[i] = s[i] /\ s[i] \in ToSet(s)
      /\ \A i \in 1 .. b : a + i \in 1 .. a + b /\ u[a + i] = t[i] /\ t[i] \in ToSet(t)
      /\ \A k \in 1 .. a + b : \/ k \in 1 .. a /\ u[k] = s[k]
                               \/ k - a \in 1 .. b /\ u[k] = t[k - a]
  BY ConcatIs, ItemsOf
<1> HIDE DEF u, a, b
<1>2. ASSUME Once(s, x), x \notin ToSet(t) PROVE Once(u, x)
  <2>1. PICK i \in 1 .. a : \A j \in 1 .. a : s[j] = x <=> j = i
    BY <1>2 DEF Once, a
  <2>2. i \in 1 .. a + b /\ \A k \in 1 .. a + b : u[k] = x <=> k = i
    BY <1>1, <1>2, <2>1
  <2>3. \E p \in 1 .. a + b : \A k \in 1 .. a + b : u[k] = x <=> k = p
    BY <2>2
  <2>4. Len(u) = a + b
    BY <1>1
  <2> QED
    BY ONLY <2>3, <2>4 DEF Once
<1>3. ASSUME x \notin ToSet(s), Once(t, x) PROVE Once(u, x)
  <2>1. PICK i \in 1 .. b : \A j \in 1 .. b : t[j] = x <=> j = i
    BY <1>3 DEF Once, b
  <2>2. a + i \in 1 .. a + b /\ u[a + i] = x
    BY <1>1, <2>1
  <2>3. ASSUME NEW k \in 1 .. a + b, u[k] = x PROVE k = a + i
    <3>1. ~(k \in 1 .. a /\ u[k] = s[k])
      BY <1>1, <1>3, <2>3
    <3>2. k - a \in 1 .. b /\ t[k - a] = x
      BY <1>1, <2>3, <3>1
    <3>3. k - a = i
      BY <2>1, <3>2
    <3> QED
      BY <1>1, <3>3
  <2> QED
    BY <1>1, <2>2, <2>3 DEF Once
<1>4. ASSUME Single(s, x), x \notin ToSet(t) PROVE Single(u, x)
  <2>1. ASSUME NEW k \in 1 .. a + b, u[k] = x PROVE k \in 1 .. a /\ s[k] = x
    BY <1>1, <1>4, <2>1
  <2> QED
    BY <1>1, <1>4, <2>1 DEF Single, a
<1>5. ASSUME x \notin ToSet(s), Single(t, x) PROVE Single(u, x)
  <2>1. ASSUME NEW k \in 1 .. a + b, u[k] = x PROVE k - a \in 1 .. b /\ t[k - a] = x
    BY <1>1, <1>5, <2>1
  <2>2. ASSUME NEW i \in 1 .. a + b, NEW j \in 1 .. a + b, u[i] = x, u[j] = x PROVE i = j
    <3>1. i - a = j - a
      BY <1>5, <2>1, <2>2 DEF Single, b
    <3> QED
      BY <1>1, <3>1
  <2> QED
    BY <1>1, <2>2 DEF Single
<1> QED
  BY <1>2, <1>3, <1>4, <1>5 DEF u

\* The places of an item, counted.
LEMMA Counted ==
  ASSUME NEW S, NEW s \in Seq(S), NEW x
  PROVE  /\ Once(s, x) => Cardinality({i \in DOMAIN s : s[i] = x}) = 1
         /\ Single(s, x) => Cardinality({i \in DOMAIN s : s[i] = x}) <= 1
<1> DEFINE P == {i \in DOMAIN s : s[i] = x}
<1>1. DOMAIN s = 1 .. Len(s)
  BY ItemsOf
<1>2. ASSUME NEW i, P = {i} PROVE Cardinality(P) = 1
  BY <1>2, FS_Singleton
<1>3. ASSUME P = {} PROVE Cardinality(P) = 0
  BY <1>3, FS_EmptySet
<1>4. ASSUME Once(s, x) PROVE Cardinality(P) = 1
  <2>1. PICK i \in 1 .. Len(s) : \A j \in 1 .. Len(s) : s[j] = x <=> j = i
    BY <1>4 DEF Once
  <2>2. P = {i}
    BY <1>1, <2>1
  <2> QED
    BY <1>2, <2>2
<1>5. ASSUME Single(s, x) PROVE Cardinality(P) <= 1
  <2>1. CASE P = {}
    BY <1>3, <2>1
  <2>2. CASE P # {}
    <3>1. PICK i : i \in P
      BY <2>2
    <3>2. P = {i}
      BY <1>1, <1>5, <3>1 DEF Single
    <3>3. Cardinality(P) = 1
      BY <1>2, <3>2
    <3> QED
      BY <3>3
  <2> QED
    BY <2>1, <2>2
<1> QED
  BY <1>4, <1>5

(***************************************************************************)
(* Loops over a sequence                                                   *)
(***************************************************************************)
\* What holds first, and of each place when of the one before, holds everywhere.
LEMMA StaysIn ==
  ASSUME NEW n \in Nat, NEW f, NEW G, f[0] \in G[0],
         \A k \in 1 .. n : f[k - 1] \in G[k - 1] => f[k] \in G[k]
  PROVE  \A k \in 0 .. n : f[k] \in G[k]
<1> DEFINE Fails == {k \in 0 .. n : f[k] \notin G[k]}
<1>1. SUFFICES ASSUME Fails # {} PROVE FALSE
  OBVIOUS
<1>2. Fails \in SUBSET Nat
  OBVIOUS
<1>3. PICK k \in Fails : \A m \in Fails : k <= m
  BY <1>1, <1>2, Least
<1>4. k \in 0 .. n /\ f[k] \notin G[k]
  OBVIOUS
<1>5. k # 0
  BY <1>4
<1>6. k \in 1 .. n /\ k - 1 \in 0 .. n /\ ~(k <= k - 1)
  BY <1>4, <1>5
<1>7. k - 1 \notin Fails
  BY <1>3, <1>6
<1>8. f[k - 1] \in G[k - 1]
  BY <1>6, <1>7
<1> QED
  BY <1>4, <1>6, <1>8

\* The states of a loop whose steps are functions.
LoopOf(n, start, step) == CHOOSE f : f[0] = start /\ \A k \in 1 .. n : f[k] = step[k][f[k - 1]]

LEMMA LoopRuns ==
  ASSUME NEW n \in Nat, NEW start, NEW step
  PROVE  LET f == LoopOf(n, start, step)
         IN f[0] = start /\ \A k \in 1 .. n : f[k] = step[k][f[k - 1]]
<1> DEFINE Runs(f, m) == f[0] = start /\ \A k \in 1 .. m : f[k] = step[k][f[k - 1]]
           Fails == {m \in Nat : ~\E f : Runs(f, m)}
<1>1. SUFFICES ASSUME Fails # {} PROVE FALSE
  <2>1. (\E f : Runs(f, n)) => Runs(LoopOf(n, start, step), n)
    BY DEF LoopOf
  <2> QED
    BY <2>1
<1>2. PICK m \in Fails : \A l \in Fails : m <= l
  <2>1. Fails \in SUBSET Nat
    OBVIOUS
  <2> HIDE DEF Fails
  <2> QED
    BY <1>1, <2>1, Least
<1>3. m \in Nat /\ ~\E f : Runs(f, m)
  OBVIOUS
<1>4. m # 0
  <2> DEFINE f == [k \in 0 .. 0 |-> start]
  <2>1. Runs(f, 0)
    OBVIOUS
  <2> HIDE DEF f, Runs
  <2> QED
    BY <1>3, <2>1
<1>5. m - 1 \in Nat /\ ~(m <= m - 1)
  BY <1>3, <1>4
<1>6. m - 1 \notin Fails
  <2> HIDE DEF Fails
  <2> QED
    BY <1>2, <1>5
<1>7. PICK f : Runs(f, m - 1)
  BY <1>5, <1>6
<1> DEFINE g == [k \in 0 .. m |-> IF k = m THEN step[m][f[m - 1]] ELSE f[k]]
<1>8. g[0] = start
  BY <1>3, <1>4, <1>7
<1>9. ASSUME NEW k \in 1 .. m PROVE g[k] = step[k][g[k - 1]]
  <2>1. k - 1 \in 0 .. m /\ k - 1 # m /\ k \in 0 .. m
    BY <1>3
  <2>2. CASE k = m
    BY <2>1, <2>2
  <2>3. CASE k # m
    <3>1. k \in 1 .. m - 1
      BY <1>3, <2>3
    <3> QED
      BY <1>7, <2>1, <2>3, <3>1
  <2> QED
    BY <2>2, <2>3
<1>10. Runs(g, m)
  <2> HIDE DEF g
  <2> QED
    BY <1>8, <1>9
<1> QED
  BY <1>3, <1>10

(***************************************************************************)
(* Selections that grow                                                    *)
(***************************************************************************)
LEMMA SelectedType ==
  ASSUME NEW n \in Nat, NEW P \in SUBSET (1 .. n), NEW S, NEW f, \A p \in P : f[p] \in S
  PROVE  /\ Selected(f, P) \in Seq(S)
         /\ Selected(f, P) = << >> <=> P = {}
<1> DEFINE at == InOrder(P)
           c == Cardinality(P)
           s == Selected(f, P)
<1>1. /\ c \in Nat /\ DOMAIN at = 1 .. c
      /\ \A k \in 1 .. c : at[k] \in P
  <2>1. Enumerates(at, P)
    BY InOrderIs
  <2> HIDE DEF at
  <2>2. c \in Nat /\ DOMAIN at = 1 .. c
    BY <2>1, EnumerationIs
  <2>3. \A k \in 1 .. c : at[k] \in P
    BY <2>1, EnumerationIs
  <2> QED
    BY <2>2, <2>3
<1>2. s = [k \in 1 .. c |-> f[at[k]]]
  BY <1>1 DEF Selected
<1> HIDE DEF at, c, s
<1>3. s \in [1 .. c -> S]
  BY <1>1, <1>2
<1>4. s \in Seq(S)
  BY <1>1, <1>3, SeqDef
<1>5. Len(s) = c
  <2>1. DOMAIN s = 1 .. Len(s) /\ Len(s) \in Nat
    BY <1>4, LenProperties
  <2> QED
    BY <1>1, <1>2, <2>1
<1>6. s = << >> <=> c = 0
  <2>1. s = << >> => Len(s) = 0
    BY EmptySeq
  <2>2. s # << >> => Len(s) # 0
    BY <1>4, EmptySeq
  <2> QED
    BY <1>5, <2>1, <2>2
<1>7. c = 0 <=> P = {}
  <2>1. IsFiniteSet(P)
    BY PlacesFinite
  <2> QED
    BY <2>1, FS_EmptySet DEF c
<1> QED
  BY <1>4, <1>6, <1>7 DEF s

LEMMA SelectedAlike ==
  ASSUME NEW n \in Nat, NEW P \in SUBSET (1 .. n), NEW f, NEW g, \A p \in P : f[p] = g[p]
  PROVE  Selected(f, P) = Selected(g, P)
<1> DEFINE at == InOrder(P)
           c == Cardinality(P)
<1>1. DOMAIN at = 1 .. c /\ \A k \in 1 .. c : at[k] \in P
  <2>1. Enumerates(at, P)
    BY InOrderIs
  <2> HIDE DEF at
  <2> QED
    BY ONLY n \in Nat, P \in SUBSET (1 .. n), <2>1, EnumerationIs
<1>2. Selected(f, P) = [k \in DOMAIN at |-> f[at[k]]] /\ Selected(g, P) = [k \in DOMAIN at |-> g[at[k]]]
  BY DEF Selected
<1> HIDE DEF at, c
<1> QED
  BY <1>1, <1>2

LEMMA SelectedGrows ==
  ASSUME NEW n \in Nat, NEW P \in SUBSET (1 .. n), NEW m \in Nat, m > n, NEW S, NEW f,
         \A p \in P : f[p] \in S, f[m] \in S
  PROVE  Selected(f, P \cup {m}) = Append(Selected(f, P), f[m])
<1> DEFINE at == InOrder(P)
           c == Cardinality(P)
           bt == [k \in 1 .. c + 1 |-> IF k = c + 1 THEN m ELSE at[k]]
           s == Selected(f, P)
           t == Selected(f, P \cup {m})
<1>1. Enumerates(at, P)
  BY InOrderIs
<1>2. c \in Nat /\ DOMAIN at = 1 .. c
  BY <1>1, EnumerationIs
<1>3. Enumerates(bt, P \cup {m})
  BY <1>1, EnumerationGrows
<1>4. m \in Nat /\ P \cup {m} \in SUBSET (1 .. m)
  OBVIOUS
<1>5. InOrder(P \cup {m}) = bt
  <2> HIDE DEF bt
  <2> QED
    BY <1>3, <1>4, InOrderOf
<1>6. t = [k \in 1 .. c + 1 |-> f[bt[k]]]
  BY <1>5 DEF Selected
<1>7. s = [k \in 1 .. c |-> f[at[k]]]
  BY <1>2 DEF Selected
<1>8. s \in Seq(S)
  BY SelectedType
<1>9. Len(s) = c
  <2>1. DOMAIN s = 1 .. Len(s) /\ Len(s) \in Nat
    BY <1>8, LenProperties
  <2> HIDE DEF s, c
  <2> QED
    BY <1>2, <1>7, <2>1
<1> HIDE DEF at, c, s, t
<1>10. \A k \in 1 .. c : t[k] = s[k]
  BY <1>2, <1>6, <1>7
<1>11. t[c + 1] = f[m]
  BY <1>2, <1>6
<1>12. t \in Seq(S)
  <2>1. \A p \in P \cup {m} : f[p] \in S
    OBVIOUS
  <2> QED
    BY <1>4, <2>1, SelectedType DEF t
<1>13. DOMAIN t = 1 .. c + 1 /\ c + 1 \in Nat
  BY <1>2, <1>6
<1>14. Len(t) = c + 1
  <2>1. DOMAIN t = 1 .. Len(t) /\ Len(t) \in Nat
    BY <1>12, LenProperties
  <2> QED
    BY <1>13, <2>1
<1>15. /\ Append(s, f[m]) \in Seq(S) /\ Len(Append(s, f[m])) = c + 1
       /\ \A k \in 1 .. c : Append(s, f[m])[k] = s[k]
       /\ Append(s, f[m])[c + 1] = f[m]
  BY <1>8, <1>9, AppendProperties
<1>16. \A k \in 1 .. c + 1 : t[k] = Append(s, f[m])[k]
  BY <1>2, <1>10, <1>11, <1>15
<1> HIDE DEF bt
<1>17. t = Append(s, f[m])
  BY <1>12, <1>14, <1>15, <1>16, SeqEqual
<1> QED
  BY <1>17 DEF s, t

(***************************************************************************)
(* Pieces one behind the other                                             *)
(***************************************************************************)
LEMMA FlatLoop ==
  ASSUME NEW S, NEW pieces \in Seq(Seq(S))
  PROVE  \E f : /\ f[0] = << >> /\ \A k \in 1 .. Len(pieces) : f[k] = f[k - 1] \o pieces[k]
                /\ \A k \in 0 .. Len(pieces) : f[k] \in Seq(S)
                /\ Flat(pieces) = f[Len(pieces)]
<1> DEFINE n == Len(pieces)
           step == [k \in 1 .. n |-> [s \in Seq(S) |-> s \o pieces[k]]]
           Loop(f) == f = [k \in 0 .. n |-> IF k = 0 THEN << >> ELSE f[k - 1] \o pieces[k]]
           G == [k \in 0 .. n |-> Seq(S)]
           flat == CHOOSE f : Loop(f)
<1>1. n \in Nat /\ \A k \in 1 .. n : pieces[k] \in Seq(S)
  BY LenProperties, ElementOfSeq
<1>2. Flat(pieces) = flat[n]
  BY DEF Flat
<1> HIDE DEF n
<1>3. << >> \in Seq(S)
  BY EmptySeq
<1>4. ASSUME NEW f, Loop(f) PROVE \A k \in 0 .. n : f[k] \in Seq(S)
  <2>1. f[0] = << >> /\ \A k \in 1 .. n : f[k] = f[k - 1] \o pieces[k]
    <3>1. \A k \in 0 .. n : f[k] = IF k = 0 THEN << >> ELSE f[k - 1] \o pieces[k]
      BY <1>4
    <3>2. 0 \in 0 .. n /\ \A k \in 1 .. n : k \in 0 .. n /\ k # 0
      BY <1>1
    <3> QED
      BY ONLY <3>1, <3>2
  <2>2. ASSUME NEW k \in 1 .. n, f[k - 1] \in Seq(S) PROVE f[k] \in Seq(S)
    BY <1>1, <2>1, <2>2, ConcatProperties
  <2>3. f[0] \in G[0] /\ \A k \in 1 .. n : f[k - 1] \in G[k - 1] => f[k] \in G[k]
    BY <1>1, <1>3, <2>1, <2>2
  <2>4. \A k \in 0 .. n : G[k] = Seq(S)
    OBVIOUS
  <2> HIDE DEF G
  <2>5. \A k \in 0 .. n : f[k] \in G[k]
    BY <1>1, <2>3, StaysIn
  <2> QED
    BY <2>4, <2>5
<1>5. \E f : Loop(f)
  <2> DEFINE f == LoopOf(n, << >>, step)
  <2>1. f[0] = << >> /\ \A k \in 1 .. n : f[k] = step[k][f[k - 1]]
    <3> HIDE DEF step
    <3> QED
      BY <1>1, LoopRuns
  <2> HIDE DEF f
  <2>3. ASSUME NEW k \in 1 .. n, f[k - 1] \in Seq(S) PROVE f[k] = f[k - 1] \o pieces[k] /\ f[k] \in Seq(S)
    <3>1. f[k] = f[k - 1] \o pieces[k]
      BY <2>1, <2>3
    <3> QED
      BY <1>1, <2>3, <3>1, ConcatProperties
  <2>4. f[0] \in G[0] /\ \A k \in 1 .. n : f[k - 1] \in G[k - 1] => f[k] \in G[k]
    <3>1. f[0] \in G[0]
      BY <1>1, <1>3, <2>1
    <3>2. ASSUME NEW k \in 1 .. n, f[k - 1] \in G[k - 1] PROVE f[k] \in G[k]
      <4>1. k \in 0 .. n /\ k - 1 \in 0 .. n
        BY <1>1
      <4> QED
        BY <2>3, <3>2, <4>1
    <3> QED
      BY <3>1, <3>2
  <2>5. \A k \in 0 .. n : G[k] = Seq(S)
    OBVIOUS
  <2> HIDE DEF G, step
  <2>6. \A k \in 0 .. n : f[k] \in Seq(S)
    <3>1. \A k \in 0 .. n : f[k] \in G[k]
      BY <1>1, <2>4, StaysIn
    <3> QED
      BY <2>5, <3>1
  <2>7. \A k \in 1 .. n : f[k] = f[k - 1] \o pieces[k]
    <3>1. \A k \in 1 .. n : k - 1 \in 0 .. n
      BY <1>1
    <3> QED
      BY <2>3, <2>6, <3>1
  <2> DEFINE h == [k \in 0 .. n |-> f[k]]
  <2>8. ASSUME NEW k \in 0 .. n PROVE h[k] = IF k = 0 THEN << >> ELSE h[k - 1] \o pieces[k]
    <3>1. CASE k = 0
      BY <2>1, <3>1
    <3>2. CASE k # 0
      <4>1. k \in 1 .. n /\ k - 1 \in 0 .. n
        BY <1>1, <3>2
      <4> QED
        BY <2>7, <3>2, <4>1
    <3> QED
      BY <3>1, <3>2
  <2>9. h = [k \in 0 .. n |-> h[k]]
    OBVIOUS
  <2> HIDE DEF h
  <2>10. Loop(h)
    BY <2>8, <2>9
  <2> QED
    BY <2>10
<1>6. Loop(flat)
  <2> HIDE DEF Loop
  <2> QED
    BY <1>5
<1> HIDE DEF flat
<1>7. flat[0] = << >> /\ \A k \in 1 .. n : flat[k] = flat[k - 1] \o pieces[k]
  <2>1. \A k \in 0 .. n : flat[k] = IF k = 0 THEN << >> ELSE flat[k - 1] \o pieces[k]
    BY <1>6
  <2>2. 0 \in 0 .. n /\ \A k \in 1 .. n : k \in 0 .. n /\ k # 0
    BY <1>1
  <2> QED
    BY ONLY <2>1, <2>2
<1>8. \A k \in 0 .. n : flat[k] \in Seq(S)
  BY <1>4, <1>6
<1> QED
  BY <1>2, <1>7, <1>8 DEF n

LEMMA FlatIs ==
  ASSUME NEW S, NEW pieces \in Seq(Seq(S))
  PROVE  /\ Flat(pieces) \in Seq(S)
         /\ pieces = << >> => Flat(pieces) = << >>
<1>1. PICK f : /\ f[0] = << >>
               /\ \A k \in 0 .. Len(pieces) : f[k] \in Seq(S)
               /\ Flat(pieces) = f[Len(pieces)]
  BY FlatLoop
<1>2. Len(pieces) \in Nat /\ (pieces = << >> => Len(pieces) = 0)
  BY LenProperties, EmptySeq
<1> QED
  BY <1>1, <1>2

LEMMA FlatGrows ==
  ASSUME NEW S, NEW pieces \in Seq(Seq(S)), NEW piece \in Seq(S)
  PROVE  Flat(Append(pieces, piece)) = Flat(pieces) \o piece
<1> DEFINE n == Len(pieces)
           more == Append(pieces, piece)
<1>1. /\ more \in Seq(Seq(S)) /\ Len(more) = n + 1 /\ more[n + 1] = piece
      /\ \A k \in 1 .. n : more[k] = pieces[k]
  BY AppendProperties
<1>2. n \in Nat
  BY LenProperties
<1>3. PICK f : /\ f[0] = << >> /\ \A k \in 1 .. n : f[k] = f[k - 1] \o pieces[k]
               /\ Flat(pieces) = f[n]
  BY FlatLoop
<1> HIDE DEF more
<1>4. PICK h : /\ h[0] = << >> /\ \A k \in 1 .. Len(more) : h[k] = h[k - 1] \o more[k]
               /\ Flat(more) = h[Len(more)]
  BY <1>1, FlatLoop
<1> HIDE DEF n
<1> DEFINE G == [k \in 0 .. n |-> {h[k]}]
<1>5. f[0] \in G[0] /\ \A k \in 1 .. n : f[k - 1] \in G[k - 1] => f[k] \in G[k]
  <2>1. f[0] \in G[0]
    BY <1>2, <1>3, <1>4
  <2>2. ASSUME NEW k \in 1 .. n, f[k - 1] \in G[k - 1] PROVE f[k] \in G[k]
    <3>1. k - 1 \in 0 .. n /\ k \in 0 .. n /\ k \in 1 .. n + 1
      BY <1>2
    <3>2. f[k - 1] = h[k - 1] /\ h[k] = h[k - 1] \o more[k] /\ more[k] = pieces[k]
      BY <1>1, <1>4, <2>2, <3>1
    <3> QED
      BY <1>3, <3>1, <3>2
  <2> QED
    BY <2>1, <2>2
<1>6. f[n] = h[n]
  <2>1. \A k \in 0 .. n : G[k] = {h[k]}
    OBVIOUS
  <2> HIDE DEF G
  <2>2. \A k \in 0 .. n : f[k] \in G[k]
    BY <1>2, <1>5, StaysIn
  <2> QED
    BY <1>2, <2>1, <2>2
<1>7. h[n + 1] = h[n] \o piece
  <2>1. n + 1 \in 1 .. Len(more) /\ (n + 1) - 1 = n
    BY <1>1, <1>2
  <2> QED
    BY <1>1, <1>4, <2>1
<1> QED
  BY <1>1, <1>3, <1>4, <1>6, <1>7 DEF more

\* A stretch of a sequence with the next item.
LEMMA StretchGrows ==
  ASSUME NEW S, NEW s \in Seq(S), NEW a \in Nat \ {0}, NEW m \in Nat, a <= m + 1, m + 1 <= Len(s)
  PROVE  SubSeq(s, a, m + 1) = Append(SubSeq(s, a, m), s[m + 1])
<1>1. Len(s) \in Nat /\ \A i \in 1 .. Len(s) : s[i] \in S
  BY LenProperties, ElementOfSeq
<1>2. a \in 1 .. Len(s) /\ m + 1 \in a .. Len(s) /\ (m + 1) - 1 = m /\ s[m + 1] \in S
  BY <1>1
<1>3. SubSeq(s, a, m + 1) = SubSeq(s, a, m) \o <<s[m + 1]>>
  <2> DEFINE l == m + 1
  <2>1. l \in a .. Len(s) /\ l - 1 = m
    BY <1>2
  <2> HIDE DEF l
  <2>2. SubSeq(s, a, l) = SubSeq(s, a, l - 1) \o <<s[l]>>
    BY <1>2, <2>1, SubSeqRecursiveSecond
  <2> QED
    BY <2>1, <2>2 DEF l
<1>4. SubSeq(s, a, m) \in Seq(S)
  <2>1. \A i \in a .. m : s[i] \in S
    BY <1>1
  <2> QED
    BY <2>1, SubSeqProperties
<1> QED
  BY <1>2, <1>3, <1>4, AppendIsConcat

LEMMA Regrouped ==
  ASSUME NEW S
  PROVE  \A a, b, c \in Seq(S) : (a \o b) \o c = a \o (b \o c)
BY ONLY ConcatAssociative

(***************************************************************************)
(* The selections                                                          *)
(***************************************************************************)
LEMMA UniqueIs ==
  ASSUME NEW S, NEW s \in Seq(S)
  PROVE  Unique(s) \in Seq(S) /\ ToSet(Unique(s)) = ToSet(s) /\ Injective(Unique(s))
<1> DEFINE n == Len(s)
           P == {i \in DOMAIN s : \A j \in 1 .. i - 1 : s[j] # s[i]}
           t == Unique(s)
<1>1. n \in Nat /\ DOMAIN s = 1 .. n
  BY ItemsOf
<1>2. P \in SUBSET (1 .. n)
  BY <1>1
<1>3. ASSUME NEW i \in 1 .. n PROVE \E p \in P : s[p] = s[i]
  <2> DEFINE N == {j \in 1 .. n : s[j] = s[i]}
  <2>1. N \in SUBSET Nat /\ N # {}
    OBVIOUS
  <2>2. PICK p \in N : \A m \in N : p <= m
    BY <2>1, Least
  <2>3. ASSUME NEW j \in 1 .. p - 1 PROVE s[j] # s[p]
    <3>1. j \in 1 .. n /\ ~(p <= j)
      BY <1>1
    <3> QED
      BY <2>2, <3>1
  <2>4. p \in P
    BY <1>1, <2>3
  <2> QED
    BY <2>4
<1>4. ASSUME NEW p \in P, NEW q \in P, s[p] = s[q] PROVE p = q
  <2>1. p \in 1 .. n /\ q \in 1 .. n
    BY <1>1
  <2>2. ~(p < q) /\ ~(q < p)
    <3>1. p < q => p \in 1 .. q - 1
      BY <2>1
    <3>2. q < p => q \in 1 .. p - 1
      BY <2>1
    <3> QED
      BY <1>4, <3>1, <3>2
  <2> QED
    BY <2>1, <2>2
<1> HIDE DEF P
<1>5. /\ t \in Seq(S)
      /\ \A p \in P : \E k \in 1 .. Len(t) : t[k] = s[p]
      /\ \A k \in 1 .. Len(t) : \E p \in P : t[k] = s[p]
      /\ (\A p, q \in P : s[p] = s[q] => p = q) => \A i, j \in 1 .. Len(t) : t[i] = t[j] => i = j
  <2>1. t = Selected(s, P)
    BY DEF Unique, P
  <2> HIDE DEF t
  <2>2. /\ Selected(s, P) \in Seq(S)
        /\ \A p \in P : \E k \in 1 .. Len(Selected(s, P)) : Selected(s, P)[k] = s[p]
        /\ \A k \in 1 .. Len(Selected(s, P)) : \E p \in P : Selected(s, P)[k] = s[p]
        /\ (\A p, q \in P : s[p] = s[q] => p = q) => \A i, j \in 1 .. Len(Selected(s, P)) : Selected(s, P)[i] = Selected(s, P)[j] => i = j
    BY <1>2, SelectedIs
  <2> QED
    BY <2>1, <2>2
<1> HIDE DEF t
<1>6. Injective(t)
  BY <1>4, <1>5 DEF Injective
<1>7. \A x \in ToSet(t) : x \in ToSet(s)
  <2>1. TAKE x \in ToSet(t)
  <2>2. PICK k \in 1 .. Len(t) : t[k] = x
    BY <1>5, ItemsOf
  <2>3. PICK p \in P : t[k] = s[p]
    BY <1>5
  <2>4. p \in 1 .. Len(s)
    BY <1>2
  <2> QED
    BY <2>2, <2>3, <2>4, ItemsOf
<1>8. \A x \in ToSet(s) : x \in ToSet(t)
  <2>1. TAKE x \in ToSet(s)
  <2>2. PICK i \in 1 .. n : s[i] = x
    BY ItemsOf
  <2>3. PICK p \in P : s[p] = s[i]
    BY <1>3
  <2>4. PICK k \in 1 .. Len(t) : t[k] = s[p]
    BY <1>5
  <2> QED
    BY <1>5, <2>2, <2>3, <2>4, ItemsOf
<1> QED
  BY <1>5, <1>6, <1>7, <1>8 DEF t

LEMMA WithoutIs ==
  ASSUME NEW S, NEW s \in Seq(S), NEW X
  PROVE  /\ Without(s, X) \in Seq(S) /\ ToSet(Without(s, X)) = ToSet(s) \ X
<1> DEFINE P == {i \in DOMAIN s : s[i] \notin X}
           t == Without(s, X)
<1>1. DOMAIN s = 1 .. Len(s)
  BY ItemsOf
<1>2. P \in SUBSET (1 .. Len(s))
  BY <1>1
<1>3. \A p \in P : s[p] \notin X
  OBVIOUS
<1>4. \A i \in 1 .. Len(s) : s[i] \notin X => i \in P
  BY <1>1
<1> HIDE DEF P
<1>5. /\ t \in Seq(S)
      /\ \A p \in P : \E k \in 1 .. Len(t) : t[k] = s[p]
      /\ \A k \in 1 .. Len(t) : \E p \in P : t[k] = s[p]
  <2>1. t = Selected(s, P)
    BY DEF Without, P
  <2> HIDE DEF t
  <2>2. /\ Selected(s, P) \in Seq(S)
        /\ \A p \in P : \E k \in 1 .. Len(Selected(s, P)) : Selected(s, P)[k] = s[p]
        /\ \A k \in 1 .. Len(Selected(s, P)) : \E p \in P : Selected(s, P)[k] = s[p]
    BY <1>2, SelectedIs
  <2> QED
    BY <2>1, <2>2
<1> HIDE DEF t
<1>6. \A x \in ToSet(t) : x \in ToSet(s) \ X
  <2>1. TAKE x \in ToSet(t)
  <2>2. PICK k \in 1 .. Len(t) : t[k] = x
    BY <1>5, ItemsOf
  <2>3. PICK p \in P : t[k] = s[p]
    BY <1>5
  <2>4. p \in 1 .. Len(s) /\ s[p] \notin X
    BY <1>2, <1>3
  <2> QED
    BY <2>2, <2>3, <2>4, ItemsOf
<1>7. \A x \in ToSet(s) \ X : x \in ToSet(t)
  <2>1. TAKE x \in ToSet(s) \ X
  <2>2. PICK i \in 1 .. Len(s) : s[i] = x
    BY ItemsOf
  <2>3. i \in P
    BY <1>4, <2>2
  <2>4. PICK k \in 1 .. Len(t) : t[k] = s[i]
    BY <1>5, <2>3
  <2> QED
    BY <1>5, <2>2, <2>4, ItemsOf
<1> QED
  BY <1>5, <1>6, <1>7 DEF t

\* An item of a sequence in which no two are the same stands once.
LEMMA OnceOf ==
  ASSUME NEW S, NEW s \in Seq(S), Injective(s)
  PROVE  /\ \A x \in ToSet(s) : Once(s, x)
         /\ \A x : Single(s, x)
<1>1. ASSUME NEW x \in ToSet(s) PROVE Once(s, x)
  <2>1. PICK i \in 1 .. Len(s) : s[i] = x
    BY ItemsOf
  <2>2. \A j \in 1 .. Len(s) : s[j] = x <=> j = i
    BY <2>1 DEF Injective
  <2> QED
    BY <2>2 DEF Once
<1>2. ASSUME NEW x PROVE Single(s, x)
  BY DEF Injective, Single
<1> QED
  BY <1>1, <1>2

LEMMA TaggedIs ==
  ASSUME NEW S, NEW s \in Seq(S), NEW kinds, NEW kind \in kinds
  PROVE  /\ Tagged(kind, s) \in Seq(kinds \X S)
         /\ ToSet(Tagged(kind, s)) = {<<kind, x>> : x \in ToSet(s)}
         /\ Injective(s) => Injective(Tagged(kind, s))
<1> DEFINE t == Tagged(kind, s)
<1>1. Len(s) \in Nat /\ DOMAIN s = 1 .. Len(s) /\ \A i \in 1 .. Len(s) : s[i] \in S
  BY ItemsOf, ElementOfSeq
<1>2. t = [i \in 1 .. Len(s) |-> <<kind, s[i]>>]
  BY <1>1 DEF Tagged
<1> HIDE DEF t
<1>3. t \in [1 .. Len(s) -> kinds \X S]
  BY <1>1, <1>2
<1>4. t \in Seq(kinds \X S) /\ DOMAIN t = 1 .. Len(s)
  BY <1>1, <1>2, <1>3, SeqDef
<1>5. Len(t) = Len(s)
  BY <1>1, <1>4, LenProperties
<1>6. ToSet(t) = {<<kind, x>> : x \in ToSet(s)}
  BY <1>1, <1>2 DEF ToSet
<1>7. Injective(s) => Injective(t)
  BY <1>2, <1>5 DEF Injective
<1> QED
  BY <1>4, <1>6, <1>7 DEF t

LEMMA MappedIs ==
  ASSUME NEW S, NEW s \in Seq(S), NEW T, NEW f \in [S -> T]
  PROVE  /\ Mapped(s, f) \in Seq(T) /\ ToSet(Mapped(s, f)) = {f[x] : x \in ToSet(s)}
<1> DEFINE t == Mapped(s, f)
<1>1. Len(s) \in Nat /\ DOMAIN s = 1 .. Len(s) /\ \A i \in 1 .. Len(s) : s[i] \in S
  BY ItemsOf, ElementOfSeq
<1>2. t = [i \in 1 .. Len(s) |-> f[s[i]]]
  BY <1>1 DEF Mapped
<1> HIDE DEF t
<1>3. t \in [1 .. Len(s) -> T]
  BY <1>1, <1>2
<1>4. t \in Seq(T)
  BY <1>1, <1>3, SeqDef
<1>5. ToSet(t) = {f[x] : x \in ToSet(s)}
  BY <1>1, <1>2 DEF ToSet
<1> QED
  BY <1>4, <1>5 DEF t

(***************************************************************************)
(* The tokens of an account                                                *)
(***************************************************************************)
Inputs == [slots : [1 .. Slots -> Tokens \cup {Free}], market : ToSet(Perps),
           mintInfos : {Tokens} \cup {Tokens \ {t} : t \in Tokens \ {Settlement}},
           oracle : [Tokens -> OracleKeys], fallback : [OracleKeys -> FallbackLists]]

Wanted(given) == (ToSet(given.slots) \ {Free}) \cup {Settlement}

LEMMA SlotsIs ==
  ASSUME NEW slots \in [1 .. Slots -> Tokens \cup {Free}]
  PROVE  /\ WithSettlement(slots) \in Seq(Tokens \cup {Free})
         /\ Settlement \in ToSet(WithSettlement(slots)) =>
              ToSet(WithSettlement(slots)) \ {Free} = (ToSet(slots) \ {Free}) \cup {Settlement}
<1> DEFINE free == {i \in DOMAIN slots : slots[i] = Free}
           w == WithSettlement(slots)
<1>1. Slots \in Nat /\ Settlement \in Tokens /\ Free \notin Tokens /\ DOMAIN slots = 1 .. Slots
  BY IntentAccountsAssumption
<1>2. slots \in Seq(Tokens \cup {Free})
  BY <1>1, SeqDef
<1>3. CASE Settlement \in ToSet(slots) \/ free = {}
  <2>1. w = slots
    BY <1>3 DEF WithSettlement
  <2> QED
    BY <1>1, <1>2, <2>1
<1>4. CASE ~(Settlement \in ToSet(slots) \/ free = {})
  <2> DEFINE i == CHOOSE k \in free : \A j \in free : k <= j
  <2>1. free \in SUBSET Nat /\ free # {}
    BY <1>1, <1>4
  <2>2. i \in free
    <3>1. \E k \in free : \A j \in free : k <= j
      BY <2>1, Least
    <3> QED
      BY <3>1
  <2>3. w = [slots EXCEPT ![i] = Settlement]
    BY <1>4 DEF WithSettlement
  <2> HIDE DEF i, w
  <2>4. i \in 1 .. Slots /\ slots[i] = Free
    BY <1>1, <2>2
  <2>5. w \in [1 .. Slots -> Tokens \cup {Free}] /\ w[i] = Settlement /\ \A j \in 1 .. Slots : j # i => w[j] = slots[j]
    BY <1>1, <2>3, <2>4
  <2>6. w \in Seq(Tokens \cup {Free})
    BY <1>1, <2>5, SeqDef
  <2>7. ToSet(w) \ {Free} = (ToSet(slots) \ {Free}) \cup {Settlement}
    <3>1. DOMAIN w = 1 .. Slots
      BY <2>5
    <3>2. \A x \in ToSet(w) \ {Free} : x \in (ToSet(slots) \ {Free}) \cup {Settlement}
      BY <1>1, <2>5, <3>1 DEF ToSet
    <3>3. \A x \in ToSet(slots) \ {Free} : x \in ToSet(w)
      BY <1>1, <2>4, <2>5, <3>1 DEF ToSet
    <3>4. Settlement \in ToSet(w) \ {Free}
      BY <1>1, <2>4, <2>5, <3>1 DEF ToSet
    <3> QED
      BY <3>2, <3>3, <3>4
  <2> QED
    BY <2>6, <2>7 DEF w
<1> QED
  BY <1>3, <1>4

LEMMA HeldIs ==
  ASSUME NEW given \in Inputs
  PROVE  /\ HeldTokens(given) \in Seq(Tokens) /\ Injective(HeldTokens(given))
         /\ Settlement \in ToSet(WithSettlement(given.slots)) => ToSet(HeldTokens(given)) = Wanted(given)
<1> DEFINE w == WithSettlement(given.slots)
           v == Without(w, {Free})
           h == HeldTokens(given)
<1>1. /\ w \in Seq(Tokens \cup {Free})
      /\ Settlement \in ToSet(w) => ToSet(w) \ {Free} = Wanted(given)
  BY SlotsIs DEF Inputs, Wanted
<1> HIDE DEF w
<1>2. v \in Seq(Tokens \cup {Free}) /\ ToSet(v) = ToSet(w) \ {Free}
  BY <1>1, WithoutIs
<1> HIDE DEF v
<1>3. h = Unique(v)
  BY DEF HeldTokens, v, w
<1> HIDE DEF h
<1>4. h \in Seq(Tokens \cup {Free}) /\ ToSet(h) = ToSet(w) \ {Free} /\ Injective(h)
  BY <1>2, <1>3, UniqueIs
<1>5. Len(h) \in Nat /\ ToSet(h) \subseteq Tokens /\ DOMAIN h = 1 .. Len(h) /\ \A i \in 1 .. Len(h) : h[i] \in ToSet(h)
  BY <1>4, ItemsOf
<1>6. h \in [1 .. Len(h) -> Tokens]
  BY <1>4, <1>5, LenProperties
<1>7. h \in Seq(Tokens)
  BY <1>5, <1>6, SeqDef
<1> QED
  BY <1>1, <1>4, <1>7 DEF h, w

(***************************************************************************)
(* The keys of the health accounts                                         *)
(***************************************************************************)
Kinds == {"bank", "oracle", "perpMarket", "perpOracle", "bids", "asks", "eventQueue"}

Things == Tokens \cup OracleKeys \cup {NoOracle} \cup ToSet(Perps)

AccountKeys == {<<"group">>, <<"account">>, <<"owner">>} \cup (Kinds \X Things)

LEMMA TaggedKeys ==
  ASSUME NEW S \in SUBSET Things, NEW s \in Seq(S), NEW kind \in Kinds
  PROVE  /\ Tagged(kind, s) \in Seq(AccountKeys)
         /\ ToSet(Tagged(kind, s)) = {<<kind, x>> : x \in ToSet(s)}
         /\ \A x \in ToSet(Tagged(kind, s)) : x[1] = kind
         /\ Injective(s) => Injective(Tagged(kind, s))
<1> DEFINE t == Tagged(kind, s)
<1>1. /\ t \in Seq(Kinds \X S) /\ ToSet(t) = {<<kind, x>> : x \in ToSet(s)}
      /\ Injective(s) => Injective(t)
  BY TaggedIs
<1> HIDE DEF t
<1>2. Kinds \X S \subseteq AccountKeys
  BY DEF AccountKeys
<1>3. t \in Seq(AccountKeys)
  BY <1>1, <1>2, SeqMonotonic
<1> QED
  BY <1>1, <1>3 DEF t

LEMMA FallbacksIs ==
  ASSUME NEW given \in Inputs
  PROVE  /\ TokenOracles(given) \in Seq(AccountKeys)
         /\ ToSet(TokenOracles(given)) = {<<"oracle", given.oracle[t]>> : t \in ToSet(HeldTokens(given))}
         /\ Fallbacks(given) \in Seq(AccountKeys) /\ Injective(Fallbacks(given))
         /\ \A x \in ToSet(Fallbacks(given)) : x[1] = "oracle"
<1> DEFINE h == HeldTokens(given)
           o == HeldOracles(given)
           p == Mapped(o, given.fallback)
           f == Flat(p)
           tf == Tagged("oracle", f)
           X == {<<"oracle", NoOracle>>} \cup ToSet(TokenOracles(given))
           v == Without(tf, X)
           u == Fallbacks(given)
<1>1. h \in Seq(Tokens) /\ ToSet(h) \subseteq Tokens
  BY HeldIs, ItemsOf
<1>2. given.oracle \in [Tokens -> OracleKeys] /\ given.fallback \in [OracleKeys -> Seq(OracleKeys \cup {NoOracle})]
  BY IntentAccountsAssumption DEF Inputs
<1>3. TokenOracles(given) = Tagged("oracle", o) /\ u = Unique(v)
  BY DEF TokenOracles, Fallbacks
<1>4. o \in Seq(OracleKeys) /\ ToSet(o) = {given.oracle[t] : t \in ToSet(h)}
  <2> HIDE DEF h
  <2>1. o = Mapped(h, given.oracle)
    BY DEF HeldOracles, h
  <2> QED
    BY <1>1, <1>2, <2>1, MappedIs
<1> HIDE DEF h, u, o
<1>5. f \in Seq(OracleKeys \cup {NoOracle})
  <2>1. p \in Seq(Seq(OracleKeys \cup {NoOracle}))
    BY <1>2, <1>4, MappedIs
  <2> HIDE DEF p
  <2> QED
    BY <2>1, FlatIs
<1> HIDE DEF f
<1>6. "oracle" \in Kinds /\ OracleKeys \in SUBSET Things /\ OracleKeys \cup {NoOracle} \in SUBSET Things
  BY DEF Kinds, Things
<1>7. /\ Tagged("oracle", o) \in Seq(AccountKeys)
      /\ ToSet(Tagged("oracle", o)) = {<<"oracle", x>> : x \in ToSet(o)}
  BY <1>4, <1>6, TaggedKeys
<1>8. ToSet(TokenOracles(given)) = {<<"oracle", given.oracle[t]>> : t \in ToSet(h)}
  <2>1. {<<"oracle", x>> : x \in {given.oracle[t] : t \in ToSet(h)}} = {<<"oracle", given.oracle[t]>> : t \in ToSet(h)}
    OBVIOUS
  <2> QED
    BY <1>3, <1>4, <1>7, <2>1
<1>9. tf \in Seq(AccountKeys) /\ \A x \in ToSet(tf) : x[1] = "oracle"
  BY <1>5, <1>6, TaggedKeys
<1> HIDE DEF tf, X
<1>10. v \in Seq(AccountKeys) /\ ToSet(v) = ToSet(tf) \ X
  BY <1>9, WithoutIs
<1> HIDE DEF v
<1>11. u \in Seq(AccountKeys) /\ ToSet(u) = ToSet(v) /\ Injective(u)
  BY <1>3, <1>10, UniqueIs
<1>12. \A x \in ToSet(u) : x[1] = "oracle"
  BY <1>9, <1>10, <1>11
<1> QED
  BY <1>3, <1>7, <1>8, <1>11, <1>12 DEF u, h

LEMMA HealthIs ==
  ASSUME NEW given \in Inputs
  PROVE  LET keys == HealthKeys(given)
             wanted == ToSet(HeldTokens(given))
         IN /\ keys \in Seq(AccountKeys)
            /\ \A t \in wanted : Once(keys, <<"bank", t>>) /\ <<"oracle", given.oracle[t]>> \in ToSet(keys)
            /\ \A x \in ToSet(keys) : x[1] = "bank" => x[2] \in wanted
            /\ \A o : (\A t \in wanted : given.oracle[t] # o) => Single(keys, <<"oracle", o>>)
<1> DEFINE keys == HealthKeys(given)
           wanted == ToSet(HeldTokens(given))
           K == AccountKeys
           A == Tagged("bank", HeldTokens(given))
           B == TokenOracles(given)
           C == Tagged("perpMarket", Perps)
           D == Tagged("perpOracle", Perps)
           E == Fallbacks(given)
           AB == A \o B
           ABC == AB \o C
           ABCD == ABC \o D
<1>1. /\ A \in Seq(K) /\ ToSet(A) = {<<"bank", t>> : t \in wanted} /\ Injective(A)
      /\ \A x \in ToSet(A) : x[1] = "bank"
  <2>1. "bank" \in Kinds /\ Tokens \in SUBSET Things
    BY DEF Kinds, Things
  <2>2. HeldTokens(given) \in Seq(Tokens) /\ Injective(HeldTokens(given))
    BY HeldIs
  <2> QED
    BY <2>1, <2>2, TaggedKeys
<1>2. B \in Seq(K) /\ ToSet(B) = {<<"oracle", given.oracle[t]>> : t \in wanted}
  BY FallbacksIs
<1>3. /\ C \in Seq(K) /\ D \in Seq(K)
      /\ (\A x \in ToSet(C) : x[1] = "perpMarket") /\ \A x \in ToSet(D) : x[1] = "perpOracle"
  <2>1. "perpMarket" \in Kinds /\ "perpOracle" \in Kinds /\ ToSet(Perps) \in SUBSET Things
    BY DEF Kinds, Things
  <2>2. Perps \in Seq(ToSet(Perps))
    BY IntentAccountsAssumption
  <2> QED
    BY <2>1, <2>2, TaggedKeys
<1>4. E \in Seq(K) /\ Injective(E) /\ \A x \in ToSet(E) : x[1] = "oracle"
  BY FallbacksIs
<1>5. keys = ABCD \o E
  BY DEF HealthKeys
<1> HIDE DEF A, B, C, D, E, K, keys, wanted
<1>6. AB \in Seq(K) /\ ToSet(AB) = ToSet(A) \cup ToSet(B)
  BY <1>1, <1>2, ConcatIs
<1> HIDE DEF AB
<1>7. ABC \in Seq(K) /\ ToSet(ABC) = ToSet(AB) \cup ToSet(C)
  BY <1>3, <1>6, ConcatIs
<1> HIDE DEF ABC
<1>8. ABCD \in Seq(K) /\ ToSet(ABCD) = ToSet(ABC) \cup ToSet(D)
  BY <1>3, <1>7, ConcatIs
<1> HIDE DEF ABCD
<1>9. keys \in Seq(K) /\ ToSet(keys) = ToSet(ABCD) \cup ToSet(E)
  BY <1>4, <1>5, <1>8, ConcatIs
<1>10. \A x \in ToSet(B) : x[1] = "oracle"
  BY <1>2
<1>11. ASSUME NEW t \in wanted PROVE Once(keys, <<"bank", t>>) /\ <<"oracle", given.oracle[t]>> \in ToSet(keys)
  <2> DEFINE x == <<"bank", t>>
  <2>1. x[1] = "bank" /\ x \in ToSet(A)
    BY <1>1
  <2> HIDE DEF x
  <2>2. Once(A, x)
    BY <1>1, <2>1, OnceOf
  <2>3. x \notin ToSet(B) /\ x \notin ToSet(C) /\ x \notin ToSet(D) /\ x \notin ToSet(E)
    BY <1>3, <1>4, <1>10, <2>1
  <2>4. Once(AB, x)
    BY <1>1, <1>2, <2>2, <2>3, OnceJoined DEF AB
  <2>5. Once(ABC, x)
    BY <1>3, <1>6, <2>3, <2>4, OnceJoined DEF ABC
  <2>6. Once(ABCD, x)
    BY <1>3, <1>7, <2>3, <2>5, OnceJoined DEF ABCD
  <2>7. Once(keys, x)
    BY <1>4, <1>5, <1>8, <2>3, <2>6, OnceJoined
  <2>8. <<"oracle", given.oracle[t]>> \in ToSet(B)
    BY <1>2
  <2> QED
    BY <1>6, <1>7, <1>8, <1>9, <2>7, <2>8 DEF x
<1>12. ASSUME NEW x \in ToSet(keys), x[1] = "bank" PROVE x[2] \in wanted
  <2>1. x \in ToSet(A)
    BY <1>3, <1>4, <1>6, <1>7, <1>8, <1>9, <1>10, <1>12
  <2> QED
    BY <1>1, <2>1
<1>13. ASSUME NEW o, \A t \in wanted : given.oracle[t] # o PROVE Single(keys, <<"oracle", o>>)
  <2> DEFINE x == <<"oracle", o>>
  <2>1. x \notin ToSet(B)
    BY <1>2, <1>13
  <2>2. x[1] = "oracle"
    OBVIOUS
  <2> HIDE DEF x
  <2>3. x \notin ToSet(ABCD)
    BY <1>1, <1>3, <1>6, <1>7, <1>8, <2>1, <2>2
  <2>4. Single(E, x)
    BY <1>4, OnceOf
  <2> QED
    BY <1>4, <1>5, <1>8, <2>3, <2>4, OnceJoined DEF x
<1> QED
  BY <1>9, <1>11, <1>12, <1>13 DEF keys, wanted, K

(***************************************************************************)
(* The metas of the list                                                   *)
(***************************************************************************)
Metas == [key : AccountKeys, writable : BOOLEAN]

KeysOf(metas) == [i \in DOMAIN metas |-> metas[i].key]

LEMMA KeysOfIs ==
  ASSUME NEW s \in Seq(Metas)
  PROVE  KeysOf(s) \in Seq(AccountKeys) /\ Len(KeysOf(s)) = Len(s) /\ \A i \in 1 .. Len(s) : KeysOf(s)[i] = s[i].key
<1> DEFINE k == KeysOf(s)
<1>1. Len(s) \in Nat /\ DOMAIN s = 1 .. Len(s) /\ \A i \in 1 .. Len(s) : s[i] \in Metas
  BY ItemsOf, ElementOfSeq
<1>2. k = [i \in 1 .. Len(s) |-> s[i].key]
  BY <1>1 DEF KeysOf
<1> HIDE DEF k
<1>3. \A i \in 1 .. Len(s) : s[i].key \in AccountKeys
  BY <1>1 DEF Metas
<1>4. k \in [1 .. Len(s) -> AccountKeys]
  BY <1>2, <1>3
<1>5. k \in Seq(AccountKeys)
  BY <1>1, <1>4, SeqDef
<1>6. DOMAIN k = 1 .. Len(k) /\ Len(k) \in Nat
  BY <1>5, ItemsOf
<1>7. Len(k) = Len(s)
  BY <1>1, <1>2, <1>6
<1> QED
  BY <1>2, <1>5, <1>7 DEF k

LEMMA KeysJoined ==
  ASSUME NEW s \in Seq(Metas), NEW t \in Seq(Metas)
  PROVE  KeysOf(s \o t) = KeysOf(s) \o KeysOf(t)
<1> DEFINE u == s \o t
           a == KeysOf(s)
           b == KeysOf(t)
           k == KeysOf(u)
           v == a \o b
<1>1. /\ u \in Seq(Metas) /\ Len(u) = Len(s) + Len(t)
      /\ \A i \in 1 .. Len(u) : \/ i \in 1 .. Len(s) /\ u[i] = s[i]
                                \/ i - Len(s) \in 1 .. Len(t) /\ u[i] = t[i - Len(s)]
  BY ConcatIs
<1>2. a \in Seq(AccountKeys) /\ Len(a) = Len(s) /\ \A i \in 1 .. Len(s) : a[i] = s[i].key
  BY KeysOfIs
<1>3. b \in Seq(AccountKeys) /\ Len(b) = Len(t) /\ \A i \in 1 .. Len(t) : b[i] = t[i].key
  BY KeysOfIs
<1> HIDE DEF a, b
<1>4. /\ v \in Seq(AccountKeys) /\ Len(v) = Len(a) + Len(b)
      /\ \A i \in 1 .. Len(a) : v[i] = a[i]
      /\ \A i \in 1 .. Len(b) : v[Len(a) + i] = b[i]
  <2>1. a \in Seq(AccountKeys) /\ b \in Seq(AccountKeys)
    BY <1>2, <1>3
  <2> QED
    BY ONLY <2>1, ConcatIs
<1> HIDE DEF u, v
<1>5. k \in Seq(AccountKeys) /\ Len(k) = Len(u) /\ \A i \in 1 .. Len(u) : k[i] = u[i].key
  BY <1>1, KeysOfIs
<1> HIDE DEF k
<1>6. ASSUME NEW i \in 1 .. Len(u) PROVE k[i] = v[i]
  <2>1. CASE i \in 1 .. Len(s) /\ u[i] = s[i]
    BY <1>2, <1>4, <1>5, <2>1
  <2>2. CASE i - Len(s) \in 1 .. Len(t) /\ u[i] = t[i - Len(s)]
    <3>1. Len(s) \in Nat
      BY ItemsOf
    <3>2. Len(s) + (i - Len(s)) = i
      BY <3>1
    <3>3. v[i] = b[i - Len(s)]
      BY <1>2, <1>3, <1>4, <2>2, <3>2
    <3> QED
      BY <1>3, <1>5, <2>2, <3>3
  <2> QED
    BY <1>1, <2>1, <2>2
<1>7. Len(k) = Len(v)
  BY <1>1, <1>2, <1>3, <1>4, <1>5
<1>8. k = v
  BY <1>4, <1>5, <1>6, <1>7, SeqEqual
<1> QED
  BY <1>8 DEF k, u, v, a, b

LEMMA FrontMetasIs ==
  ASSUME NEW given \in Inputs
  PROVE  /\ FrontMetas(given) \in Seq(Metas)
         /\ \A x \in ToSet(KeysOf(FrontMetas(given))) : x[1] \notin {"bank", "oracle"}
<1> DEFINE F == FrontMetas(given)
<1>1. given.market \in Things
  BY DEF Inputs, Things
<1>2. /\ Meta(<<"group">>, FALSE) \in Metas /\ Meta(<<"account">>, TRUE) \in Metas
      /\ Meta(<<"owner">>, FALSE) \in Metas
  BY DEF Meta, Metas, AccountKeys
<1>3. ASSUME NEW kind \in Kinds, NEW w \in BOOLEAN PROVE Meta(<<kind, given.market>>, w) \in Metas
  BY <1>1 DEF Meta, Metas, AccountKeys
<1>4. /\ "perpMarket" \in Kinds /\ "bids" \in Kinds /\ "asks" \in Kinds /\ "eventQueue" \in Kinds
      /\ "perpOracle" \in Kinds
  BY DEF Kinds
<1>5. F \in Seq(Metas) /\ Len(F) = 8
  <2>1. ASSUME NEW M, NEW a \in M, NEW b \in M, NEW c \in M, NEW d \in M, NEW e \in M, NEW f \in M,
               NEW g \in M, NEW h \in M
        PROVE  <<a, b, c, d, e, f, g, h>> \in Seq(M) /\ Len(<<a, b, c, d, e, f, g, h>>) = 8
    OBVIOUS
  <2> QED
    BY <1>2, <1>3, <1>4, <2>1 DEF FrontMetas
<1>6. ASSUME NEW i \in 1 .. 8 PROVE F[i].key[1] \notin {"bank", "oracle"}
  BY DEF FrontMetas, Meta
<1> HIDE DEF F
<1>7. ASSUME NEW x \in ToSet(KeysOf(F)) PROVE x[1] \notin {"bank", "oracle"}
  <2>1. KeysOf(F) \in Seq(AccountKeys) /\ Len(KeysOf(F)) = 8 /\ \A i \in 1 .. 8 : KeysOf(F)[i] = F[i].key
    BY <1>5, KeysOfIs
  <2>2. PICK i \in 1 .. 8 : KeysOf(F)[i] = x
    <3>1. \E i \in 1 .. Len(KeysOf(F)) : KeysOf(F)[i] = x
      BY <2>1, ItemsOf
    <3> QED
      BY <2>1, <3>1
  <2> QED
    BY <1>6, <2>1, <2>2
<1> QED
  BY <1>5, <1>7 DEF F

LEMMA HealthMetasIs ==
  ASSUME NEW given \in Inputs
  PROVE  HealthMetas(given) \in Seq(Metas) /\ KeysOf(HealthMetas(given)) = HealthKeys(given)
<1> DEFINE h == HealthKeys(given)
           m == HealthMetas(given)
<1>1. h \in Seq(AccountKeys)
  BY HealthIs
<1>2. m = [i \in DOMAIN h |-> Meta(h[i], FALSE)]
  BY DEF HealthMetas
<1> HIDE DEF h, m
<1>3. Len(h) \in Nat /\ DOMAIN h = 1 .. Len(h) /\ \A i \in 1 .. Len(h) : h[i] \in AccountKeys
  BY <1>1, ItemsOf, ElementOfSeq
<1>4. m \in [1 .. Len(h) -> Metas]
  BY <1>2, <1>3 DEF Meta, Metas
<1>5. m \in Seq(Metas)
  BY <1>3, <1>4, SeqDef
<1>6. KeysOf(m) \in Seq(AccountKeys) /\ Len(KeysOf(m)) = Len(m) /\ \A i \in 1 .. Len(m) : KeysOf(m)[i] = m[i].key
  BY <1>5, KeysOfIs
<1>7. Len(m) = Len(h)
  <2>1. DOMAIN m = 1 .. Len(m) /\ Len(m) \in Nat
    BY <1>5, ItemsOf
  <2> QED
    BY <1>2, <1>3, <2>1
<1>8. \A i \in 1 .. Len(h) : m[i].key = h[i]
  BY <1>2, <1>3 DEF Meta
<1>9. KeysOf(m) = h
  BY <1>1, <1>6, <1>7, <1>8, SeqEqual
<1> QED
  BY <1>5, <1>9 DEF m, h

LEMMA CanonicalIs ==
  ASSUME NEW given \in Inputs, Settlement \in ToSet(WithSettlement(given.slots))
  PROVE  LET keys == KeysOf(Canonical(given))
         IN /\ Canonical(given) \in Seq(Metas)
            /\ keys \in Seq(AccountKeys)
            /\ \A t \in Wanted(given) : Once(keys, <<"bank", t>>) /\ <<"oracle", given.oracle[t]>> \in ToSet(keys)
            /\ \A x \in ToSet(keys) : x[1] = "bank" => x[2] \in Wanted(given)
            /\ \A o : (\A t \in Wanted(given) : given.oracle[t] # o) => Single(keys, <<"oracle", o>>)
<1> DEFINE keys == KeysOf(Canonical(given))
           wanted == Wanted(given)
           F == KeysOf(FrontMetas(given))
           H == HealthKeys(given)
           K == AccountKeys
<1>1. FrontMetas(given) \in Seq(Metas) /\ \A x \in ToSet(F) : x[1] \notin {"bank", "oracle"}
  BY FrontMetasIs
<1>2. HealthMetas(given) \in Seq(Metas) /\ KeysOf(HealthMetas(given)) = H
  BY HealthMetasIs
<1>3. Canonical(given) = FrontMetas(given) \o HealthMetas(given)
  BY DEF Canonical
<1>4. keys = F \o H
  BY <1>1, <1>2, <1>3, KeysJoined
<1>5. Canonical(given) \in Seq(Metas)
  BY <1>1, <1>2, <1>3, ConcatIs
<1>6. F \in Seq(K)
  BY <1>1, KeysOfIs
<1>7. /\ H \in Seq(K)
      /\ \A t \in wanted : Once(H, <<"bank", t>>) /\ <<"oracle", given.oracle[t]>> \in ToSet(H)
      /\ \A x \in ToSet(H) : x[1] = "bank" => x[2] \in wanted
      /\ \A o : (\A t \in wanted : given.oracle[t] # o) => Single(H, <<"oracle", o>>)
  <2>1. ToSet(HeldTokens(given)) = wanted
    BY HeldIs
  <2> QED
    BY <2>1, HealthIs
<1> HIDE DEF keys, wanted, F, H, K
<1>8. keys \in Seq(K) /\ ToSet(keys) = ToSet(F) \cup ToSet(H)
  BY <1>4, <1>6, <1>7, ConcatIs
<1>9. ASSUME NEW t \in wanted PROVE Once(keys, <<"bank", t>>) /\ <<"oracle", given.oracle[t]>> \in ToSet(keys)
  <2> DEFINE x == <<"bank", t>>
  <2>1. x \notin ToSet(F) /\ Once(H, x)
    BY <1>1, <1>7
  <2> HIDE DEF x
  <2>2. Once(keys, x)
    BY <1>4, <1>6, <1>7, <2>1, OnceJoined
  <2> QED
    BY <1>7, <1>8, <2>2 DEF x
<1>10. ASSUME NEW o, \A t \in wanted : given.oracle[t] # o PROVE Single(keys, <<"oracle", o>>)
  <2> DEFINE x == <<"oracle", o>>
  <2>1. x \notin ToSet(F) /\ Single(H, x)
    BY <1>1, <1>7, <1>10
  <2> HIDE DEF x
  <2>2. Single(keys, x)
    BY <1>4, <1>6, <1>7, <2>1, OnceJoined
  <2> QED
    BY <2>2 DEF x
<1>11. \A x \in ToSet(keys) : x[1] = "bank" => x[2] \in wanted
  BY <1>1, <1>7, <1>8
<1> QED
  BY <1>5, <1>8, <1>9, <1>10, <1>11 DEF keys, wanted, K

(***************************************************************************)
(* What is signed                                                          *)
(***************************************************************************)
\* The accounts of the instruction that the signed list leaves out change no flag.
LEMMA EffectiveIs ==
  ASSUME NEW S, NEW metas \in Seq(S)
  PROVE  Effective(metas) = RuntimeView(EnqueueKeys(metas), metas)
<1> DEFINE program == Meta(<<"program">>, FALSE)
           front == << Meta(<<"group">>, TRUE), Meta(<<"queue">>, TRUE), Meta(<<"sysvar">>, FALSE) >>
           T == S \cup {program} \cup ToSet(front)
           u == front \o metas
           all == u \o <<program>>
<1>0. HashedMetas = front
  BY DEF HashedMetas
<1>1. front \in Seq(T)
  <2>1. front \in Seq({Meta(<<"group">>, TRUE), Meta(<<"queue">>, TRUE), Meta(<<"sysvar">>, FALSE)})
    OBVIOUS
  <2> HIDE DEF front
  <2>2. front \in Seq(ToSet(front))
    <3>1. Len(front) \in Nat /\ DOMAIN front = 1 .. Len(front)
      BY <2>1, ItemsOf
    <3>2. front \in [1 .. Len(front) -> ToSet(front)]
      BY <2>1, ItemsOf, LenProperties
    <3> QED
      BY <3>1, <3>2, SeqDef
  <2> QED
    BY <2>2, SeqMonotonic
<1>2. metas \in Seq(T)
  BY SeqMonotonic
<1>3. <<program>> \in Seq(T) /\ ToSet(<<program>>) = {program}
  <2>1. program \in T
    OBVIOUS
  <2> HIDE DEF T, program
  <2> QED
    BY <2>1 DEF ToSet
<1> HIDE DEF T
<1>4. u \in Seq(T)
  BY <1>1, <1>2, ConcatIs
<1>5. all \in Seq(T) /\ ToSet(all) = ToSet(u) \cup {program}
  <2> DEFINE last == <<program>>
  <2>1. all = u \o last /\ last \in Seq(T) /\ ToSet(last) = {program}
    BY <1>3
  <2> HIDE DEF all, u, last, program
  <2> QED
    BY <1>4, <2>1, ConcatIs
<1>6. program.writable = FALSE
  BY DEF Meta
<1>7. EnqueueKeys(metas) = all
  BY DEF EnqueueKeys
<1>70. u = HashedMetas \o metas
  BY <1>0
<1> HIDE DEF all, u, program, front
<1>8. ASSUME NEW key
      PROVE  (\E other \in ToSet(u) : other.key = key /\ other.writable)
               <=> (\E j \in DOMAIN all : all[j].key = key /\ all[j].writable)
  <2>1. (\E j \in DOMAIN all : all[j].key = key /\ all[j].writable)
          <=> (\E other \in ToSet(all) : other.key = key /\ other.writable)
    BY DEF ToSet
  <2> QED
    BY <1>5, <1>6, <2>1
<1>9. ASSUME NEW i \in DOMAIN metas
      PROVE  Meta(metas[i].key, \E other \in ToSet(u) : other.key = metas[i].key /\ other.writable)
               = Meta(metas[i].key, \E j \in DOMAIN all : all[j].key = metas[i].key /\ all[j].writable)
  <2> DEFINE x == \E other \in ToSet(u) : other.key = metas[i].key /\ other.writable
             y == \E j \in DOMAIN all : all[j].key = metas[i].key /\ all[j].writable
  <2>1. x <=> y
    BY <1>8
  <2>2. x = y
    BY <2>1
  <2> HIDE DEF x, y
  <2>3. Meta(metas[i].key, x) = Meta(metas[i].key, y)
    BY <2>2
  <2> QED
    BY <2>3 DEF x, y
<1> QED
  BY <1>7, <1>70, <1>9 DEF Effective, RuntimeView

AccountsInv ==
  /\ inputs \in Inputs
  /\ accountList.outcome = "built" =>
       accountList.metas = Canonical(inputs) /\ Settlement \in ToSet(WithSettlement(inputs.slots))

LEMMA AccountsInvSigned == AccountsInv => SignedAsSeen
<1> SUFFICES ASSUME AccountsInv, accountList.outcome = "built" PROVE SignedAsSeen
  BY DEF SignedAsSeen
<1> DEFINE metas == Canonical(inputs)
           keys == KeysOf(metas)
           wanted == Wanted(inputs)
<1>1. /\ inputs \in Inputs /\ accountList.metas = metas
      /\ Settlement \in ToSet(WithSettlement(inputs.slots))
  BY DEF AccountsInv
<1>2. /\ metas \in Seq(Metas) /\ keys \in Seq(AccountKeys)
      /\ \A t \in wanted : Once(keys, <<"bank", t>>) /\ <<"oracle", inputs.oracle[t]>> \in ToSet(keys)
      /\ \A x \in ToSet(keys) : x[1] = "bank" => x[2] \in wanted
      /\ \A o : (\A t \in wanted : inputs.oracle[t] # o) => Single(keys, <<"oracle", o>>)
  BY <1>1, CanonicalIs
<1>3. keys = [i \in DOMAIN metas |-> metas[i].key] /\ wanted = (ToSet(inputs.slots) \ {Free}) \cup {Settlement}
  BY DEF KeysOf, Wanted
<1>4. ToSet(HeldTokens(inputs)) = wanted
  BY <1>1, HeldIs
<1> HIDE DEF metas, keys, wanted
<1>5. Effective(metas) = RuntimeView(EnqueueKeys(metas), metas)
  BY <1>2, EffectiveIs
<1>6. \A t \in wanted : /\ Cardinality({i \in DOMAIN keys : keys[i] = <<"bank", t>>}) = 1
                      /\ <<"oracle", inputs.oracle[t]>> \in ToSet(keys)
  <2>1. TAKE t \in wanted
  <2>2. Once(keys, <<"bank", t>>) /\ <<"oracle", inputs.oracle[t]>> \in ToSet(keys)
    BY <1>2
  <2> QED
    BY <1>2, <2>2, Counted
<1>7. \A i \in DOMAIN keys : keys[i][1] = "bank" => keys[i][2] \in wanted
  BY <1>2 DEF ToSet
<1>8. \A o \in OracleKeys : (\A t \in wanted : inputs.oracle[t] # o) =>
        Cardinality({i \in DOMAIN keys : keys[i] = <<"oracle", o>>}) <= 1
  <2>1. SUFFICES ASSUME NEW o \in OracleKeys, \A t \in wanted : inputs.oracle[t] # o
                 PROVE  Cardinality({i \in DOMAIN keys : keys[i] = <<"oracle", o>>}) <= 1
    OBVIOUS
  <2>2. Single(keys, <<"oracle", o>>)
    BY <1>2, <2>1
  <2> QED
    BY <1>2, <2>2, Counted
<1> QED
  BY <1>1, <1>3, <1>4, <1>5, <1>6, <1>7, <1>8, ZenonT(60) DEF SignedAsSeen

\* What the owner signs is the accounts as the program will see them, with a bank and an oracle for
\* each token of the account, for every account and every group (context.ts 251-395, intents.ts 344-386, 599-624).
THEOREM AccountsSigned == AccountsSpec => []SignedAsSeen
<1>1. AccountsInit => AccountsInv
  BY DEF AccountsInit, AccountsInv, Inputs, Unbuilt
<1>2. AccountsInv /\ [AccountsNext]_accountsVars => AccountsInv'
  <2> SUFFICES ASSUME AccountsInv, [AccountsNext]_accountsVars PROVE AccountsInv'
    OBVIOUS
  <2>1. CASE BuildAccounts
    BY <2>1 DEF BuildAccounts, AccountsInv
  <2>2. CASE UNCHANGED accountsVars
    BY <2>2 DEF AccountsInv, accountsVars
  <2> QED
    BY <2>1, <2>2 DEF AccountsNext
<1> QED
  BY <1>1, <1>2, AccountsInvSigned, PTL DEF AccountsSpec

(***************************************************************************)
(* The decoder                                                             *)
(***************************************************************************)
\* The character that a text leaves unfinished.
Rest(t) == IF t # << >> /\ t[Len(t)] = "hi" THEN <<"hi">> ELSE << >>

Decoders == [rest : {<< >>, <<"hi">>}, out : Seq(Letters)]

LEMMA TextsRegrouped == \A a, b, c \in Seq(Letters) : (a \o b) \o c = a \o (b \o c)
BY ONLY Regrouped

LEMMA LettersHave == "LF" \in Letters /\ "CR" \in Letters /\ "bad" \in Letters /\ "wide" \in Letters
BY DEF Letters

LEMMA CharsAtIs ==
  ASSUME NEW t \in Seq(Letters), NEW k \in 1 .. Len(t)
  PROVE  CharsAt(t, k) \in Seq(Letters)
<1>1. t[k] \in Letters
  BY ElementOfSeq
<1>2. ASSUME NEW a \in Letters, NEW b \in Letters
      PROVE  << >> \in Seq(Letters) /\ <<a>> \in Seq(Letters) /\ <<a, b>> \in Seq(Letters)
  OBVIOUS
<1> QED
  BY <1>1, <1>2, LettersHave DEF CharsAt

\* The characters of a text with one more token.
LEMMA CharsGrow ==
  ASSUME NEW s \in Seq(Letters), NEW x \in Letters
  PROVE  /\ Chars(s) \in Seq(Letters)
         /\ CharsAt(Append(s, x), Len(s) + 1) \in Seq(Letters)
         /\ Chars(Append(s, x)) = Chars(s) \o CharsAt(Append(s, x), Len(s) + 1)
<1> DEFINE n == Len(s)
           t == Append(s, x)
           p == [k \in DOMAIN s |-> CharsAt(s, k)]
           q == [k \in DOMAIN t |-> CharsAt(t, k)]
           c == CharsAt(t, n + 1)
<1>1. n \in Nat /\ DOMAIN s = 1 .. n
  BY LenProperties
<1>2. t \in Seq(Letters) /\ Len(t) = n + 1 /\ t[n + 1] = x /\ \A k \in 1 .. n : t[k] = s[k]
  BY AppendProperties
<1>3. DOMAIN t = 1 .. n + 1
  BY <1>2, LenProperties
<1> HIDE DEF t, n
<1>4. c \in Seq(Letters)
  BY <1>1, <1>2, CharsAtIs
<1>5. p = [k \in 1 .. n |-> CharsAt(s, k)] /\ \A k \in 1 .. n : CharsAt(s, k) \in Seq(Letters)
  BY <1>1, CharsAtIs DEF n
<1>6. q = [k \in 1 .. n + 1 |-> CharsAt(t, k)] /\ \A k \in 1 .. n + 1 : CharsAt(t, k) \in Seq(Letters)
  BY <1>2, <1>3, CharsAtIs
<1>7. \A k \in 1 .. n : CharsAt(t, k) = CharsAt(s, k)
  <2>1. TAKE k \in 1 .. n
  <2>2. t[k] = s[k] /\ (k > 1 => t[k - 1] = s[k - 1])
    BY <1>1, <1>2
  <2> QED
    BY <2>2 DEF CharsAt
<1> HIDE DEF c
<1>8. p \in Seq(Seq(Letters)) /\ Len(p) = n
  <2>1. p \in [1 .. n -> Seq(Letters)]
    BY <1>5
  <2> HIDE DEF p
  <2>2. p \in Seq(Seq(Letters))
    BY <1>1, <2>1, SeqDef
  <2>3. DOMAIN p = 1 .. Len(p) /\ Len(p) \in Nat
    BY <2>2, LenProperties
  <2> QED
    BY <1>1, <2>1, <2>2, <2>3
<1>9. q \in Seq(Seq(Letters)) /\ Len(q) = n + 1
  <2>1. q \in [1 .. n + 1 -> Seq(Letters)] /\ n + 1 \in Nat
    BY <1>1, <1>6
  <2> HIDE DEF q
  <2>2. q \in Seq(Seq(Letters))
    BY <2>1, SeqDef
  <2>3. DOMAIN q = 1 .. Len(q) /\ Len(q) \in Nat
    BY <2>2, LenProperties
  <2> QED
    BY <2>1, <2>2, <2>3
<1>10. q = Append(p, c)
  <2>1. /\ Append(p, c) \in Seq(Seq(Letters)) /\ Len(Append(p, c)) = n + 1
        /\ \A k \in 1 .. n : Append(p, c)[k] = p[k]
        /\ Append(p, c)[n + 1] = c
    <3> HIDE DEF p
    <3> QED
      BY <1>4, <1>8, AppendProperties
  <2>2. \A k \in 1 .. n : q[k] = p[k]
    BY <1>1, <1>5, <1>6, <1>7
  <2>3. q[n + 1] = c
    BY <1>1, <1>6 DEF c
  <2> HIDE DEF p, q
  <2>4. \A k \in 1 .. n + 1 : q[k] = Append(p, c)[k]
    BY <1>1, <2>1, <2>2, <2>3
  <2> QED
    BY <1>9, <2>1, <2>4, SeqEqual
<1>11. Chars(s) = Flat(p) /\ Chars(t) = Flat(q)
  BY DEF Chars
<1> HIDE DEF p, q
<1>12. Flat(q) = Flat(p) \o c
  BY <1>4, <1>8, <1>10, FlatGrows
<1>13. Flat(p) \in Seq(Letters)
  BY <1>8, FlatIs
<1> QED
  BY <1>4, <1>11, <1>12, <1>13 DEF c, t, n

LEMMA CharsOfNone == Chars(<< >>) = << >>
<1>1. [k \in DOMAIN << >> |-> CharsAt(<< >>, k)] = << >>
  OBVIOUS
<1>2. << >> \in Seq(Seq(Letters))
  OBVIOUS
<1>3. Flat(<< >>) = << >>
  BY <1>2, FlatIs
<1> QED
  BY <1>1, <1>3 DEF Chars

\* The decoder on one more token gives the characters that the token completes.
LEMMA DecodeIs ==
  ASSUME NEW s \in Seq(Letters), NEW x \in Letters, NEW d \in Decoders, d.rest = Rest(s)
  PROVE  /\ Decode(d, x) \in Decoders /\ Decode(d, x).rest = Rest(Append(s, x))
         /\ Decode(d, x).out = d.out \o CharsAt(Append(s, x), Len(s) + 1)
<1> DEFINE n == Len(s)
           t == Append(s, x)
           e == Decode(d, x)
           c == CharsAt(t, n + 1)
<1>1. n \in Nat /\ (s # << >> <=> n > 0)
  BY LenProperties, EmptySeq
<1>2. t \in Seq(Letters) /\ t # << >> /\ Len(t) = n + 1 /\ t[n + 1] = x /\ \A k \in 1 .. n : t[k] = s[k]
  BY AppendProperties
<1>3. d.out \in Seq(Letters) /\ d.rest \in {<< >>, <<"hi">>}
  BY DEF Decoders
<1>4. c \in Seq(Letters)
  BY CharsGrow
<1>5. Rest(t) = IF x = "hi" THEN <<"hi">> ELSE << >>
  BY <1>2 DEF Rest
<1>6. (n + 1 > 1 /\ t[(n + 1) - 1] = "hi") <=> d.rest # << >>
  <2>1. <<"hi">> # << >>
    OBVIOUS
  <2>2. n + 1 > 1 => t[(n + 1) - 1] = s[n]
    BY <1>1, <1>2
  <2> QED
    BY <1>1, <2>1, <2>2 DEF Rest
<1> DEFINE wide == n + 1 > 1 /\ t[(n + 1) - 1] = "hi"
           cut == IF d.rest = << >> THEN << >> ELSE <<"bad">>
<1>7. c = CASE x = "hi" -> IF wide THEN <<"bad">> ELSE << >>
            [] x = "lo" -> IF wide THEN <<"wide">> ELSE <<"bad">>
            [] OTHER -> IF wide THEN <<"bad", x>> ELSE <<x>>
  BY <1>2 DEF CharsAt
<1>8. e = CASE x = "hi" -> [rest |-> <<"hi">>, out |-> d.out \o cut]
            [] x = "lo" -> [rest |-> << >>, out |-> Append(d.out, IF d.rest = << >> THEN "bad" ELSE "wide")]
            [] OTHER -> [rest |-> << >>, out |-> d.out \o Append(cut, x)]
  BY DEF Decode
<1>9. Append(cut, x) = IF d.rest = << >> THEN <<x>> ELSE <<"bad", x>>
  <2>1. Append(<< >>, x) = <<x>>
    <3>1. << >> \in Seq(Letters) /\ <<x>> \in Seq(Letters)
      OBVIOUS
    <3> QED
      BY <3>1, AppendIsConcat, ConcatEmptySeq
  <2>2. Append(<<"bad">>, x) = <<"bad", x>>
    <3> DEFINE b == "bad"
    <3>1. b \in Letters
      BY LettersHave
    <3> HIDE DEF b
    <3>2. <<b>> \in Seq(Letters) /\ Len(<<b>>) = 1 /\ <<b, x>> \in Seq(Letters) /\ Len(<<b, x>>) = 2
      BY <3>1
    <3>3. /\ Append(<<b>>, x) \in Seq(Letters) /\ Len(Append(<<b>>, x)) = 2
          /\ Append(<<b>>, x)[1] = b /\ Append(<<b>>, x)[2] = x
      BY <3>2, AppendProperties
    <3>4. \A i \in 1 .. 2 : Append(<<b>>, x)[i] = <<b, x>>[i]
      BY <3>3
    <3>5. Append(<<b>>, x) = <<b, x>>
      BY <3>2, <3>3, <3>4, SeqEqual
    <3> QED
      BY <3>5 DEF b
  <2> QED
    BY <2>1, <2>2
<1>10. \A y \in Letters : Append(d.out, y) = d.out \o <<y>>
  BY <1>3, AppendIsConcat
<1> HIDE DEF n, t, e, c, wide
<1>11. wide <=> d.rest # << >>
  BY <1>6 DEF wide
<1>12. e.out = d.out \o c
  <2>1. CASE x = "hi"
    BY <1>7, <1>8, <1>11, <2>1
  <2>2. CASE x = "lo"
    BY <1>7, <1>8, <1>10, <1>11, <2>2, LettersHave
  <2>3. CASE x # "hi" /\ x # "lo"
    BY <1>7, <1>8, <1>9, <1>11, <2>3
  <2> QED
    BY <2>1, <2>2, <2>3
<1>13. e.rest = Rest(t)
  BY <1>5, <1>8
<1>14. e \in Decoders
  <2>1. d.out \o c \in Seq(Letters)
    BY <1>3, <1>4, ConcatProperties
  <2>2. e.rest \in {<< >>, <<"hi">>}
    BY <1>5, <1>13
  <2>3. e = [rest |-> e.rest, out |-> e.out]
    BY <1>8
  <2> QED
    BY <1>12, <2>1, <2>2, <2>3 DEF Decoders
<1> QED
  BY <1>12, <1>13, <1>14 DEF e, t, c, n

\* The decoder on a chunk gives the characters that the chunk completes.
LEMMA DecodedIs ==
  ASSUME NEW t \in Seq(Letters), NEW a \in Nat, NEW n \in Nat, a + n <= Len(t)
  PROVE  LET d == Decoded(Rest(SubSeq(t, 1, a)), SubSeq(t, a + 1, a + n))
         IN /\ d \in Decoders /\ d.rest = Rest(SubSeq(t, 1, a + n))
            /\ Chars(SubSeq(t, 1, a)) \in Seq(Letters)
            /\ Chars(SubSeq(t, 1, a + n)) = Chars(SubSeq(t, 1, a)) \o d.out
<1> DEFINE chunk == SubSeq(t, a + 1, a + n)
           P(k) == SubSeq(t, 1, a + k)
           start == [rest |-> Rest(P(0)), out |-> << >>]
           GoodAt(k) == {d \in Decoders : d.rest = Rest(P(k)) /\ Chars(P(k)) = Chars(P(0)) \o d.out}
           G == [k \in 0 .. n |-> GoodAt(k)]
           step == [k \in 1 .. n |-> [d \in Decoders |-> Decode(d, chunk[k])]]
           Loop(f) == f = [k \in 0 .. n |-> IF k = 0 THEN start ELSE Decode(f[k - 1], chunk[k])]
           fold == CHOOSE f : Loop(f)
<1>1. Len(t) \in Nat /\ \A i \in 1 .. Len(t) : t[i] \in Letters
  BY LenProperties, ElementOfSeq
<1>2. chunk \in Seq(Letters) /\ Len(chunk) = n /\ \A k \in 1 .. n : chunk[k] = t[a + k]
  <2>1. \A i \in a + 1 .. a + n : t[i] \in Letters
    BY <1>1
  <2>2. /\ chunk \in Seq(Letters)
        /\ Len(chunk) = IF a + 1 <= a + n THEN (a + n) - (a + 1) + 1 ELSE 0
        /\ \A i \in 1 .. (a + n) - (a + 1) + 1 : chunk[i] = t[(a + 1) + i - 1]
    <3>1. a + 1 \in Int /\ a + n \in Int
      OBVIOUS
    <3> QED
      BY <2>1, <3>1, SubSeqProperties
  <2>3. (a + n) - (a + 1) + 1 = n /\ \A i \in 1 .. n : (a + 1) + i - 1 = a + i
    OBVIOUS
  <2> HIDE DEF chunk
  <2> QED
    BY <2>2, <2>3
<1> HIDE DEF chunk
<1>3. \A k \in 0 .. n : P(k) \in Seq(Letters) /\ Len(P(k)) = a + k
  <2>1. TAKE k \in 0 .. n
  <2>2. \A i \in 1 .. a + k : t[i] \in Letters
    BY <1>1
  <2>3. P(k) \in Seq(Letters) /\ Len(P(k)) = IF 1 <= a + k THEN (a + k) - 1 + 1 ELSE 0
    BY <2>2, SubSeqProperties
  <2> QED
    BY <2>3
<1>4. ASSUME NEW k \in 1 .. n PROVE P(k) = Append(P(k - 1), chunk[k]) /\ chunk[k] \in Letters
  <2> DEFINE m == a + (k - 1)
  <2>1. m \in Nat /\ m + 1 = a + k /\ m + 1 <= Len(t)
    BY <1>1
  <2> HIDE DEF m
  <2>2. SubSeq(t, 1, m + 1) = Append(SubSeq(t, 1, m), t[m + 1])
    BY <2>1, StretchGrows
  <2> QED
    BY <1>1, <1>2, <2>1, <2>2 DEF m
<1> HIDE DEF P
<1>5. start \in GoodAt(0)
  <2>1. Rest(P(0)) \in {<< >>, <<"hi">>}
    BY DEF Rest
  <2>2. P(0) \in Seq(Letters) /\ "bad" \in Letters
    BY <1>3, LettersHave
  <2>3. Chars(P(0)) \in Seq(Letters) /\ << >> \in Seq(Letters)
    BY <2>2, CharsGrow, EmptySeq
  <2>4. Chars(P(0)) = Chars(P(0)) \o << >>
    BY <2>3, ConcatEmptySeq
  <2> QED
    BY <2>1, <2>3, <2>4 DEF Decoders
<1>6. ASSUME NEW k \in 1 .. n, NEW d \in GoodAt(k - 1) PROVE Decode(d, chunk[k]) \in GoodAt(k)
  <2> DEFINE s == P(k - 1)
             x == chunk[k]
             c == CharsAt(Append(s, x), Len(s) + 1)
             e == Decode(d, x)
  <2>1. s \in Seq(Letters) /\ x \in Letters /\ P(k) = Append(s, x)
    <3>1. k - 1 \in 0 .. n
      OBVIOUS
    <3>2. s \in Seq(Letters)
      BY <1>3, <3>1
    <3> QED
      BY <1>4, <3>2
  <2>2. d \in Decoders /\ d.rest = Rest(s) /\ Chars(s) = Chars(P(0)) \o d.out
    OBVIOUS
  <2> HIDE DEF s, x
  <2>3. e \in Decoders /\ e.rest = Rest(Append(s, x)) /\ e.out = d.out \o c
    BY <2>1, <2>2, DecodeIs
  <2>4. Chars(s) \in Seq(Letters) /\ c \in Seq(Letters) /\ Chars(Append(s, x)) = Chars(s) \o c
    BY <2>1, CharsGrow
  <2>5. Chars(P(0)) \in Seq(Letters)
    <3>1. P(0) \in Seq(Letters)
      BY <1>3
    <3> QED
      BY <2>1, <3>1, CharsGrow
  <2>6. d.out \in Seq(Letters)
    BY <2>2 DEF Decoders
  <2> HIDE DEF c, e
  <2>7. (Chars(P(0)) \o d.out) \o c = Chars(P(0)) \o (d.out \o c)
    <3> DEFINE u == Chars(P(0))
               v == d.out
    <3>1. u \in Seq(Letters) /\ v \in Seq(Letters) /\ c \in Seq(Letters)
      BY <2>4, <2>5, <2>6
    <3> HIDE DEF u, v
    <3>2. (u \o v) \o c = u \o (v \o c)
      BY ONLY <3>1, TextsRegrouped, Zenon
    <3> QED
      BY <3>2 DEF u, v
  <2>8. Chars(P(k)) = Chars(P(0)) \o e.out
    BY <2>1, <2>2, <2>3, <2>4, <2>7
  <2> QED
    BY <2>1, <2>3, <2>8 DEF s, x, e
<1>7. \A k \in 0 .. n : \A d \in GoodAt(k) : d \in Decoders
  OBVIOUS
<1>8. \A k \in 0 .. n : G[k] = GoodAt(k)
  OBVIOUS
<1>9. n \in Nat /\ 0 \in 0 .. n /\ \A k \in 1 .. n : k \in 0 .. n /\ k # 0 /\ k - 1 \in 0 .. n
  OBVIOUS
<1> HIDE DEF start, GoodAt, G
<1>10. ASSUME NEW f, f[0] = start, \A k \in 1 .. n : f[k - 1] \in Decoders => f[k] = Decode(f[k - 1], chunk[k])
       PROVE  \A k \in 0 .. n : f[k] \in GoodAt(k)
  <2>1. f[0] \in G[0]
    BY <1>5, <1>8, <1>9, <1>10
  <2>2. ASSUME NEW k \in 1 .. n, f[k - 1] \in G[k - 1] PROVE f[k] \in G[k]
    <3>1. f[k - 1] \in GoodAt(k - 1)
      BY <1>8, <1>9, <2>2
    <3>2. f[k] \in GoodAt(k)
      BY <1>6, <1>7, <1>9, <1>10, <3>1
    <3> QED
      BY <1>8, <1>9, <3>2
  <2>3. \A k \in 0 .. n : f[k] \in G[k]
    BY <2>1, <2>2, StaysIn
  <2> QED
    BY <1>8, <2>3
<1>11. \E f : Loop(f)
  <2> DEFINE f == LoopOf(n, start, step)
             h == [k \in 0 .. n |-> f[k]]
  <2>1. f[0] = start /\ \A k \in 1 .. n : f[k] = step[k][f[k - 1]]
    <3> HIDE DEF step
    <3> QED
      BY LoopRuns
  <2> HIDE DEF f
  <2>2. \A k \in 1 .. n : f[k - 1] \in Decoders => f[k] = Decode(f[k - 1], chunk[k])
    BY <2>1
  <2>3. \A k \in 0 .. n : f[k] \in GoodAt(k)
    BY <1>10, <2>1, <2>2
  <2>4. ASSUME NEW k \in 0 .. n PROVE h[k] = IF k = 0 THEN start ELSE Decode(h[k - 1], chunk[k])
    <3>1. CASE k = 0
      BY <2>1, <3>1
    <3>2. CASE k # 0
      <4>1. k \in 1 .. n /\ k - 1 \in 0 .. n
        BY <3>2
      <4> QED
        BY <1>7, <2>2, <2>3, <3>2, <4>1
    <3> QED
      BY <3>1, <3>2
  <2>5. h = [k \in 0 .. n |-> h[k]]
    OBVIOUS
  <2> HIDE DEF h
  <2>6. Loop(h)
    BY <2>4, <2>5
  <2> QED
    BY <2>6
<1>12. Loop(fold)
  <2> HIDE DEF Loop
  <2> QED
    BY <1>11
<1>13. Decoded(Rest(SubSeq(t, 1, a)), SubSeq(t, a + 1, a + n)) = fold[n]
  <2>1. P(0) = SubSeq(t, 1, a)
    BY DEF P
  <2> QED
    BY <1>2, <2>1 DEF Decoded, chunk, start
<1> HIDE DEF fold
<1>14. fold[n] \in GoodAt(n)
  <2>1. \A k \in 0 .. n : fold[k] = IF k = 0 THEN start ELSE Decode(fold[k - 1], chunk[k])
    BY <1>12
  <2>2. fold[0] = start /\ \A k \in 1 .. n : fold[k] = Decode(fold[k - 1], chunk[k])
    BY ONLY <1>9, <2>1
  <2> HIDE DEF Loop
  <2> QED
    BY <1>9, <1>10, <2>2
<1>15. Chars(P(0)) \in Seq(Letters)
  BY <1>3, <1>9, LettersHave, CharsGrow
<1>16. P(0) = SubSeq(t, 1, a) /\ P(n) = SubSeq(t, 1, a + n)
  BY DEF P
<1> QED
  BY <1>13, <1>14, <1>15, <1>16 DEF GoodAt

(***************************************************************************)
(* Lines                                                                   *)
(***************************************************************************)
LineStart(t, end, s) == /\ s \in 1 .. end /\ (s > 1 => t[s - 1] = "LF")
                        /\ \A i \in s .. end - 1 : t[i] # "LF"

LEMMA LineStartExists ==
  ASSUME NEW t, NEW end \in Nat \ {0}
  PROVE  \E s : LineStart(t, end, s)
<1> DEFINE N == {s \in 1 .. end : \A i \in s .. end - 1 : t[i] # "LF"}
<1>1. N \in SUBSET Nat /\ end \in N
  OBVIOUS
<1> HIDE DEF N
<1>2. PICK s \in N : \A r \in N : s <= r
  BY <1>1, Least
<1>3. s \in 1 .. end /\ \A i \in s .. end - 1 : t[i] # "LF"
  BY DEF N
<1>4. ASSUME s > 1, t[s - 1] # "LF" PROVE FALSE
  <2>1. s - 1 \in 1 .. end /\ ~(s <= s - 1)
    BY <1>3, <1>4
  <2>2. \A i \in s - 1 .. end - 1 : i = s - 1 \/ i \in s .. end - 1
    BY <1>3
  <2>3. s - 1 \in N
    BY <1>3, <1>4, <2>1, <2>2 DEF N
  <2> QED
    BY <1>2, <2>1, <2>3
<1> QED
  BY <1>3, <1>4 DEF LineStart

LEMMA RawLineIs ==
  ASSUME NEW t, NEW end \in Nat \ {0}, NEW s, LineStart(t, end, s)
  PROVE  RawLineAt(t, end) = SubSeq(t, s, end - 1)
<1>1. s \in 1 .. end /\ LineStart(t, end, s)
  BY DEF LineStart
<1>2. ASSUME NEW r \in 1 .. end, LineStart(t, end, r) PROVE r = s
  <2>1. CASE r < s
    <3>1. s > 1 /\ s - 1 \in r .. end - 1
      BY <1>1, <2>1
    <3> QED
      BY <1>1, <1>2, <3>1 DEF LineStart
  <2>2. CASE s < r
    <3>1. r > 1 /\ r - 1 \in s .. end - 1
      BY <1>1, <2>2
    <3> QED
      BY <1>1, <1>2, <3>1 DEF LineStart
  <2> QED
    BY <1>1, <2>1, <2>2
<1>3. (CHOOSE r \in 1 .. end : /\ r > 1 => t[r - 1] = "LF"
                               /\ \A i \in r .. end - 1 : t[i] # "LF") = s
  <2>1. \A r \in 1 .. end : LineStart(t, end, r) <=> /\ r > 1 => t[r - 1] = "LF"
                                                     /\ \A i \in r .. end - 1 : t[i] # "LF"
    BY DEF LineStart
  <2> QED
    BY <1>1, <1>2, <2>1
<1> QED
  BY <1>3 DEF RawLineAt

LEMMA RawLineType ==
  ASSUME NEW t \in Seq(Letters), NEW end \in 1 .. Len(t) + 1
  PROVE  RawLineAt(t, end) \in Seq(Letters)
<1>1. Len(t) \in Nat /\ \A i \in 1 .. Len(t) : t[i] \in Letters
  BY LenProperties, ElementOfSeq
<1>2. end \in Nat \ {0}
  BY <1>1
<1>3. PICK s : LineStart(t, end, s)
  BY <1>2, LineStartExists
<1>4. s \in 1 .. end
  BY <1>3 DEF LineStart
<1>5. s \in Int /\ end - 1 \in Int /\ \A i \in s .. end - 1 : t[i] \in Letters
  BY <1>1, <1>4
<1>6. SubSeq(t, s, end - 1) \in Seq(Letters)
  BY <1>5, SubSeqProperties
<1> QED
  BY <1>2, <1>3, <1>6, RawLineIs

\* A line is of what stands before its end.
LEMMA RawLineAlike ==
  ASSUME NEW t \in Seq(Letters), NEW x \in Letters, NEW end \in 1 .. Len(t) + 1
  PROVE  RawLineAt(Append(t, x), end) = RawLineAt(t, end)
<1> DEFINE u == Append(t, x)
           n == Len(t)
<1>1. n \in Nat /\ \A i \in 1 .. n : t[i] \in Letters
  BY LenProperties, ElementOfSeq
<1>2. u \in Seq(Letters) /\ Len(u) = n + 1 /\ \A i \in 1 .. n : u[i] = t[i]
  BY AppendProperties
<1> HIDE DEF u, n
<1>3. end \in 1 .. n + 1 /\ end \in Nat \ {0}
  BY <1>1 DEF n
<1>4. PICK s : LineStart(t, end, s)
  BY <1>3, LineStartExists
<1>5. s \in 1 .. end
  BY <1>4 DEF LineStart
<1>6. LineStart(u, end, s)
  <2>1. s > 1 => u[s - 1] = t[s - 1]
    BY <1>1, <1>2, <1>3, <1>5
  <2>2. \A i \in s .. end - 1 : u[i] = t[i]
    BY <1>1, <1>2, <1>3, <1>5
  <2> QED
    BY <1>4, <2>1, <2>2 DEF LineStart
<1> DEFINE v == SubSeq(t, s, end - 1)
           w == SubSeq(u, s, end - 1)
           c == IF s <= end - 1 THEN (end - 1) - s + 1 ELSE 0
<1>7. s \in Int /\ end - 1 \in Int /\ \A i \in s .. end - 1 : t[i] \in Letters /\ u[i] \in Letters /\ u[i] = t[i]
  BY <1>1, <1>2, <1>3, <1>5
<1>8. v \in Seq(Letters) /\ Len(v) = c /\ \A i \in 1 .. (end - 1) - s + 1 : v[i] = t[s + i - 1]
  BY <1>7, SubSeqProperties
<1>9. w \in Seq(Letters) /\ Len(w) = c /\ \A i \in 1 .. (end - 1) - s + 1 : w[i] = u[s + i - 1]
  BY <1>7, SubSeqProperties
<1>10. ASSUME NEW i \in 1 .. c PROVE w[i] = v[i]
  <2>1. i \in 1 .. (end - 1) - s + 1 /\ s + i - 1 \in s .. end - 1
    BY <1>3, <1>5
  <2> HIDE DEF v, w
  <2> QED
    BY <1>7, <1>8, <1>9, <2>1
<1> HIDE DEF v, w, c
<1>11. w = v
  BY <1>8, <1>9, <1>10, SeqEqual
<1>12. RawLineAt(t, end) = v /\ RawLineAt(u, end) = w
  BY <1>3, <1>4, <1>6, RawLineIs DEF v, w
<1> QED
  BY <1>11, <1>12 DEF u

\* The unfinished line of a text with one more character.
LEMMA RawLineGrows ==
  ASSUME NEW t \in Seq(Letters), NEW x \in Letters
  PROVE  RawLineAt(Append(t, x), Len(t) + 2) = IF x = "LF" THEN << >> ELSE Append(RawLineAt(t, Len(t) + 1), x)
<1> DEFINE u == Append(t, x)
           n == Len(t)
<1>1. n \in Nat
  BY LenProperties
<1>2. u \in Seq(Letters) /\ Len(u) = n + 1 /\ u[n + 1] = x
  BY AppendProperties
<1>3. RawLineAt(u, n + 1) = RawLineAt(t, n + 1)
  <2>1. n + 1 \in 1 .. n + 1
    BY <1>1
  <2> QED
    BY <2>1, RawLineAlike
<1> HIDE DEF u, n
<1>4. n + 1 \in Nat \ {0} /\ n + 2 \in Nat \ {0} /\ (n + 2) - 1 = n + 1 /\ (n + 1) - 1 = n
  BY <1>1
<1>5. CASE x = "LF"
  <2>1. LineStart(u, n + 2, n + 2)
    BY <1>1, <1>2, <1>4, <1>5 DEF LineStart
  <2>2. RawLineAt(u, n + 2) = SubSeq(u, n + 2, n + 1)
    BY <1>4, <2>1, RawLineIs
  <2>3. SubSeq(u, n + 2, n + 1) = << >>
    <3>1. n + 2 \in Int /\ n + 1 \in Int /\ n + 1 < n + 2
      BY <1>1
    <3> QED
      BY <3>1, SubSeqEmpty
  <2> QED
    BY <1>5, <2>2, <2>3 DEF u, n
<1>6. CASE x # "LF"
  <2>1. PICK s : LineStart(u, n + 1, s)
    BY <1>4, LineStartExists
  <2>2. s \in 1 .. n + 1
    BY <2>1 DEF LineStart
  <2>3. LineStart(u, n + 2, s)
    <3>1. \A i \in s .. n + 1 : i = n + 1 \/ i \in s .. (n + 1) - 1
      BY <1>1, <2>2
    <3>2. \A i \in s .. n + 1 : u[i] # "LF"
      BY <1>2, <1>6, <2>1, <3>1 DEF LineStart
    <3>3. s \in 1 .. n + 2
      BY <1>1, <2>2
    <3> QED
      BY <1>4, <2>1, <3>2, <3>3 DEF LineStart
  <2>4. RawLineAt(u, n + 2) = SubSeq(u, s, n + 1) /\ RawLineAt(u, n + 1) = SubSeq(u, s, n)
    BY <1>4, <2>1, <2>3, RawLineIs
  <2>5. SubSeq(u, s, n + 1) = Append(SubSeq(u, s, n), u[n + 1])
    BY <1>1, <1>2, <2>2, StretchGrows
  <2> QED
    BY <1>2, <1>3, <1>6, <2>4, <2>5 DEF u, n
<1> QED
  BY <1>5, <1>6

LEMMA StrippedType ==
  ASSUME NEW line \in Seq(Letters)
  PROVE  Stripped(line) \in Seq(Letters)
<1>1. Len(line) \in Nat /\ \A i \in 1 .. Len(line) : line[i] \in Letters
  BY LenProperties, ElementOfSeq
<1>2. Len(line) - 1 \in Int /\ \A i \in 1 .. Len(line) - 1 : line[i] \in Letters
  BY <1>1
<1>3. SubSeq(line, 1, Len(line) - 1) \in Seq(Letters)
  BY <1>2, SubSeqProperties
<1> QED
  BY <1>3 DEF Stripped, Front

LEMMA ValueType ==
  ASSUME NEW line \in Seq(Letters)
  PROVE  Value(line) \in Seq(Letters)
<1> DEFINE n == Len(line)
           N == {i \in 1 .. n + 1 : i <= n => line[i] = "colon"}
<1>1. n \in Nat /\ \A i \in 1 .. n : line[i] \in Letters
  BY LenProperties, ElementOfSeq
<1>2. PICK s \in N : \A r \in N : s <= r
  <2>1. N \in SUBSET Nat /\ n + 1 \in N
    BY <1>1
  <2> HIDE DEF N
  <2> QED
    BY <2>1, Least
<1>3. s \in 1 .. n + 1 /\ (s <= n => line[s] = "colon")
  OBVIOUS
<1>4. \A j \in 1 .. s - 1 : line[j] # "colon"
  <2>1. SUFFICES ASSUME NEW j \in 1 .. s - 1, line[j] = "colon" PROVE FALSE
    OBVIOUS
  <2>2. j \in 1 .. n + 1 /\ ~(s <= j)
    BY <1>1, <1>3
  <2>3. j \in N
    BY <2>1, <2>2
  <2> QED
    BY <1>2, <2>2, <2>3
<1>5. Colon(line) \in 1 .. n + 1
  <2>1. \E i \in 1 .. n + 1 : (i <= n => line[i] = "colon") /\ \A j \in 1 .. i - 1 : line[j] # "colon"
    BY <1>3, <1>4
  <2> QED
    BY <2>1 DEF Colon
<1> DEFINE after == Colon(line) + 1
           from == IF after <= n /\ line[after] = "space" THEN after + 1 ELSE after
<1>6. from \in Nat /\ from >= 1
  BY <1>1, <1>5
<1>7. Value(line) = SubSeq(line, from, n)
  BY DEF Value
<1> HIDE DEF from, n
<1>8. from \in Int /\ n \in Int /\ \A i \in from .. n : line[i] \in Letters
  BY <1>1, <1>6
<1>9. SubSeq(line, from, n) \in Seq(Letters)
  BY <1>8, SubSeqProperties
<1> QED
  BY <1>7, <1>9

(***************************************************************************)
(* Blocks of lines                                                         *)
(***************************************************************************)
\* The line that a line feed would end.
OpenLine(t) == LineAt(t, Len(t) + 1)

\* What stands of a text before a place is the same of the text with one more character.
LEMMA LinesAlike ==
  ASSUME NEW t \in Seq(Letters), NEW x \in Letters
  PROVE  /\ Len(t) \in Nat /\ Append(t, x) \in Seq(Letters) /\ Len(Append(t, x)) = Len(t) + 1
         /\ DOMAIN t = 1 .. Len(t) /\ DOMAIN Append(t, x) = 1 .. Len(t) + 1
         /\ \A e \in 1 .. Len(t) + 1 : LineAt(Append(t, x), e) = LineAt(t, e) /\ LineAt(t, e) \in Seq(Letters)
         /\ Ends(t) \in SUBSET (1 .. Len(t))
         /\ Ends(Append(t, x)) = Ends(t) \cup (IF x = "LF" THEN {Len(t) + 1} ELSE {})
         /\ Blanks(Append(t, x))
              = Blanks(t) \cup (IF x = "LF" /\ OpenLine(t) = << >> THEN {Len(t) + 1} ELSE {})
<1> DEFINE u == Append(t, x)
           n == Len(t)
<1>1. n \in Nat /\ DOMAIN t = 1 .. n
  BY LenProperties
<1>2. u \in Seq(Letters) /\ Len(u) = n + 1 /\ u[n + 1] = x /\ \A i \in 1 .. n : u[i] = t[i]
  BY AppendProperties
<1>3. DOMAIN u = 1 .. n + 1
  BY <1>2, LenProperties
<1>4. \A e \in 1 .. n + 1 : LineAt(u, e) = LineAt(t, e) /\ LineAt(t, e) \in Seq(Letters)
  <2>1. TAKE e \in 1 .. n + 1
  <2>2. RawLineAt(u, e) = RawLineAt(t, e)
    BY RawLineAlike
  <2>3. RawLineAt(t, e) \in Seq(Letters)
    BY RawLineType
  <2>4. Stripped(RawLineAt(t, e)) \in Seq(Letters)
    BY <2>3, StrippedType
  <2> QED
    BY <2>2, <2>4 DEF LineAt
<1> HIDE DEF u, n
<1>5. \A i \in 1 .. n + 1 : i \in 1 .. n \/ i = n + 1
  BY <1>1
<1>6. n + 1 \notin 1 .. n /\ n + 1 \in 1 .. n + 1 /\ \A i \in 1 .. n : i \in 1 .. n + 1
  BY <1>1
<1>7. Ends(t) \in SUBSET (1 .. n)
  BY <1>1 DEF Ends
<1>8. Ends(u) = Ends(t) \cup (IF x = "LF" THEN {n + 1} ELSE {})
  BY <1>1, <1>2, <1>3, <1>5, <1>6 DEF Ends
<1>9. Blanks(u) = Blanks(t) \cup (IF x = "LF" /\ LineAt(t, n + 1) = << >> THEN {n + 1} ELSE {})
  BY <1>4, <1>6, <1>7, <1>8 DEF Blanks
<1> QED
  BY <1>1, <1>2, <1>3, <1>4, <1>7, <1>8, <1>9 DEF u, n, OpenLine

LEMMA BlocksAlike ==
  ASSUME NEW t \in Seq(Letters), NEW x \in Letters, NEW b \in 1 .. Len(t) + 1, NEW field
  PROVE  /\ InBlock(Append(t, x), b, field) = InBlock(t, b, field)
         /\ InBlock(t, b, field) \in SUBSET (1 .. Len(t))
<1> DEFINE u == Append(t, x)
           n == Len(t)
<1>1. /\ n \in Nat
      /\ \A e \in 1 .. n + 1 : LineAt(u, e) = LineAt(t, e)
      /\ Ends(t) \in SUBSET (1 .. n)
      /\ Ends(u) = Ends(t) \cup (IF x = "LF" THEN {n + 1} ELSE {})
      /\ Blanks(u) = Blanks(t) \cup (IF x = "LF" /\ OpenLine(t) = << >> THEN {n + 1} ELSE {})
  BY LinesAlike
<1>2. b \in 1 .. n + 1
  OBVIOUS
<1> HIDE DEF u, n
<1>3. ~(n + 1 < b) /\ \A e \in 1 .. n : e \in 1 .. n + 1
  BY <1>1, <1>2
<1>4. \A e : e \in Ends(u) /\ e < b <=> e \in Ends(t) /\ e < b
  BY <1>1, <1>3
<1>5. \A c : c \in Blanks(u) /\ c < b <=> c \in Blanks(t) /\ c < b
  BY <1>1, <1>3
<1>6. \A e \in Ends(t) : LineAt(u, e) = LineAt(t, e)
  BY <1>1, <1>3
<1>7. InBlock(u, b, field) = InBlock(t, b, field)
  BY <1>4, <1>5, <1>6 DEF InBlock
<1>8. InBlock(t, b, field) \in SUBSET (1 .. n)
  BY <1>1 DEF InBlock
<1> QED
  BY <1>7, <1>8 DEF u, n

LEMMA ValuesType ==
  ASSUME NEW t \in Seq(Letters), NEW b \in 1 .. Len(t) + 1, NEW field
  PROVE  /\ ValuesOf(t, b, field) \in Seq(Seq(Letters))
         /\ ValuesOf(t, b, field) = << >> <=> InBlock(t, b, field) = {}
<1> DEFINE n == Len(t)
           f == [e \in DOMAIN t |-> Value(LineAt(t, e))]
           P == InBlock(t, b, field)
<1>1. /\ n \in Nat /\ DOMAIN t = 1 .. n /\ \A e \in 1 .. n + 1 : LineAt(t, e) \in Seq(Letters)
  BY LinesAlike, LettersHave
<1>2. P \in SUBSET (1 .. n)
  BY BlocksAlike, LettersHave
<1>3. ValuesOf(t, b, field) = Selected(f, P)
  BY DEF ValuesOf
<1> HIDE DEF n, P
<1>4. ASSUME NEW p \in P PROVE f[p] \in Seq(Letters)
  <2>1. p \in 1 .. n /\ p \in 1 .. n + 1
    BY <1>1, <1>2
  <2> QED
    BY <1>1, <2>1, ValueType
<1> HIDE DEF f
<1>5. Selected(f, P) \in Seq(Seq(Letters)) /\ (Selected(f, P) = << >> <=> P = {})
  BY <1>1, <1>2, <1>4, SelectedType
<1> QED
  BY <1>3, <1>5 DEF P

LEMMA ValuesAlike ==
  ASSUME NEW t \in Seq(Letters), NEW x \in Letters, NEW b \in 1 .. Len(t) + 1, NEW field
  PROVE  ValuesOf(Append(t, x), b, field) = ValuesOf(t, b, field)
<1> DEFINE u == Append(t, x)
           n == Len(t)
           P == InBlock(t, b, field)
           f == [e \in DOMAIN t |-> Value(LineAt(t, e))]
           g == [e \in DOMAIN u |-> Value(LineAt(u, e))]
<1>1. /\ n \in Nat /\ DOMAIN t = 1 .. n /\ DOMAIN u = 1 .. n + 1
      /\ \A e \in 1 .. n + 1 : LineAt(u, e) = LineAt(t, e)
  BY LinesAlike
<1>2. P \in SUBSET (1 .. n) /\ InBlock(u, b, field) = P
  BY BlocksAlike
<1>3. ValuesOf(t, b, field) = Selected(f, P) /\ ValuesOf(u, b, field) = Selected(g, P)
  BY <1>2 DEF ValuesOf
<1> HIDE DEF u, n, P
<1>4. ASSUME NEW p \in P PROVE g[p] = f[p]
  <2>1. p \in 1 .. n /\ p \in 1 .. n + 1
    BY <1>1, <1>2
  <2> QED
    BY <1>1, <2>1
<1> HIDE DEF f, g
<1>5. Selected(g, P) = Selected(f, P)
  BY <1>1, <1>2, <1>4, SelectedAlike
<1> QED
  BY <1>3, <1>5 DEF u

\* The open block of a text with one more character.
LEMMA OpenBlock ==
  ASSUME NEW t \in Seq(Letters), NEW x \in Letters, NEW field
  PROVE  InBlock(Append(t, x), Len(t) + 2, field) =
           IF x # "LF" THEN InBlock(t, Len(t) + 1, field)
           ELSE IF OpenLine(t) = << >> THEN {}
           ELSE InBlock(t, Len(t) + 1, field) \cup (IF Field(OpenLine(t)) = field THEN {Len(t) + 1} ELSE {})
<1> DEFINE u == Append(t, x)
           n == Len(t)
           l == OpenLine(t)
<1>1. /\ n \in Nat
      /\ \A e \in 1 .. n + 1 : LineAt(u, e) = LineAt(t, e)
      /\ Ends(t) \in SUBSET (1 .. n)
      /\ Ends(u) = Ends(t) \cup (IF x = "LF" THEN {n + 1} ELSE {})
      /\ Blanks(u) = Blanks(t) \cup (IF x = "LF" /\ l = << >> THEN {n + 1} ELSE {})
  BY LinesAlike
<1>2. l = LineAt(t, n + 1)
  BY DEF OpenLine
<1> HIDE DEF u, n, l
<1>3. Blanks(t) \in SUBSET (1 .. n)
  BY <1>1 DEF Blanks
<1>4. /\ n + 1 \in 1 .. n + 1 /\ n + 1 < n + 2 /\ ~(n + 1 < n + 1)
      /\ \A e \in 1 .. n : e \in 1 .. n + 1 /\ e < n + 1 /\ e < n + 2 /\ ~(n + 1 < e)
  BY <1>1
<1>5. InBlock(t, n + 1, field) = {e \in Ends(t) : Field(LineAt(t, e)) = field /\ \A c \in Blanks(t) : c < e}
  BY <1>1, <1>3, <1>4 DEF InBlock
<1>6. InBlock(u, n + 2, field) = {e \in Ends(u) : Field(LineAt(u, e)) = field /\ \A c \in Blanks(u) : c < e}
  BY <1>1, <1>3, <1>4 DEF InBlock
<1>7. LineAt(u, n + 1) = l /\ \A e \in Ends(t) : LineAt(u, e) = LineAt(t, e) /\ e \in 1 .. n
  BY <1>1, <1>2, <1>4
<1>8. ASSUME x # "LF" PROVE InBlock(u, n + 2, field) = InBlock(t, n + 1, field)
  <2>1. Ends(u) = Ends(t) /\ Blanks(u) = Blanks(t)
    BY <1>1, <1>8
  <2> QED
    BY <1>5, <1>6, <1>7, <2>1
<1>9. ASSUME x = "LF", l = << >> PROVE InBlock(u, n + 2, field) = {}
  <2>1. n + 1 \in Blanks(u) /\ \A e \in Ends(u) : ~(n + 1 < e)
    BY <1>1, <1>4, <1>7, <1>9
  <2> QED
    BY <1>6, <2>1
<1>10. ASSUME x = "LF", l # << >>
       PROVE  InBlock(u, n + 2, field)
                = InBlock(t, n + 1, field) \cup (IF Field(l) = field THEN {n + 1} ELSE {})
  <2>1. Blanks(u) = Blanks(t) /\ Ends(u) = Ends(t) \cup {n + 1} /\ \A c \in Blanks(t) : c < n + 1
    BY <1>1, <1>3, <1>4, <1>10
  <2> DEFINE D == InBlock(t, n + 1, field)
             E == InBlock(u, n + 2, field)
  <2>2. \A e \in Ends(t) : e \in E <=> e \in D
    BY <1>5, <1>6, <1>7, <2>1
  <2>3. n + 1 \in E <=> Field(l) = field
    BY <1>6, <1>7, <2>1
  <2>4. E \subseteq Ends(t) \cup {n + 1} /\ D \subseteq Ends(t)
    BY <1>5, <1>6, <2>1
  <2>5. n + 1 \notin Ends(t)
    BY <1>1, <1>4
  <2> HIDE DEF D, E
  <2> QED
    BY <2>2, <2>3, <2>4, <2>5 DEF D, E
<1>11. InBlock(u, n + 2, field) =
         IF x # "LF" THEN InBlock(t, n + 1, field)
         ELSE IF l = << >> THEN {}
         ELSE InBlock(t, n + 1, field) \cup (IF Field(l) = field THEN {n + 1} ELSE {})
  BY <1>8, <1>9, <1>10
<1> QED
  BY <1>11 DEF u, n, l

(***************************************************************************)
(* The open block and the frames                                           *)
(***************************************************************************)
\* The values that a field has in the open block of a text with one more character.
LEMMA OpenValues ==
  ASSUME NEW t \in Seq(Letters), NEW x \in Letters, NEW field
  PROVE  ValuesOf(Append(t, x), Len(t) + 2, field) =
           IF x # "LF" THEN ValuesOf(t, Len(t) + 1, field)
           ELSE IF OpenLine(t) = << >> THEN << >>
           ELSE IF Field(OpenLine(t)) = field THEN Append(ValuesOf(t, Len(t) + 1, field), Value(OpenLine(t)))
           ELSE ValuesOf(t, Len(t) + 1, field)
<1> DEFINE u == Append(t, x)
           n == Len(t)
           l == OpenLine(t)
           P == InBlock(t, n + 1, field)
           Q == InBlock(u, n + 2, field)
           f == [e \in DOMAIN t |-> Value(LineAt(t, e))]
           g == [e \in DOMAIN u |-> Value(LineAt(u, e))]
<1>1. /\ n \in Nat /\ DOMAIN t = 1 .. n /\ DOMAIN u = 1 .. n + 1
      /\ \A e \in 1 .. n + 1 : LineAt(u, e) = LineAt(t, e) /\ LineAt(t, e) \in Seq(Letters)
  BY LinesAlike
<1>2. /\ n + 1 \in 1 .. n + 1 /\ n + 1 \in Nat /\ n + 1 > n
      /\ \A e \in 1 .. n : e \in 1 .. n + 1
  BY <1>1
<1>3. P \in SUBSET (1 .. n)
  BY <1>2, BlocksAlike
<1>4. Q = IF x # "LF" THEN P ELSE IF l = << >> THEN {}
          ELSE P \cup (IF Field(l) = field THEN {n + 1} ELSE {})
  BY OpenBlock
<1>5. ValuesOf(t, n + 1, field) = Selected(f, P) /\ ValuesOf(u, n + 2, field) = Selected(g, Q)
  BY DEF ValuesOf
<1>6. l = LineAt(t, n + 1)
  BY DEF OpenLine
<1> HIDE DEF u, n, l, P, Q
<1>7. \A p \in P : p \in 1 .. n /\ p \in 1 .. n + 1
  BY <1>2, <1>3
<1>8. \A p \in P : g[p] = f[p] /\ g[p] \in Seq(Letters)
  <2>1. TAKE p \in P
  <2>2. p \in 1 .. n /\ p \in 1 .. n + 1
    BY <1>7
  <2>3. g[p] = f[p] /\ g[p] = Value(LineAt(t, p))
    BY <1>1, <2>2
  <2>4. Value(LineAt(t, p)) \in Seq(Letters)
    BY <1>1, <2>2, ValueType
  <2> QED
    BY <2>3, <2>4
<1>9. g[n + 1] = Value(l) /\ Value(l) \in Seq(Letters)
  <2>1. g[n + 1] = Value(l)
    BY <1>1, <1>2, <1>6
  <2>2. l \in Seq(Letters)
    BY <1>1, <1>2, <1>6
  <2> QED
    BY <2>1, <2>2, ValueType
<1> HIDE DEF f, g
<1>10. Selected(g, P) = Selected(f, P)
  BY <1>1, <1>3, <1>8, SelectedAlike
<1>11. Selected(g, P \cup {n + 1}) = Append(Selected(f, P), Value(l))
  <2> DEFINE m == n + 1
             W == Seq(Letters)
  <2>1. m \in Nat /\ m > n /\ g[m] \in W /\ \A p \in P : g[p] \in W
    BY <1>2, <1>8, <1>9
  <2> HIDE DEF m, W
  <2>2. Selected(g, P \cup {m}) = Append(Selected(g, P), g[m])
    BY <1>1, <1>3, <2>1, SelectedGrows
  <2> QED
    BY <1>9, <1>10, <2>2 DEF m
<1>12. Selected(g, {}) = << >>
  <2>1. {} \in SUBSET (1 .. n) /\ \A p \in {} : g[p] \in Seq(Letters)
    OBVIOUS
  <2> QED
    BY ONLY <1>1, <2>1, SelectedType
<1>13. P \cup {} = P
  OBVIOUS
<1>14. ValuesOf(u, n + 2, field) =
         IF x # "LF" THEN ValuesOf(t, n + 1, field)
         ELSE IF l = << >> THEN << >>
         ELSE IF Field(l) = field THEN Append(ValuesOf(t, n + 1, field), Value(l))
         ELSE ValuesOf(t, n + 1, field)
  BY <1>4, <1>5, <1>10, <1>11, <1>12, <1>13
<1> QED
  BY <1>14 DEF u, n, l

Fields == {<<"event">>, <<"id">>, <<"data">>}
Texts == Seq(Letters) \cup {Absent, <<"message">>}
Frames == [event : Texts, id : Texts, data : Seq(Seq(Letters))]

LEMMA LastOrType ==
  ASSUME NEW v \in Seq(Seq(Letters)), NEW none
  PROVE  IF v = << >> THEN LastOr(v, none) = none ELSE LastOr(v, none) \in Seq(Letters)
<1>1. v # << >> => Len(v) \in 1 .. Len(v)
  BY EmptySeq, LenProperties
<1>2. v # << >> => v[Len(v)] \in Seq(Letters)
  BY <1>1, ElementOfSeq
<1> QED
  BY <1>2 DEF LastOr, Last

LEMMA FrameType ==
  ASSUME NEW t \in Seq(Letters), NEW b \in 1 .. Len(t) + 1
  PROVE  FrameAt(t, b) \in Frames
<1> DEFINE v(field) == ValuesOf(t, b, field)
<1>1. \A field : v(field) \in Seq(Seq(Letters))
  BY ValuesType
<1>2. FrameAt(t, b) = [event |-> LastOr(v(<<"event">>), <<"message">>),
                       id    |-> LastOr(v(<<"id">>), Absent),
                       data  |-> v(<<"data">>)]
  BY DEF FrameAt
<1> HIDE DEF v
<1>3. LastOr(v(<<"event">>), <<"message">>) \in Texts
  <2> DEFINE w == v(<<"event">>)
  <2>1. w \in Seq(Seq(Letters))
    BY <1>1
  <2> HIDE DEF w
  <2>2. LastOr(w, <<"message">>) \in Texts
    BY <2>1, LastOrType DEF Texts
  <2> QED
    BY <2>2 DEF w
<1>4. LastOr(v(<<"id">>), Absent) \in Texts
  <2> DEFINE w == v(<<"id">>)
  <2>1. w \in Seq(Seq(Letters))
    BY <1>1
  <2> HIDE DEF w
  <2>2. LastOr(w, Absent) \in Texts
    BY <2>1, LastOrType DEF Texts
  <2> QED
    BY <2>2 DEF w
<1> QED
  BY <1>1, <1>2, <1>3, <1>4 DEF Frames

LEMMA FrameAlike ==
  ASSUME NEW t \in Seq(Letters), NEW x \in Letters, NEW b \in 1 .. Len(t) + 1
  PROVE  FrameAt(Append(t, x), b) = FrameAt(t, b)
<1>1. \A field : ValuesOf(Append(t, x), b, field) = ValuesOf(t, b, field)
  BY ValuesAlike
<1> QED
  BY <1>1 DEF FrameAt

\* A field stands in the open block.
Open(t) == \E field \in Fields : InBlock(t, Len(t) + 1, field) # {}

LEMMA ClosingGrows ==
  ASSUME NEW t \in Seq(Letters), NEW x \in Letters
  PROVE  /\ Closing(t) \in SUBSET (1 .. Len(t))
         /\ Closing(Append(t, x)) = Closing(t) \cup
              (IF x = "LF" /\ OpenLine(t) = << >> /\ Open(t) THEN {Len(t) + 1} ELSE {})
<1> DEFINE u == Append(t, x)
           n == Len(t)
           l == OpenLine(t)
           blank == x = "LF" /\ l = << >>
<1>1. /\ n \in Nat /\ Ends(t) \in SUBSET (1 .. n)
      /\ Blanks(u) = Blanks(t) \cup (IF blank THEN {n + 1} ELSE {})
  BY LinesAlike
<1>2. \A b \in 1 .. n + 1 : \A field : InBlock(u, b, field) = InBlock(t, b, field)
  BY BlocksAlike
<1>3. Open(t) <=> \E field \in Fields : InBlock(t, n + 1, field) # {}
  BY DEF Open
<1> HIDE DEF u, n, l, blank
<1>4. Blanks(t) \in SUBSET (1 .. n)
  BY <1>1 DEF Blanks
<1>5. n + 1 \in 1 .. n + 1 /\ n + 1 \notin 1 .. n /\ \A b \in 1 .. n : b \in 1 .. n + 1
  BY <1>1
<1> DEFINE C == Closing(t)
           D == Closing(u)
<1>6. \A b : b \in C <=> b \in Blanks(t) /\ \E field \in Fields : InBlock(t, b, field) # {}
  BY DEF Closing, Fields
<1>7. \A b : b \in D <=> b \in Blanks(u) /\ \E field \in Fields : InBlock(u, b, field) # {}
  BY DEF Closing, Fields
<1> HIDE DEF C, D, Open
<1>8. C \in SUBSET (1 .. n)
  BY <1>4, <1>6
<1>9. \A b \in 1 .. n : b \in D <=> b \in C
  BY <1>1, <1>2, <1>5, <1>6, <1>7
<1>10. n + 1 \in D <=> blank /\ Open(t)
  BY <1>1, <1>2, <1>3, <1>4, <1>5, <1>7
<1>11. D \subseteq 1 .. n \cup {n + 1}
  BY <1>1, <1>4, <1>7
<1>12. D = C \cup (IF blank /\ Open(t) THEN {n + 1} ELSE {})
  BY <1>8, <1>9, <1>10, <1>11
<1> QED
  BY <1>8, <1>12 DEF u, n, l, blank, C, D

\* The frames of a text with one more character: a blank line closes the open block.
LEMMA FramesGrow ==
  ASSUME NEW t \in Seq(Letters), NEW x \in Letters
  PROVE  /\ FramesOf(t) \in Seq(Frames)
         /\ FrameAt(t, Len(t) + 1) \in Frames
         /\ FramesOf(Append(t, x)) =
              IF x = "LF" /\ OpenLine(t) = << >> /\ Open(t) THEN Append(FramesOf(t), FrameAt(t, Len(t) + 1))
              ELSE FramesOf(t)
<1> DEFINE u == Append(t, x)
           n == Len(t)
           closes == x = "LF" /\ OpenLine(t) = << >> /\ Open(t)
           C == Closing(t)
           f == [b \in DOMAIN t |-> FrameAt(t, b)]
           g == [b \in DOMAIN u |-> FrameAt(u, b)]
<1>1. n \in Nat /\ DOMAIN t = 1 .. n /\ DOMAIN u = 1 .. n + 1
  BY LinesAlike
<1>2. C \in SUBSET (1 .. n) /\ Closing(u) = C \cup (IF closes THEN {n + 1} ELSE {})
  BY ClosingGrows
<1>3. \A b \in 1 .. n + 1 : FrameAt(u, b) = FrameAt(t, b) /\ FrameAt(t, b) \in Frames
  BY FrameAlike, FrameType
<1>4. FramesOf(t) = Selected(f, C) /\ FramesOf(u) = Selected(g, Closing(u))
  BY DEF FramesOf
<1> HIDE DEF u, n, closes, C
<1>5. n + 1 \in 1 .. n + 1 /\ n + 1 \in Nat /\ n + 1 > n /\ \A b \in C : b \in 1 .. n /\ b \in 1 .. n + 1
  BY <1>1, <1>2
<1>6. \A b \in C : g[b] = f[b] /\ g[b] \in Frames /\ f[b] \in Frames
  BY <1>1, <1>3, <1>5
<1>7. g[n + 1] = FrameAt(t, n + 1) /\ FrameAt(t, n + 1) \in Frames
  BY <1>1, <1>3, <1>5
<1> HIDE DEF f, g
<1>8. Selected(g, C) = Selected(f, C)
  BY <1>1, <1>2, <1>6, SelectedAlike
<1>9. Selected(f, C) \in Seq(Frames)
  BY <1>1, <1>2, <1>6, SelectedType
<1>10. Selected(g, C \cup {n + 1}) = Append(Selected(f, C), FrameAt(t, n + 1))
  <2> DEFINE m == n + 1
  <2>1. m \in Nat /\ m > n /\ g[m] \in Frames
    BY <1>5, <1>7
  <2> HIDE DEF m
  <2>2. Selected(g, C \cup {m}) = Append(Selected(g, C), g[m])
    BY <1>1, <1>2, <1>6, <2>1, SelectedGrows
  <2> QED
    BY <1>7, <1>8, <2>2 DEF m
<1>11. C \cup {} = C
  OBVIOUS
<1>12. FramesOf(u) = IF closes THEN Append(FramesOf(t), FrameAt(t, n + 1)) ELSE FramesOf(t)
  BY <1>2, <1>4, <1>8, <1>10, <1>11
<1> QED
  BY <1>4, <1>7, <1>9, <1>12 DEF u, n, closes

(***************************************************************************)
(* The parser on a character                                               *)
(***************************************************************************)
Curs == [event : Seq(Letters) \cup {Absent}, id : Seq(Letters) \cup {Absent}, data : Seq(Seq(Letters))]
Parsers == [buf : Seq(Letters), cur : Curs, out : Seq(Frames)]

\* The unfinished frame of a text.
CurOf(t) ==
  [event |-> LastOr(ValuesOf(t, Len(t) + 1, <<"event">>), Absent),
   id    |-> LastOr(ValuesOf(t, Len(t) + 1, <<"id">>), Absent),
   data  |-> ValuesOf(t, Len(t) + 1, <<"data">>)]

\* It is empty when no field stands in the open block, and else amounts to the frame of the block.
LEMMA CurIs ==
  ASSUME SseParserAssumption, NEW t \in Seq(Letters)
  PROVE  /\ CurOf(t) \in Curs
         /\ CurOf(t) = Empty <=> ~Open(t)
         /\ FrameAt(t, Len(t) + 1) = [event |-> IF CurOf(t).event = Absent THEN <<"message">> ELSE CurOf(t).event,
                                      id |-> CurOf(t).id, data |-> CurOf(t).data]
<1> DEFINE n == Len(t)
           v(field) == ValuesOf(t, n + 1, field)
           e == v(<<"event">>)
           i == v(<<"id">>)
           d == v(<<"data">>)
<1>1. n + 1 \in 1 .. n + 1
  BY LenProperties
<1>2. \A field : v(field) \in Seq(Seq(Letters)) /\ (v(field) = << >> <=> InBlock(t, n + 1, field) = {})
  BY <1>1, ValuesType
<1>3. Open(t) <=> e # << >> \/ i # << >> \/ d # << >>
  BY <1>2 DEF Open, Fields
<1>4. e \in Seq(Seq(Letters)) /\ i \in Seq(Seq(Letters)) /\ d \in Seq(Seq(Letters))
  BY <1>2
<1>5. /\ CurOf(t) = [event |-> LastOr(e, Absent), id |-> LastOr(i, Absent), data |-> d]
      /\ FrameAt(t, n + 1) = [event |-> LastOr(e, <<"message">>), id |-> LastOr(i, Absent), data |-> d]
  BY DEF CurOf, FrameAt
<1> HIDE DEF e, i, d, v, n
<1>6. \A none : IF e = << >> THEN LastOr(e, none) = none
                ELSE LastOr(e, none) \in Seq(Letters) /\ LastOr(e, none) = Last(e)
  BY <1>4, LastOrType DEF LastOr
<1>7. IF i = << >> THEN LastOr(i, Absent) = Absent ELSE LastOr(i, Absent) \in Seq(Letters)
  BY <1>4, LastOrType
<1>8. Absent \notin Seq(Letters)
  BY DEF SseParserAssumption
<1>9. CurOf(t) \in Curs
  BY <1>4, <1>5, <1>6, <1>7 DEF Curs
<1>10. CurOf(t) = Empty <=> e = << >> /\ i = << >> /\ d = << >>
  BY <1>5, <1>6, <1>7, <1>8 DEF Empty
<1>11. LastOr(e, <<"message">>) = IF LastOr(e, Absent) = Absent THEN <<"message">> ELSE LastOr(e, Absent)
  BY <1>6, <1>8
<1> QED
  BY <1>3, <1>5, <1>9, <1>10, <1>11 DEF n

\* A parser that stands where a text leaves it, after these frames.
Means(t, p, before) ==
  /\ p \in Parsers
  /\ p.buf = RawLineAt(t, Len(t) + 1)
  /\ p.cur = CurOf(t)
  /\ before \o p.out = FramesOf(t)

\* The unfinished frame of a text with one more character.
LEMMA CurGrows ==
  ASSUME SseParserAssumption, NEW t \in Seq(Letters), NEW x \in Letters
  PROVE  LET l == OpenLine(t)
         IN CurOf(Append(t, x)) =
              IF x # "LF" THEN CurOf(t)
              ELSE IF l = << >> THEN Empty
              ELSE [event |-> IF Field(l) = <<"event">> THEN Value(l) ELSE CurOf(t).event,
                    id    |-> IF Field(l) = <<"id">> THEN Value(l) ELSE CurOf(t).id,
                    data  |-> IF Field(l) = <<"data">> THEN Append(CurOf(t).data, Value(l)) ELSE CurOf(t).data]
<1> DEFINE u == Append(t, x)
           n == Len(t)
           l == OpenLine(t)
           v(field) == ValuesOf(t, n + 1, field)
           w(field) == ValuesOf(u, n + 2, field)
<1>1. /\ n \in Nat /\ Len(u) = n + 1
      /\ \A e \in 1 .. n + 1 : LineAt(t, e) \in Seq(Letters)
  BY LinesAlike
<1>2. n + 1 \in 1 .. n + 1 /\ Len(u) + 1 = n + 2
  BY <1>1
<1>3. Value(l) \in Seq(Letters)
  <2>1. l \in Seq(Letters)
    BY <1>1, <1>2 DEF OpenLine
  <2> QED
    BY <2>1, ValueType
<1>4. \A field : v(field) \in Seq(Seq(Letters))
  BY <1>2, ValuesType
<1>5. \A field : w(field) = IF x # "LF" THEN v(field) ELSE IF l = << >> THEN << >>
                            ELSE IF Field(l) = field THEN Append(v(field), Value(l)) ELSE v(field)
  BY OpenValues
<1>6. CurOf(t) = [event |-> LastOr(v(<<"event">>), Absent), id |-> LastOr(v(<<"id">>), Absent), data |-> v(<<"data">>)]
  BY DEF CurOf
<1>7. CurOf(u) = [event |-> LastOr(w(<<"event">>), Absent), id |-> LastOr(w(<<"id">>), Absent), data |-> w(<<"data">>)]
  BY <1>2 DEF CurOf
<1>8. LastOr(<< >>, Absent) = Absent
  BY DEF LastOr
<1>9. ASSUME NEW s \in Seq(Seq(Letters)) PROVE LastOr(Append(s, Value(l)), Absent) = Value(l)
  <2> DEFINE r == Append(s, Value(l))
  <2>1. r \in Seq(Seq(Letters)) /\ r # << >> /\ Len(r) = Len(s) + 1 /\ r[Len(s) + 1] = Value(l)
    BY <1>3, AppendProperties
  <2> HIDE DEF r
  <2>2. LastOr(r, Absent) = r[Len(r)]
    BY <2>1 DEF LastOr, Last
  <2> QED
    BY <2>1, <2>2 DEF r
<1> HIDE DEF u, n, l, v, w
<1>10. \A field : LastOr(w(field), Absent) =
         IF x # "LF" THEN LastOr(v(field), Absent) ELSE IF l = << >> THEN Absent
         ELSE IF Field(l) = field THEN Value(l) ELSE LastOr(v(field), Absent)
  BY <1>4, <1>5, <1>8, <1>9
<1>11. CurOf(u) =
         IF x # "LF" THEN CurOf(t)
         ELSE IF l = << >> THEN Empty
         ELSE [event |-> IF Field(l) = <<"event">> THEN Value(l) ELSE CurOf(t).event,
               id    |-> IF Field(l) = <<"id">> THEN Value(l) ELSE CurOf(t).id,
               data  |-> IF Field(l) = <<"data">> THEN Append(CurOf(t).data, Value(l)) ELSE CurOf(t).data]
  <2>1. CASE x # "LF"
    BY <1>5, <1>6, <1>7, <2>1
  <2>2. CASE x = "LF" /\ l = << >>
    <3>1. /\ LastOr(w(<<"event">>), Absent) = Absent /\ LastOr(w(<<"id">>), Absent) = Absent
          /\ w(<<"data">>) = << >>
      BY <1>5, <1>10, <2>2
    <3> QED
      BY <1>7, <2>2, <3>1 DEF Empty
  <2>3. CASE x = "LF" /\ l # << >>
    <3>1. /\ LastOr(w(<<"event">>), Absent) = IF Field(l) = <<"event">> THEN Value(l) ELSE LastOr(v(<<"event">>), Absent)
          /\ LastOr(w(<<"id">>), Absent) = IF Field(l) = <<"id">> THEN Value(l) ELSE LastOr(v(<<"id">>), Absent)
          /\ w(<<"data">>) = IF Field(l) = <<"data">> THEN Append(v(<<"data">>), Value(l)) ELSE v(<<"data">>)
      BY <1>5, <1>10, <2>3
    <3>2. CurOf(u) = [event |-> IF Field(l) = <<"event">> THEN Value(l) ELSE LastOr(v(<<"event">>), Absent),
                      id    |-> IF Field(l) = <<"id">> THEN Value(l) ELSE LastOr(v(<<"id">>), Absent),
                      data  |-> IF Field(l) = <<"data">> THEN Append(v(<<"data">>), Value(l)) ELSE v(<<"data">>)]
      BY <1>7, <3>1
    <3>3. /\ CurOf(t).event = LastOr(v(<<"event">>), Absent) /\ CurOf(t).id = LastOr(v(<<"id">>), Absent)
          /\ CurOf(t).data = v(<<"data">>)
      BY <1>6
    <3> QED
      BY <2>3, <3>2, <3>3
  <2> QED
    BY <2>1, <2>2, <2>3
<1> QED
  BY <1>11 DEF u, n, l

LEMMA FieldOfNone == Field(<< >>) = << >>
<1>1. Len(<< >>) = 0
  BY EmptySeq
<1>2. Colon(<< >>) = 1
  <2>1. 1 .. 0 + 1 = {1} /\ ~(1 <= 0) /\ 1 .. 1 - 1 = {}
    OBVIOUS
  <2> QED
    BY <1>1, <2>1 DEF Colon
<1>3. SubSeq(<< >>, 1, 0) = << >>
  BY SubSeqEmpty
<1> QED
  BY <1>2, <1>3 DEF Field

LEMMA FramesRegrouped == \A a, b, c \in Seq(Frames) : (a \o b) \o c = a \o (b \o c)
BY ONLY Regrouped

LEMMA TakeCharMeans ==
  ASSUME SseParserAssumption, NEW t \in Seq(Letters), NEW x \in Letters, NEW before \in Seq(Frames), NEW p, Means(t, p, before)
  PROVE  Means(Append(t, x), TakeChar(p, x), before)
<1> DEFINE u == Append(t, x)
           n == Len(t)
           l == OpenLine(t)
           q == TakeChar(p, x)
           bare == [p EXCEPT !.buf = << >>]
           val == Value(l)
<1>1. /\ n \in Nat /\ u \in Seq(Letters) /\ Len(u) = n + 1
      /\ \A e \in 1 .. n + 1 : LineAt(t, e) \in Seq(Letters)
  BY LinesAlike
<1>2. Len(u) + 1 = n + 2 /\ n + 1 \in 1 .. n + 1 /\ n + 2 \in 1 .. Len(u) + 1
  BY <1>1
<1>3. l \in Seq(Letters) /\ l = Stripped(RawLineAt(t, n + 1))
  BY <1>1, <1>2 DEF OpenLine, LineAt
<1>4. val \in Seq(Letters)
  BY <1>3, ValueType
<1>5. p \in Parsers /\ p.buf = RawLineAt(t, n + 1) /\ p.cur = CurOf(t) /\ before \o p.out = FramesOf(t)
  BY DEF Means
<1>6. /\ p.buf \in Seq(Letters) /\ p.cur \in Curs /\ p.out \in Seq(Frames)
      /\ p = [buf |-> p.buf, cur |-> p.cur, out |-> p.out]
      /\ p.cur = [event |-> p.cur.event, id |-> p.cur.id, data |-> p.cur.data]
  BY <1>5 DEF Parsers, Curs
<1>7. RawLineAt(u, n + 2) = IF x = "LF" THEN << >> ELSE Append(p.buf, x)
  BY <1>5, RawLineGrows
<1>8. RawLineAt(u, n + 2) \in Seq(Letters)
  BY <1>1, <1>2, RawLineType
<1>9. CurOf(u) \in Curs
  BY <1>1, CurIs
<1>10. /\ p.cur = Empty <=> ~Open(t)
       /\ FrameAt(t, n + 1) = [event |-> IF p.cur.event = Absent THEN <<"message">> ELSE p.cur.event,
                               id |-> p.cur.id, data |-> p.cur.data]
  BY <1>5, CurIs
<1>11. CurOf(u) =
         IF x # "LF" THEN p.cur
         ELSE IF l = << >> THEN Empty
         ELSE [event |-> IF Field(l) = <<"event">> THEN val ELSE p.cur.event,
               id    |-> IF Field(l) = <<"id">> THEN val ELSE p.cur.id,
               data  |-> IF Field(l) = <<"data">> THEN Append(p.cur.data, val) ELSE p.cur.data]
  BY <1>5, CurGrows
<1>12. /\ FrameAt(t, n + 1) \in Frames
       /\ FramesOf(u) = IF x = "LF" /\ l = << >> /\ Open(t) THEN Append(FramesOf(t), FrameAt(t, n + 1)) ELSE FramesOf(t)
  BY FramesGrow
<1>13. <<"event">> # <<"id">> /\ <<"event">> # <<"data">> /\ <<"id">> # <<"data">>
  OBVIOUS
<1>14. q = IF x = "LF" THEN TakeLine(bare, l) ELSE [p EXCEPT !.buf = Append(@, x)]
  BY <1>3, <1>5 DEF TakeChar
<1> HIDE DEF u, n, l, q, val
<1>15. SUFFICES /\ q = [buf |-> RawLineAt(u, n + 2), cur |-> CurOf(u), out |-> q.out]
                /\ q.out \in Seq(Frames) /\ before \o q.out = FramesOf(u)
  <2>1. q \in Parsers
    BY <1>8, <1>9, <1>15 DEF Parsers
  <2> QED
    BY <1>2, <1>15, <2>1 DEF Means, u, q
<1>16. CASE x # "LF"
  <2>1. q = [buf |-> Append(p.buf, x), cur |-> p.cur, out |-> p.out]
    BY <1>6, <1>14, <1>16
  <2> QED
    BY <1>5, <1>6, <1>7, <1>11, <1>12, <1>16, <2>1
<1>17. bare = [buf |-> << >>, cur |-> p.cur, out |-> p.out]
  BY <1>6
<1> HIDE DEF bare
<1>18. CASE x = "LF" /\ l = << >>
  <2>1. q = Flush(bare)
    <3>1. Field(l) = << >> /\ << >> # <<"event">> /\ << >> # <<"id">> /\ << >> # <<"data">>
      BY <1>18, FieldOfNone
    <3> QED
      BY <1>14, <1>18, <3>1 DEF TakeLine
  <2>2. CASE ~Open(t)
    <3>1. q = bare /\ p.cur = Empty
      BY <1>10, <1>17, <2>1, <2>2 DEF Flush
    <3> QED
      BY <1>5, <1>6, <1>7, <1>11, <1>12, <1>17, <1>18, <2>2, <3>1
  <2>3. CASE Open(t)
    <3> DEFINE fr == FrameAt(t, n + 1)
    <3>1. q = [buf |-> << >>, cur |-> Empty, out |-> Append(p.out, fr)]
      BY <1>10, <1>17, <2>1, <2>3 DEF Flush
    <3>2. fr \in Frames
      BY <1>12
    <3> HIDE DEF fr
    <3>3. Append(p.out, fr) \in Seq(Frames)
      BY <1>6, <3>2, AppendProperties
    <3>4. before \o Append(p.out, fr) = Append(before \o p.out, fr)
      <4> DEFINE a == p.out
                 b == <<fr>>
      <4>1. a \in Seq(Frames) /\ b \in Seq(Frames) /\ before \o a \in Seq(Frames)
        BY <1>6, <3>2, ConcatProperties
      <4>2. Append(a, fr) = a \o b
        BY <3>2, <4>1, AppendIsConcat
      <4>3. Append(before \o a, fr) = (before \o a) \o b
        BY <3>2, <4>1, AppendIsConcat
      <4> HIDE DEF a, b
      <4>4. (before \o a) \o b = before \o (a \o b)
        BY ONLY before \in Seq(Frames), <4>1, FramesRegrouped, Zenon
      <4>5. before \o Append(a, fr) = Append(before \o a, fr)
        BY <4>2, <4>3, <4>4
      <4> QED
        BY <4>5 DEF a
    <3>5. FramesOf(u) = Append(before \o p.out, fr)
      BY <1>5, <1>12, <1>18, <2>3 DEF fr
    <3> QED
      BY <1>7, <1>11, <1>18, <3>1, <3>3, <3>4, <3>5
  <2> QED
    BY <2>2, <2>3
<1>19. CASE x = "LF" /\ l # << >>
  <2>1. CASE Field(l) = <<"event">>
    <3>1. q = [buf |-> << >>, cur |-> [event |-> val, id |-> p.cur.id, data |-> p.cur.data], out |-> p.out]
      BY <1>6, <1>14, <1>17, <1>19, <2>1 DEF TakeLine, val
    <3> QED
      BY <1>5, <1>6, <1>7, <1>11, <1>12, <1>13, <1>19, <2>1, <3>1
  <2>2. CASE Field(l) = <<"id">>
    <3>1. q = [buf |-> << >>, cur |-> [event |-> p.cur.event, id |-> val, data |-> p.cur.data], out |-> p.out]
      BY <1>6, <1>13, <1>14, <1>17, <1>19, <2>2 DEF TakeLine, val
    <3> QED
      BY <1>5, <1>6, <1>7, <1>11, <1>12, <1>13, <1>19, <2>2, <3>1
  <2>3. CASE Field(l) = <<"data">>
    <3>1. q = [buf |-> << >>, cur |-> [event |-> p.cur.event, id |-> p.cur.id, data |-> Append(p.cur.data, val)], out |-> p.out]
      BY <1>6, <1>13, <1>14, <1>17, <1>19, <2>3 DEF TakeLine, val
    <3> QED
      BY <1>5, <1>6, <1>7, <1>11, <1>12, <1>13, <1>19, <2>3, <3>1
  <2>4. CASE Field(l) \notin Fields
    <3>1. q = bare
      BY <1>14, <1>19, <2>4 DEF TakeLine, Fields
    <3>2. CurOf(u) = p.cur
      BY <1>6, <1>11, <1>19, <2>4 DEF Fields
    <3> QED
      BY <1>5, <1>6, <1>7, <1>12, <1>17, <1>19, <3>1, <3>2
  <2> QED
    BY <2>1, <2>2, <2>3, <2>4 DEF Fields
<1> QED
  BY <1>16, <1>18, <1>19

\* The parser on some characters.
LEMMA TakeCharsMean ==
  ASSUME SseParserAssumption, NEW t \in Seq(Letters), NEW w \in Seq(Letters),
         NEW before \in Seq(Frames), NEW start, Means(t, start, before)
  PROVE  Means(t \o w, TakeChars(start, w), before)
<1> DEFINE n == Len(w)
           P(k) == t \o SubSeq(w, 1, k)
           GoodAt(k) == {p \in Parsers : Means(P(k), p, before)}
           G == [k \in 0 .. n |-> GoodAt(k)]
           step == [k \in 1 .. n |-> [p \in Parsers |-> TakeChar(p, w[k])]]
           Loop(f) == f = [k \in 0 .. n |-> IF k = 0 THEN start ELSE TakeChar(f[k - 1], w[k])]
           fold == CHOOSE f : Loop(f)
<1>1. n \in Nat /\ \A i \in 1 .. n : w[i] \in Letters
  BY LenProperties, ElementOfSeq
<1>2. \A k \in 0 .. n : SubSeq(w, 1, k) \in Seq(Letters)
  <2>1. TAKE k \in 0 .. n
  <2>2. k \in Int /\ \A i \in 1 .. k : w[i] \in Letters
    BY <1>1
  <2> QED
    BY <2>2, SubSeqProperties
<1>3. \A k \in 0 .. n : P(k) \in Seq(Letters)
  BY <1>2, ConcatProperties
<1>4. TakeChars(start, w) = fold[n]
  BY DEF TakeChars
<1>5. P(0) = t
  <2>1. SubSeq(w, 1, 0) = << >>
    BY SubSeqEmpty
  <2> QED
    BY <2>1, ConcatEmptySeq
<1>6. P(n) = t \o w
  <2>1. SubSeq(w, 1, n) = w
    BY SubSeqFull
  <2> QED
    BY <2>1
<1> HIDE DEF n, fold
<1>7. ASSUME NEW k \in 1 .. n PROVE P(k) = Append(P(k - 1), w[k])
  <2> DEFINE m == k - 1
             a == SubSeq(w, 1, m)
             x == w[k]
  <2>1. m \in Nat /\ m + 1 = k /\ m + 1 <= n /\ m \in 0 .. n
    BY <1>1
  <2>2. a \in Seq(Letters) /\ x \in Letters
    BY <1>1, <1>2, <2>1
  <2>3. SubSeq(w, 1, m + 1) = Append(SubSeq(w, 1, m), w[m + 1])
    <3> HIDE DEF m
    <3> QED
      BY <2>1, StretchGrows DEF n
  <2>4. SubSeq(w, 1, k) = Append(a, x)
    BY <2>1, <2>3
  <2> HIDE DEF a, x
  <2>5. Append(a, x) = a \o <<x>> /\ <<x>> \in Seq(Letters)
    BY <2>2, AppendIsConcat
  <2>6. t \o a \in Seq(Letters)
    BY <2>2, ConcatProperties
  <2>7. Append(t \o a, x) = (t \o a) \o <<x>>
    BY <2>2, <2>6, AppendIsConcat
  <2>8. (t \o a) \o <<x>> = t \o (a \o <<x>>)
    <3> DEFINE b == <<x>>
    <3>1. b \in Seq(Letters)
      BY <2>5
    <3> HIDE DEF b
    <3>2. (t \o a) \o b = t \o (a \o b)
      BY ONLY t \in Seq(Letters), <2>2, <3>1, TextsRegrouped, Zenon
    <3> QED
      BY <3>2 DEF b
  <2> QED
    BY <2>4, <2>5, <2>7, <2>8 DEF a, x
<1> HIDE DEF P
<1>8. start \in GoodAt(0)
  BY <1>5 DEF Means
<1>9. ASSUME NEW k \in 1 .. n, NEW p \in GoodAt(k - 1) PROVE TakeChar(p, w[k]) \in GoodAt(k)
  <2> DEFINE s == P(k - 1)
             x == w[k]
  <2>1. k - 1 \in 0 .. n
    BY <1>1
  <2>2. s \in Seq(Letters) /\ x \in Letters /\ P(k) = Append(s, x)
    BY <1>1, <1>3, <1>7, <2>1
  <2>3. Means(s, p, before)
    OBVIOUS
  <2> HIDE DEF s, x
  <2>4. Means(Append(s, x), TakeChar(p, x), before)
    BY <2>2, <2>3, TakeCharMeans
  <2> QED
    BY <2>2, <2>4 DEF Means, x
<1>10. \A k \in 0 .. n : \A p \in GoodAt(k) : p \in Parsers
  OBVIOUS
<1>11. \A k \in 0 .. n : G[k] = GoodAt(k)
  OBVIOUS
<1>12. 0 \in 0 .. n /\ n \in 0 .. n /\ \A k \in 1 .. n : k \in 0 .. n /\ k # 0 /\ k - 1 \in 0 .. n
  BY <1>1
<1> HIDE DEF GoodAt, G
<1>13. ASSUME NEW f, f[0] = start, \A k \in 1 .. n : f[k - 1] \in Parsers => f[k] = TakeChar(f[k - 1], w[k])
       PROVE  \A k \in 0 .. n : f[k] \in GoodAt(k)
  <2>1. f[0] \in G[0]
    BY <1>8, <1>11, <1>12, <1>13
  <2>2. ASSUME NEW k \in 1 .. n, f[k - 1] \in G[k - 1] PROVE f[k] \in G[k]
    <3>1. f[k - 1] \in GoodAt(k - 1)
      BY <1>11, <1>12, <2>2
    <3>2. f[k] \in GoodAt(k)
      BY <1>9, <1>10, <1>12, <1>13, <3>1
    <3> QED
      BY <1>11, <1>12, <3>2
  <2>3. \A k \in 0 .. n : f[k] \in G[k]
    BY <1>1, <2>1, <2>2, StaysIn
  <2> QED
    BY <1>11, <2>3
<1>14. \E f : Loop(f)
  <2> DEFINE f == LoopOf(n, start, step)
             h == [k \in 0 .. n |-> f[k]]
  <2>1. f[0] = start /\ \A k \in 1 .. n : f[k] = step[k][f[k - 1]]
    <3> HIDE DEF step
    <3> QED
      BY <1>1, LoopRuns
  <2> HIDE DEF f
  <2>2. \A k \in 1 .. n : f[k - 1] \in Parsers => f[k] = TakeChar(f[k - 1], w[k])
    BY <2>1
  <2>3. \A k \in 0 .. n : f[k] \in GoodAt(k)
    BY <1>13, <2>1, <2>2
  <2>4. ASSUME NEW k \in 0 .. n PROVE h[k] = IF k = 0 THEN start ELSE TakeChar(h[k - 1], w[k])
    <3>1. CASE k = 0
      BY <2>1, <3>1
    <3>2. CASE k # 0
      <4>1. k \in 1 .. n /\ k - 1 \in 0 .. n
        BY <1>1, <3>2
      <4> QED
        BY <1>10, <2>2, <2>3, <3>2, <4>1
    <3> QED
      BY <3>1, <3>2
  <2>5. h = [k \in 0 .. n |-> h[k]]
    OBVIOUS
  <2> HIDE DEF h
  <2>6. Loop(h)
    BY <2>4, <2>5
  <2> QED
    BY <2>6
<1>15. Loop(fold)
  <2> HIDE DEF Loop
  <2> QED
    BY <1>14 DEF fold
<1>16. fold[n] \in GoodAt(n)
  <2>1. \A k \in 0 .. n : fold[k] = IF k = 0 THEN start ELSE TakeChar(fold[k - 1], w[k])
    BY <1>15
  <2>2. fold[0] = start /\ \A k \in 1 .. n : fold[k] = TakeChar(fold[k - 1], w[k])
    BY ONLY <1>12, <2>1
  <2> HIDE DEF Loop
  <2> QED
    BY <1>12, <1>13, <2>2
<1> QED
  BY <1>4, <1>6, <1>16 DEF GoodAt

-----------------------------------------------------------------------------
LEMMA EndedType ==
  ASSUME SseParserAssumption, NEW s \in Ended
  PROVE  s \in Seq(Letters)
<1>1. \A a, b \in Letters : <<a>> \in Seq(Letters) /\ <<b, a>> \in Seq(Letters)
  OBVIOUS
<1>2. <<"LF">> \in Seq(Letters) /\ <<"CR", "LF">> \in Seq(Letters)
  BY ONLY <1>1, LettersHave
<1>3. PICK l \in Lines : s = l \o <<"LF">> \/ s = l \o <<"CR", "LF">>
  BY DEF Ended
<1>4. l \in Seq(Letters)
  BY DEF SseParserAssumption
<1> QED
  BY <1>2, <1>3, <1>4, ConcatProperties

LEMMA StreamType ==
  ASSUME SseParserAssumption, NEW n \in Nat, NEW s \in Streams(n)
  PROVE  s \in Seq(Letters)
<1>1. PICK ls \in [1 .. n -> Ended] : s = Flat(ls)
  BY DEF Streams
<1>2. ls \in [1 .. n -> Seq(Letters)]
  BY EndedType
<1>3. ls \in Seq(Seq(Letters))
  BY <1>2, SeqDef
<1> QED
  BY <1>1, <1>3, FlatIs

\* A parser that was pushed nothing.
LEMMA NothingMeans ==
  ASSUME SseParserAssumption
  PROVE  Means(<< >>, [buf |-> << >>, cur |-> Empty, out |-> << >>], << >>)
<1> DEFINE t == << >>
           p == [buf |-> << >>, cur |-> Empty, out |-> << >>]
<1>1. t \in Seq(Letters) /\ Len(t) = 0 /\ DOMAIN t = {}
  BY EmptySeq
<1> HIDE DEF t
<1>2. Ends(t) = {} /\ Blanks(t) = {}
  BY <1>1 DEF Ends, Blanks
<1>3. CurOf(t) = Empty /\ CurOf(t) \in Curs
  <2>1. ~Open(t)
    BY <1>2 DEF Open, InBlock
  <2> QED
    BY <1>1, <2>1, CurIs
<1>4. RawLineAt(t, 1) = << >>
  <2>1. LineStart(t, 1, 1)
    BY DEF LineStart
  <2>2. RawLineAt(t, 1) = SubSeq(t, 1, 1 - 1)
    BY <2>1, RawLineIs
  <2>3. SubSeq(t, 1, 0) = << >>
    BY SubSeqEmpty
  <2> QED
    BY <2>2, <2>3
<1>5. FramesOf(t) = << >>
  <2>1. Closing(t) = {}
    BY <1>2 DEF Closing
  <2> DEFINE f == [b \in DOMAIN t |-> FrameAt(t, b)]
  <2>2. FramesOf(t) = Selected(f, {})
    BY <2>1 DEF FramesOf
  <2> HIDE DEF f
  <2>3. 0 \in Nat /\ {} \in SUBSET (1 .. 0) /\ \A b \in {} : f[b] \in Frames
    OBVIOUS
  <2>4. Selected(f, {}) = << >>
    BY ONLY <2>3, SelectedType
  <2> QED
    BY <2>2, <2>4
<1>6. << >> \in Seq(Letters) /\ << >> \in Seq(Frames) /\ << >> \o << >> = << >>
  BY EmptySeq, ConcatEmptySeq
<1>7. p \in Parsers
  BY <1>3, <1>6 DEF Parsers
<1> QED
  BY <1>1, <1>3, <1>4, <1>5, <1>6, <1>7 DEF Means, t

\* The tokens pushed so far.
Pushed == SubSeq(text, 1, fed)

\* The decoder, the line, the frame and the frames are what was pushed leaves and means.
ParserInv ==
  /\ text \in Seq(Letters) /\ fed \in 0 .. Len(text)
  /\ pending = Rest(Pushed)
  /\ frames \in Seq(Frames)
  /\ Means(Chars(Pushed), [buf |-> buf, cur |-> cur, out |-> << >>], frames)

LEMMA ParserInvInit ==
  ASSUME SseParserAssumption, ParserInit
  PROVE  ParserInv
<1>1. text \in Seq(Letters)
  BY StreamType DEF ParserInit
<1>2. fed = 0 /\ pending = << >> /\ buf = << >> /\ cur = Empty /\ frames = << >>
  BY DEF ParserInit
<1>3. Pushed = << >>
  <2>1. SubSeq(text, 1, 0) = << >>
    BY SubSeqEmpty
  <2> QED
    BY <1>2, <2>1 DEF Pushed
<1>4. Rest(<< >>) = << >> /\ Chars(<< >>) = << >>
  BY CharsOfNone DEF Rest
<1>5. fed \in 0 .. Len(text)
  <2>1. Len(text) \in Nat
    BY <1>1, LenProperties
  <2> QED
    BY <1>2, <2>1
<1>6. frames \in Seq(Frames)
  BY <1>2, EmptySeq
<1> QED
  BY <1>1, <1>2, <1>3, <1>4, <1>5, <1>6, NothingMeans DEF ParserInv

LEMMA PushKeeps ==
  ASSUME SseParserAssumption, ParserInv, NEW n \in 0 .. Len(text), Push(n)
  PROVE  ParserInv'
<1> DEFINE d == Decoded(pending, SubSeq(text, fed + 1, fed + n))
           start == [buf |-> buf, cur |-> cur, out |-> << >>]
           p == TakeChars(start, d.out)
           old == Chars(Pushed)
<1>1. /\ fed + n <= Len(text) /\ fed' = fed + n /\ text' = text
      /\ pending' = d.rest /\ buf' = p.buf /\ cur' = p.cur /\ frames' = frames \o p.out
  BY DEF Push
<1>2. /\ text \in Seq(Letters) /\ fed \in 0 .. Len(text) /\ pending = Rest(Pushed)
      /\ frames \in Seq(Frames) /\ Means(old, start, frames)
  BY DEF ParserInv
<1>3. Len(text) \in Nat /\ fed \in Nat /\ n \in Nat /\ fed + n \in 0 .. Len(text)
  <2>1. Len(text) \in Nat
    BY <1>2, LenProperties
  <2> QED
    BY <1>1, <1>2, <2>1
<1>4. Pushed = SubSeq(text, 1, fed) /\ Pushed' = SubSeq(text, 1, fed + n)
  BY <1>1 DEF Pushed
<1>5. /\ d \in Decoders /\ d.rest = Rest(SubSeq(text, 1, fed + n))
      /\ old \in Seq(Letters) /\ Chars(SubSeq(text, 1, fed + n)) = old \o d.out
  <2>1. d = Decoded(Rest(SubSeq(text, 1, fed)), SubSeq(text, fed + 1, fed + n)) /\ old = Chars(SubSeq(text, 1, fed))
    BY <1>2, <1>4
  <2> HIDE DEF d, old
  <2> QED
    BY <1>1, <1>2, <1>3, <2>1, DecodedIs
<1>6. d.out \in Seq(Letters)
  BY <1>5 DEF Decoders
<1> HIDE DEF d, start, old
<1>7. Means(old \o d.out, p, frames)
  BY <1>2, <1>5, <1>6, TakeCharsMean
<1> HIDE DEF p
<1>8. Means(Chars(Pushed'), p, frames) /\ pending' = Rest(Pushed')
  BY <1>1, <1>4, <1>5, <1>7
<1>9. p.buf \in Seq(Letters) /\ p.cur \in Curs /\ p.out \in Seq(Frames)
  BY <1>7 DEF Means, Parsers
<1>10. frames' \in Seq(Frames) /\ frames' \o << >> = frames'
  BY <1>1, <1>2, <1>9, ConcatProperties, ConcatEmptySeq
<1> DEFINE q == [buf |-> p.buf, cur |-> p.cur, out |-> << >>]
<1>11. q \in Parsers
  BY <1>9, EmptySeq DEF Parsers
<1>12. Means(Chars(Pushed'), q, frames')
  BY <1>1, <1>8, <1>10, <1>11 DEF Means
<1>13. q = [buf |-> buf', cur |-> cur', out |-> << >>]
  BY <1>1
<1>14. Means(Chars(Pushed'), [buf |-> buf', cur |-> cur', out |-> << >>], frames')
  BY <1>12, <1>13
<1> QED
  BY <1>1, <1>2, <1>3, <1>8, <1>10, <1>14 DEF ParserInv

LEMMA ParserInvSafe ==
  ASSUME ParserInv
  PROVE  ChunkingInvisible
<1>1. frames \in Seq(Frames) /\ frames \o << >> = FramesOf(Chars(Pushed))
  BY DEF ParserInv, Means
<1>2. frames \o << >> = frames
  BY <1>1, ConcatEmptySeq
<1> QED
  BY <1>1, <1>2 DEF ChunkingInvisible, Pushed

\* However the bytes of a stream are cut into chunks, inside a line ending, a character or a
\* frame, the frames that come out of the parser are those of the bytes that went in.
\* (streams.ts 56-118)
THEOREM ParserFaithful == ParserSpec => []ChunkingInvisible
<1> USE SseParserAssumption
<1>1. ParserInit => ParserInv
  BY ParserInvInit
<1>2. ParserInv /\ [ParserNext]_parserVars => ParserInv'
  <2>1. SUFFICES ASSUME ParserInv, [ParserNext]_parserVars PROVE ParserInv'
    OBVIOUS
  <2>2. ASSUME NEW n \in 0 .. Len(text), Push(n) PROVE ParserInv'
    BY <2>1, <2>2, PushKeeps
  <2>3. CASE UNCHANGED parserVars
    BY <2>1, <2>3 DEF ParserInv, Pushed, parserVars
  <2> QED
    BY <2>1, <2>2, <2>3 DEF ParserNext
<1>3. ParserInv => ChunkingInvisible
  BY ParserInvSafe
<1> QED
  BY <1>1, <1>2, <1>3, PTL DEF ParserSpec

=============================================================================
