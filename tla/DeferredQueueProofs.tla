------------------------ MODULE DeferredQueueProofs ------------------------
(***************************************************************************)
(* The inductive invariant of DeferredQueue, for any number of epochs and  *)
(* any bound on the batches of a close, and the properties that follow.    *)
(***************************************************************************)
EXTENDS DeferredQueue, TLAPS

\* The set of calls, as TypeOK states it.
CallType == [stage : Stage, kind : {"close", "fund"},
             state : [epoch : Nat, head : Nat \cup {None}, tail : Nat \cup {None}],
             max : 1 .. MaxEquityBatches, next : Nat \cup {None}, seen : SUBSET Nat,
             batches : Seq(Nat), evidence : [closedEpoch : Nat, funded : Nat]]

\* What Advance changes: the stage, and the set of the epochs seen.
LEMMA AdvanceKeeps ==
  ASSUME NEW c \in CallType,
         c.next # None => \A s \in c.seen : s < c.next
  PROVE  /\ Advance(c) \in CallType
         /\ Advance(c).kind = c.kind /\ Advance(c).state = c.state /\ Advance(c).max = c.max
         /\ Advance(c).next = c.next /\ Advance(c).batches = c.batches
         /\ Advance(c).evidence = c.evidence
         /\ \/ /\ c.next = None \/ Len(c.batches) = c.max
               /\ Advance(c).stage = "queues"
            \/ /\ c.next # None /\ Len(c.batches) # c.max
               /\ Advance(c).stage = "read" /\ Advance(c).seen = c.seen \cup {c.next}
  <1> USE NoneAssumption
  <1>1. CASE c.next = None \/ Len(c.batches) = c.max
    <2>1. Advance(c) = [c EXCEPT !.stage = "queues"]
      BY <1>1 DEF Advance
    <2> QED BY <2>1, <1>1 DEF CallType, Stage
  <1>2. CASE ~(c.next = None \/ Len(c.batches) = c.max)
    <2>1. c.next \in Nat /\ c.next \notin c.seen
      BY <1>2 DEF CallType
    <2>2. Advance(c) = [c EXCEPT !.stage = "read", !.seen = @ \cup {c.next}]
      BY <1>2, <2>1 DEF Advance
    <2>3. c.seen \cup {c.next} \in SUBSET Nat /\ "read" \in Stage
      BY <2>1 DEF CallType, Stage
    <2> DEFINE s == c.seen \cup {c.next}
    <2>4. Advance(c) = [c EXCEPT !.stage = "read", !.seen = s]
      BY <2>2
    <2> HIDE DEF s
    <2>5. s \in SUBSET Nat
      BY <2>3 DEF s
    <2>6. Advance(c) \in CallType
      BY <2>3, <2>4, <2>5 DEF CallType
    <2>7. /\ Advance(c).kind = c.kind /\ Advance(c).state = c.state /\ Advance(c).max = c.max
          /\ Advance(c).next = c.next /\ Advance(c).batches = c.batches
          /\ Advance(c).evidence = c.evidence /\ Advance(c).stage = "read" /\ Advance(c).seen = s
      BY <2>4 DEF CallType
    <2> QED BY <2>6, <2>7, <1>2 DEF s
  <1> QED BY <1>1, <1>2

\* Funding the oldest n batches leaves the links of the others.
LEMMA LinksKept ==
  ASSUME IInv, NEW n \in Nat, NEW l \in Unlinked(n)
  PROVE  /\ l \in [Epoch -> Epoch \cup {None}]
         /\ \A e \in Epoch : l[e] = link[e] \/ l[e] = None
         /\ \A i \in 1 .. Len(deferred) : i > funded + n => l[deferred[i]] = link[deferred[i]]
  <1> USE BoundAssumption
  <1>1. PICK gone \in SUBSET {deferred[i] : i \in funded + 1 .. funded + n} :
          l = [e \in Epoch |-> IF e \in gone THEN None ELSE link[e]]
    BY DEF Unlinked
  <1>2. link \in [Epoch -> Epoch \cup {None}] /\ epoch \in 1 .. MaxEpoch
        /\ funded \in Nat /\ Len(deferred) \in Nat /\ deferred \in Seq(Nat)
    BY DEF IInv, TypeOK, Epoch
  <1>3. l \in [Epoch -> Epoch \cup {None}] /\ \A e \in Epoch : l[e] = link[e] \/ l[e] = None
    BY <1>1, <1>2
  <1>4. ASSUME NEW i \in 1 .. Len(deferred), i > funded + n
        PROVE  l[deferred[i]] = link[deferred[i]]
    <2>1. deferred[i] \in Epoch
      BY <1>2 DEF IInv, QueueInv, Epoch
    <2>2. ASSUME NEW j \in funded + 1 .. funded + n PROVE deferred[j] # deferred[i]
      <3>1. j \in 1 .. Len(deferred) /\ j < i
        BY <1>2, <1>4
      <3>2. deferred[j] < deferred[i]
        BY <3>1 DEF IInv, QueueInv
      <3>3. deferred[j] \in Nat /\ deferred[i] \in Nat
        BY <1>2, <3>1
      <3> QED BY <3>2, <3>3
    <2>3. deferred[i] \notin gone
      BY <2>2
    <2> QED BY <1>1, <2>1, <2>3
  <1> QED BY <1>3, <1>4

\* A step that leaves the call alone while the queue grows behind and shrinks in front.
LEMMA CallUntouched ==
  ASSUME IInv, UNCHANGED call, TypeOK', funded' >= funded,
         \/ /\ epoch' = epoch + 1
            /\ deferred' = deferred \/ deferred' = Append(deferred, epoch)
         \/ epoch' = epoch /\ deferred' = deferred /\ window' = window /\ funded < Len(deferred)
  PROVE  SnapshotInv(call)' /\ StageInv(call)'
  <1> USE NoneAssumption
  <1>1. /\ call \in CallType /\ epoch \in Nat /\ deferred \in Seq(Nat) /\ Len(deferred) \in Nat
        /\ funded \in 0 .. Len(deferred) /\ window.funded \in Nat
        /\ call.state.epoch \in 1 .. epoch /\ funded' \in Nat /\ call' = call
    <2>1. deferred' \in Seq(Nat) /\ funded' \in 0 .. Len(deferred')
      BY DEF TypeOK
    <2>2. call \in CallType /\ deferred \in Seq(Nat) /\ funded \in 0 .. Len(deferred)
          /\ window.funded \in Nat /\ epoch \in Nat
      BY DEF IInv, TypeOK, CallType, Epoch
    <2> QED BY <2>1, <2>2 DEF IInv, SnapshotInv
  <1>2. /\ Len(deferred') \in Nat /\ Len(deferred') >= Len(deferred)
        /\ \A i \in 1 .. Len(deferred) : deferred'[i] = deferred[i]
        /\ \A i \in 1 .. Len(deferred') : i > Len(deferred) => deferred'[i] = epoch
    <2>1. CASE deferred' = deferred
      BY <2>1, <1>1
    <2>2. CASE deferred' = Append(deferred, epoch)
      BY <2>2, <1>1
    <2> QED BY <2>1, <2>2
  <1>3. ASSUME NEW i \in 1 .. Len(deferred'), deferred'[i] = call.state.head
        PROVE  i \in 1 .. Len(deferred) /\ deferred[i] = call.state.head
    <2>1. call.state.head # None
      <3>1. CASE i > Len(deferred)
        BY <3>1, <1>1, <1>2, <1>3
      <3>2. CASE ~(i > Len(deferred))
        <4>1. i \in 1 .. Len(deferred)
          BY <3>2, <1>1, <1>2
        <4>2. deferred[i] \in Nat
          BY SMTT(30), <4>1, <1>1
        <4> QED BY <4>1, <4>2, <1>2, <1>3
      <3> QED BY <3>1, <3>2
    <2>2. PICK j \in 1 .. Len(deferred) : deferred[j] = call.state.head
      BY <2>1 DEF IInv, SnapshotInv
    <2>3. call.state.head \in 1 .. epoch - 1
      BY <2>2 DEF IInv, QueueInv
    <2>4. i <= Len(deferred)
      <3>1. call.state.head # epoch
        BY <1>1, <2>3
      <3>2. ~(i > Len(deferred))
        BY <3>1, <1>2, <1>3
      <3> QED BY <3>2, <1>1, <1>2
    <2>5. i \in 1 .. Len(deferred)
      BY <2>4, <1>1, <1>2
    <2> QED BY <2>5, <1>2, <1>3
  <1>4. epoch' = epoch => /\ deferred' = deferred /\ window' = window /\ funded < Len(deferred)
    BY <1>1
  <1>5. epoch' \in Nat /\ epoch' >= epoch /\ (epoch' # epoch => call.state.epoch # epoch')
    BY <1>1
  <1>6. SnapshotInv(call)'
    <2>1. call.state.epoch \in 1 .. epoch'
      BY <1>1, <1>5
    <2>2. call.state.head = None => /\ call.state.tail = None
                                    /\ call.state.epoch = epoch' => funded' = Len(deferred')
      BY <1>1, <1>4, <1>5 DEF IInv, SnapshotInv
    <2>3. ASSUME call.state.head # None
          PROVE  \E i \in 1 .. Len(deferred') : deferred'[i] = call.state.head
      <3>1. PICK i \in 1 .. Len(deferred) : deferred[i] = call.state.head
        BY <2>3 DEF IInv, SnapshotInv
      <3>2. i \in 1 .. Len(deferred') /\ deferred'[i] = call.state.head
        BY <1>1, <1>2, <3>1
      <3> QED BY <3>2
    <2>4. ASSUME call.state.head # None, call.state.epoch = epoch'
          PROVE  /\ call.state.tail = deferred'[Len(deferred')]
                 /\ \A i \in 1 .. Len(deferred') : deferred'[i] = call.state.head => window'.funded < i
      BY <1>1, <1>4, <1>5, <2>4 DEF IInv, SnapshotInv
    <2> QED BY <1>1, <2>1, <2>2, <2>3, <2>4 DEF SnapshotInv
  <1>7. WalkInv(call) => WalkInv(call)'
    <2> SUFFICES ASSUME WalkInv(call) PROVE WalkInv(call)'
      OBVIOUS
    <2>1. ASSUME NEW i \in 1 .. Len(deferred'), deferred'[i] = call.state.head
          PROVE  /\ i + Len(call.batches) <= Len(deferred') + 1
                 /\ \A k \in 1 .. Len(call.batches) : call.batches[k] = deferred'[i + k - 1]
                 /\ call.next # None => /\ i + Len(call.batches) <= Len(deferred')
                                        /\ call.next = deferred'[i + Len(call.batches)]
                 /\ call.next = None /\ call.state.epoch = epoch'
                      => i + Len(call.batches) = Len(deferred') + 1
      <3>0. Len(call.batches) \in Nat
        BY <1>1 DEF CallType
      <3>1. i \in 1 .. Len(deferred) /\ deferred[i] = call.state.head
        BY <1>3, <2>1
      <3>2. /\ i + Len(call.batches) <= Len(deferred) + 1
            /\ \A k \in 1 .. Len(call.batches) : call.batches[k] = deferred[i + k - 1]
            /\ call.next # None => /\ i + Len(call.batches) <= Len(deferred)
                                   /\ call.next = deferred[i + Len(call.batches)]
            /\ call.next = None /\ call.state.epoch = epoch
                 => i + Len(call.batches) = Len(deferred) + 1
        BY <3>1 DEF WalkInv
      <3> DEFINE n == Len(call.batches)
                 len == Len(deferred)
      <3>3. n \in Nat /\ len \in Nat /\ i \in 1 .. len /\ i + n <= len + 1
        BY <3>0, <3>1, <3>2, <1>1
      <3> HIDE DEF n, len
      <3>4. \A k \in 1 .. n : i + k - 1 \in 1 .. len
        BY <3>3
      <3>5. \A k \in 1 .. n : call.batches[k] = deferred'[i + k - 1]
        BY <3>2, <3>4, <1>2 DEF n, len
      <3>6. call.next # None => i + n <= len /\ i + n \in 1 .. len /\ call.next = deferred'[i + n]
        BY <3>2, <3>3, <1>2 DEF n, len
      <3>7. call.next = None /\ call.state.epoch = epoch' => i + n = Len(deferred') + 1
        BY <3>2, <1>4, <1>5 DEF n, len
      <3>8. len <= Len(deferred') /\ Len(deferred') \in Nat
        BY <1>2 DEF len
      <3>9. i + n <= Len(deferred') + 1 /\ (call.next # None => i + n <= Len(deferred'))
        BY <3>3, <3>6, <3>8
      <3> QED BY <3>5, <3>6, <3>7, <3>9 DEF n
    <2> QED BY <1>1, <2>1 DEF WalkInv
  <1>8. ASSUME NEW lo \in Nat, NEW x,
               \E i \in lo + 1 .. Len(deferred) : deferred[i] = x
        PROVE  \E i \in lo + 1 .. Len(deferred') : deferred'[i] = x
    <2>1. PICK i \in lo + 1 .. Len(deferred) : deferred[i] = x
      BY <1>8
    <2>2. i \in lo + 1 .. Len(deferred') /\ deferred'[i] = x
      BY <1>1, <1>2, <2>1
    <2> QED BY <2>2
  <1>9. StageInv(call)'
    <2>1. call.kind = "fund" /\ call.stage \in {"queues", "built"} =>
            \E i \in call.evidence.funded + 1 .. Len(deferred') : deferred'[i] = call.state.head
      <3>1. call.evidence.funded \in Nat
        BY <1>1 DEF CallType
      <3> QED BY <3>1, <1>8 DEF IInv, StageInv
    <2>2. call.stage = "changed" => \/ call.state.epoch # epoch'
                                    \/ \E i \in 1 .. funded' : deferred'[i] = call.state.head
      <3>1. CASE epoch' # epoch
        BY <3>1, <1>5
      <3>2. CASE epoch' = epoch
        <4>1. \A i \in 1 .. funded : i \in 1 .. funded'
          BY <1>1
        <4> QED BY <3>2, <4>1, <1>4 DEF IInv, StageInv
      <3> QED BY <3>1, <3>2
    <2> QED BY <1>1, <1>7, <2>1, <2>2 DEF IInv, StageInv
  <1> QED BY <1>6, <1>9

\* The program keeps its queue when it closes an epoch.
LEMMA CloseEpochKeeps ==
  ASSUME IInv, NEW n \in 0 .. MaxEpoch, NEW defers \in BOOLEAN, CloseEpoch(n, defers)
  PROVE  IInv'
  <1> USE NoneAssumption, BoundAssumption
  <1>1. /\ epoch \in 1 .. MaxEpoch /\ MaxEpoch \in Nat /\ deferred \in Seq(Nat) /\ Len(deferred) \in Nat
        /\ funded \in 0 .. Len(deferred) /\ link \in [Epoch -> Epoch \cup {None}] /\ n \in Nat
    BY DEF IInv, TypeOK, Epoch
  <1>2. /\ epoch < MaxEpoch /\ funded + n <= Len(deferred) /\ funded' = funded + n
        /\ epoch' = epoch + 1 /\ window' = [closedEpoch |-> epoch, funded |-> funded + n]
        /\ deferred' = (IF defers THEN Append(deferred, epoch) ELSE deferred) /\ call' = call
    BY DEF CloseEpoch
  <1>3. PICK l \in Unlinked(n) :
          link' = IF defers /\ Len(deferred) > funded + n
                    THEN [l EXCEPT ![deferred[Len(deferred)]] = epoch] ELSE l
    BY DEF CloseEpoch
  <1>4. /\ l \in [Epoch -> Epoch \cup {None}]
        /\ \A e \in Epoch : l[e] = link[e] \/ l[e] = None
        /\ \A i \in 1 .. Len(deferred) : i > funded + n => l[deferred[i]] = link[deferred[i]]
    BY <1>1, LinksKept
  <1>5. epoch \in Epoch /\ \A i \in 1 .. Len(deferred) : deferred[i] \in 1 .. epoch - 1 /\ deferred[i] \in Epoch
    BY <1>1 DEF IInv, QueueInv, Epoch
  <1>6. link' \in [Epoch -> Epoch \cup {None}]
    BY <1>3, <1>4, <1>5
  <1>7. /\ deferred' \in Seq(Nat) /\ Len(deferred') \in Nat /\ Len(deferred') >= Len(deferred)
        /\ \A i \in 1 .. Len(deferred) : deferred'[i] = deferred[i]
        /\ defers => Len(deferred') = Len(deferred) + 1 /\ deferred'[Len(deferred) + 1] = epoch
        /\ ~defers => deferred' = deferred
    BY <1>1, <1>2
  <1>8. TypeOK'
    <2>1. epoch' \in Epoch /\ funded' \in 0 .. Len(deferred') /\ window' \in [closedEpoch : Nat, funded : Nat]
      BY <1>1, <1>2, <1>7 DEF Epoch
    <2> QED BY <2>1, <1>2, <1>6, <1>7 DEF IInv, TypeOK
  <1>9. QueueInv'
    <2>1. \A i \in 1 .. Len(deferred') : deferred'[i] \in 1 .. epoch' - 1
      BY <1>1, <1>2, <1>5, <1>7
    <2>2. ASSUME NEW i \in 1 .. Len(deferred'), NEW j \in 1 .. Len(deferred'), i < j
          PROVE  deferred'[i] < deferred'[j]
      <3>1. CASE j \in 1 .. Len(deferred)
        <4>1. i \in 1 .. Len(deferred)
          BY <1>1, <2>2, <3>1
        <4>2. deferred[i] < deferred[j]
          BY <4>1, <3>1, <2>2 DEF IInv, QueueInv
        <4> QED BY <4>1, <4>2, <3>1, <1>7
      <3>2. CASE j \notin 1 .. Len(deferred)
        <4>0. defers
          BY <1>7, <2>2, <3>2
        <4>1. defers /\ j = Len(deferred) + 1 /\ i \in 1 .. Len(deferred)
          <5>1. Len(deferred') = Len(deferred) + 1
            BY <4>0, <1>7
          <5> HIDE NoneAssumption, BoundAssumption
          <5> QED BY <4>0, <5>1, <1>1, <2>2, <3>2
        <4> QED BY <4>1, <1>1, <1>5, <1>7
      <3> QED BY <3>1, <3>2
    <2>3. ASSUME NEW i \in funded' + 1 .. Len(deferred')
          PROVE  link'[deferred'[i]] = IF i = Len(deferred') THEN None ELSE deferred'[i + 1]
      <3>1. CASE i \in 1 .. Len(deferred)
        <4>1. i > funded + n /\ i \in funded + 1 .. Len(deferred)
          BY <1>1, <1>2, <2>3, <3>1
        <4>2. l[deferred[i]] = IF i = Len(deferred) THEN None ELSE deferred[i + 1]
          BY <4>1, <1>4, <3>1 DEF IInv, QueueInv
        <4>3. CASE ~defers
          <5>1. link' = l /\ deferred' = deferred
            BY <4>3, <1>3, <1>7
          <5> QED BY <5>1, <4>2
        <4>4. CASE defers /\ i = Len(deferred)
          <5>1. link' = [l EXCEPT ![deferred[Len(deferred)]] = epoch]
            BY <4>4, <4>1, <1>3
          <5>2. link'[deferred[i]] = epoch
            BY <5>1, <4>4, <1>4, <1>5, <3>1
          <5> QED BY <5>2, <4>4, <1>1, <1>7, <3>1
        <4>5. CASE defers /\ i # Len(deferred)
          <5>1. deferred[i] < deferred[Len(deferred)]
            BY <4>5, <3>1, <1>1 DEF IInv, QueueInv
          <5>2. deferred[i] # deferred[Len(deferred)]
            <6>1. Len(deferred) \in 1 .. Len(deferred)
              BY <1>1, <3>1
            <6> QED BY <5>1, <6>1, <1>5, <3>1
          <5>3. link'[deferred[i]] = l[deferred[i]]
            BY <5>2, <1>3, <1>4, <1>5, <3>1
          <5>4. i + 1 \in 1 .. Len(deferred) /\ i # Len(deferred')
            BY <4>5, <3>1, <1>1, <1>7
          <5> QED BY <5>3, <5>4, <4>2, <4>5, <1>7, <3>1
        <4> QED BY <4>3, <4>4, <4>5
      <3>2. CASE i \notin 1 .. Len(deferred)
        <4>1. defers /\ i = Len(deferred) + 1 /\ i = Len(deferred') /\ deferred'[i] = epoch
          BY <1>1, <1>2, <1>7, <2>3, <3>2
        <4>2. link'[epoch] = l[epoch]
          <5>1. Len(deferred) > funded + n => deferred[Len(deferred)] # epoch
            <6>1. Len(deferred) > funded + n => Len(deferred) \in 1 .. Len(deferred)
              BY <1>1
            <6> QED BY <6>1, <1>1, <1>5
          <5> QED BY <5>1, <1>3, <1>4, <1>5
        <4>3. l[epoch] = None
          BY <1>1, <1>4, <1>5 DEF IInv, QueueInv
        <4> QED BY <4>1, <4>2, <4>3
      <3> QED BY <3>1, <3>2
    <2>5. ASSUME NEW e \in Epoch, e >= epoch' PROVE link'[e] = None
      <3>1. l[e] = None
        BY <1>1, <1>2, <1>4, <2>5 DEF IInv, QueueInv, Epoch
      <3>2. Len(deferred) > funded + n => deferred[Len(deferred)] # e
        <4>1. Len(deferred) > funded + n => Len(deferred) \in 1 .. Len(deferred)
          BY <1>1
        <4> QED BY SMTT(30), <4>1, <1>1, <1>2, <1>5, <2>5
      <3> QED BY <3>1, <3>2, <1>3, <1>4
    <2>4. window'.closedEpoch + 1 = epoch' /\ window'.funded <= funded'
      BY <1>1, <1>2
    <2> QED BY <2>1, <2>2, <2>3, <2>4, <2>5 DEF QueueInv
  <1>10. SnapshotInv(call)' /\ StageInv(call)'
    <2>1. funded' >= funded /\ (deferred' = deferred \/ deferred' = Append(deferred, epoch))
      BY <1>1, <1>2
    <2> QED BY <1>2, <1>8, <2>1, CallUntouched
  <1> QED BY <1>8, <1>9, <1>10 DEF IInv

\* The program keeps its queue when it funds the oldest batch.
LEMMA FundHeadKeeps ==
  ASSUME IInv, FundHead
  PROVE  IInv'
  <1> USE NoneAssumption, BoundAssumption
  <1>1. /\ deferred \in Seq(Nat) /\ Len(deferred) \in Nat /\ funded \in 0 .. Len(deferred)
        /\ window.funded \in Nat /\ epoch \in Nat
    BY DEF IInv, TypeOK, Epoch
  <1>2. /\ funded < Len(deferred) /\ funded' = funded + 1 /\ link' \in Unlinked(1)
        /\ epoch' = epoch /\ deferred' = deferred /\ window' = window /\ call' = call
    BY DEF FundHead
  <1>3. /\ link' \in [Epoch -> Epoch \cup {None}]
        /\ \A e \in Epoch : link'[e] = link[e] \/ link'[e] = None
        /\ \A i \in 1 .. Len(deferred) : i > funded + 1 => link'[deferred[i]] = link[deferred[i]]
    BY <1>2, LinksKept
  <1>4. TypeOK'
    BY <1>1, <1>2, <1>3 DEF IInv, TypeOK
  <1>5. QueueInv'
    <2>1. ASSUME NEW i \in funded' + 1 .. Len(deferred')
          PROVE  link'[deferred'[i]] = IF i = Len(deferred') THEN None ELSE deferred'[i + 1]
      <3>1. i \in funded + 1 .. Len(deferred) /\ i \in 1 .. Len(deferred) /\ i > funded + 1
        BY <1>1, <1>2
      <3> QED BY <3>1, <1>2, <1>3 DEF IInv, QueueInv
    <2>2. \A e \in Epoch : e >= epoch' => link'[e] = None
      BY <1>2, <1>3 DEF IInv, QueueInv
    <2>3. window'.funded <= funded'
      BY <1>1, <1>2 DEF IInv, QueueInv
    <2> QED BY <1>2, <2>1, <2>2, <2>3 DEF IInv, QueueInv
  <1>6. SnapshotInv(call)' /\ StageInv(call)'
    <2>1. funded' >= funded
      BY <1>1, <1>2
    <2> QED BY <1>2, <1>4, <2>1, CallUntouched
  <1> QED BY <1>4, <1>5, <1>6 DEF IInv

\* A step of the client that leaves the vault alone, and the account it read.
LEMMA ClientKeeps ==
  ASSUME IInv, UNCHANGED chain, call' \in CallType, call'.state = call.state, StageInv(call)'
  PROVE  IInv'
  <1>1. epoch' = epoch /\ deferred' = deferred /\ funded' = funded /\ link' = link /\ window' = window
    BY DEF chain
  <1>2. TypeOK'
    BY <1>1 DEF IInv, TypeOK, CallType
  <1>3. QueueInv'
    BY <1>1 DEF IInv, QueueInv
  <1>4. SnapshotInv(call)'
    BY <1>1 DEF IInv, SnapshotInv
  <1> QED BY <1>2, <1>3, <1>4 DEF IInv

\* The caller reads the vault account.
LEMMA FetchKeeps ==
  ASSUME IInv, Fetch
  PROVE  IInv'
  <1> USE NoneAssumption, BoundAssumption
  <1>1. /\ epoch \in Nat /\ epoch >= 1 /\ deferred \in Seq(Nat) /\ Len(deferred) \in Nat
        /\ funded \in 0 .. Len(deferred) /\ window \in [closedEpoch : Nat, funded : Nat]
        /\ window.funded \in Nat /\ window.funded <= funded
    BY DEF IInv, TypeOK, Epoch, QueueInv
  <1>2. epoch' = epoch /\ deferred' = deferred /\ funded' = funded /\ link' = link /\ window' = window
    BY DEF Fetch, chain
  <1>3. Vault \in [epoch : Nat, head : Nat \cup {None}, tail : Nat \cup {None}]
    BY <1>1 DEF Vault, HeadEpoch, TailEpoch
  <1>4. /\ call' \in CallType /\ call'.stage = "fetched" /\ call'.kind = "close" /\ call'.state = Vault
        /\ call'.batches = << >> /\ call'.seen = {}
    <2>1. call' = [stage |-> "fetched", kind |-> "close", state |-> Vault, max |-> 1,
                   next |-> None, seen |-> {}, batches |-> << >>, evidence |-> window]
      BY DEF Fetch, NewCall
    <2>2. 1 \in 1 .. MaxEquityBatches /\ << >> \in Seq(Nat) /\ "fetched" \in Stage
      BY DEF Stage
    <2>3. call' \in CallType
      BY <2>1, <2>2, <1>1, <1>3 DEF CallType
    <2> QED BY <2>1, <2>3
  <1>5. TypeOK'
    BY <1>2, <1>4 DEF IInv, TypeOK, CallType
  <1>6. QueueInv'
    BY <1>2 DEF IInv, QueueInv
  <1>7. SnapshotInv(call)'
    <2>1. CASE funded < Len(deferred)
      <3>1. funded + 1 \in 1 .. Len(deferred) /\ Len(deferred) \in 1 .. Len(deferred)
        BY <2>1, <1>1
      <3>2. Vault.head = deferred[funded + 1] /\ Vault.tail = deferred[Len(deferred)] /\ Vault.epoch = epoch
        BY <2>1 DEF Vault, HeadEpoch, TailEpoch
      <3>3. Vault.head # None
        BY <3>1, <3>2, <1>1
      <3>4. ASSUME NEW i \in 1 .. Len(deferred), deferred[i] = Vault.head
            PROVE  window.funded < i
        <4>1. ~(i < funded + 1)
          <5>1. i < funded + 1 => deferred[i] < deferred[funded + 1]
            BY <3>1 DEF IInv, QueueInv
          <5>2. deferred[i] \in Nat
            BY <1>1
          <5> QED BY <5>1, <5>2, <3>2, <3>4
        <4> QED BY <4>1, <1>1
      <3> QED BY <3>1, <3>2, <3>3, <3>4, <1>1, <1>2, <1>4 DEF SnapshotInv
    <2>2. CASE ~(funded < Len(deferred))
      <3>1. Vault.head = None /\ Vault.tail = None /\ Vault.epoch = epoch /\ funded = Len(deferred)
        BY <2>2, <1>1 DEF Vault, HeadEpoch, TailEpoch
      <3> QED BY <3>1, <1>1, <1>2, <1>4 DEF SnapshotInv
    <2> QED BY <2>1, <2>2
  <1>8. StageInv(call)'
    BY <1>4 DEF StageInv
  <1> QED BY <1>5, <1>6, <1>7, <1>8 DEF IInv

\* The head of the loop, on a call whose walk has come to c.
LEMMA AdvanceIsStage ==
  ASSUME IInv, UNCHANGED chain, NEW c \in CallType, c.kind = "close", WalkInv(c),
         c.next # None => \A s \in c.seen : s < c.next,
         c.state = call.state, call' = Advance(c)
  PROVE  IInv'
  <1> USE NoneAssumption, BoundAssumption
  <1>1. epoch' = epoch /\ deferred' = deferred /\ funded' = funded /\ link' = link /\ window' = window
    BY DEF chain
  <1>2. /\ call' \in CallType
        /\ call'.kind = "close" /\ call'.state = call.state /\ call'.max = c.max
        /\ call'.next = c.next /\ call'.batches = c.batches
        /\ \/ /\ c.next = None \/ Len(c.batches) = c.max
              /\ call'.stage = "queues"
           \/ /\ c.next # None /\ Len(c.batches) # c.max
              /\ call'.stage = "read" /\ call'.seen = c.seen \cup {c.next}
    BY AdvanceKeeps
  <1>3. WalkInv(call)'
    BY <1>1, <1>2 DEF WalkInv
  <1>4. c.max \in Nat /\ Len(c.batches) \in Nat /\ Len(c.batches) <= c.max /\ c.seen \in SUBSET Nat
        /\ c.next \in Nat \cup {None}
    BY DEF CallType, WalkInv
  <1>5. call'.stage = "read" => /\ call'.next # None /\ Len(call'.batches) < call'.max
                                /\ \A s \in call'.seen : s <= call'.next
    BY <1>2, <1>4
  <1>6. StageInv(call)'
    BY <1>2, <1>3, <1>5 DEF StageInv
  <1> QED BY <1>2, <1>6, ClientKeeps

\* closeEpoch starts its walk at the head the caller read.
LEMMA StartCloseKeeps ==
  ASSUME IInv, NEW max \in 1 .. MaxEquityBatches, StartClose(max)
  PROVE  IInv'
  <1> USE NoneAssumption, BoundAssumption
  <1> DEFINE c == [call EXCEPT !.max = max, !.next = call.state.head]
  <1>1. call \in CallType /\ call.stage = "fetched" /\ call.kind = "close" /\ call' = Advance(c)
        /\ call.batches = << >> /\ call.seen = {} /\ deferred \in Seq(Nat) /\ Len(deferred) \in Nat
    <2>1. call \in CallType /\ deferred \in Seq(Nat)
      BY DEF IInv, TypeOK, CallType
    <2>2. call.stage = "fetched" /\ call' = Advance(c)
      BY DEF StartClose
    <2>3. call.kind = "close" /\ call.batches = << >> /\ call.seen = {}
      BY <2>2 DEF IInv, StageInv
    <2> QED BY <2>1, <2>2, <2>3
  <1>2. /\ c \in CallType /\ c.kind = "close" /\ c.batches = << >> /\ c.seen = {} /\ c.max = max
        /\ c.state = call.state /\ c.next = call.state.head
    BY <1>1 DEF CallType
  <1> HIDE DEF c
  <1>3. WalkInv(c)
    <2>1. Len(c.batches) = 0 /\ max \in Nat /\ max >= 1
      BY <1>2
    <2>2. ASSUME NEW i \in 1 .. Len(deferred), deferred[i] = c.state.head
          PROVE  /\ i + Len(c.batches) <= Len(deferred) + 1
                 /\ c.next # None /\ i + Len(c.batches) <= Len(deferred)
                 /\ c.next = deferred[i + Len(c.batches)]
      BY <1>1, <1>2, <2>1, <2>2
    <2>3. \A k \in 1 .. Len(c.batches) : FALSE
      BY <2>1
    <2> QED BY <1>2, <2>1, <2>2, <2>3 DEF WalkInv
  <1> QED BY <1>1, <1>2, <1>3, AdvanceIsStage DEF StartClose

\* Two places of the queue that hold the same epoch are one place.
LEMMA OnePlace ==
  ASSUME IInv, NEW i \in 1 .. Len(deferred), NEW j \in 1 .. Len(deferred), deferred[i] = deferred[j]
  PROVE  i = j
  <1>1. deferred \in Seq(Nat)
    BY DEF IInv, TypeOK
  <1>2. Len(deferred) \in Nat /\ deferred[i] \in Nat /\ deferred[j] \in Nat
    BY <1>1
  <1>3. (i < j => deferred[i] < deferred[j]) /\ (j < i => deferred[j] < deferred[i])
    BY DEF IInv, QueueInv
  <1> QED BY <1>2, <1>3

\* closeEpoch reads one record: a batch that still waits, or the vault has changed.
LEMMA ReadRecordKeeps ==
  ASSUME IInv, ReadRecord
  PROVE  IInv'
  <1> USE NoneAssumption, BoundAssumption
  <1> DEFINE n == Len(call.batches)
             len == Len(deferred)
  <1>1. /\ call \in CallType /\ deferred \in Seq(Nat) /\ len \in Nat /\ n \in Nat
        /\ funded \in 0 .. len /\ link \in [Epoch -> Epoch \cup {None}]
    BY DEF IInv, TypeOK, CallType
  <1>2. /\ call.stage = "read" /\ call.kind = "close" /\ call.next # None /\ n < call.max
        /\ \A s \in call.seen : s <= call.next
    BY DEF ReadRecord, IInv, StageInv
  <1>3. WalkInv(call)
    BY <1>2 DEF IInv, StageInv
  <1>4. PICK i \in 1 .. len : deferred[i] = call.state.head
    BY <1>2, <1>3 DEF WalkInv, IInv, SnapshotInv
  <1>5. /\ i + n <= len /\ call.next = deferred[i + n] /\ i + n \in 1 .. len
        /\ \A k \in 1 .. n : call.batches[k] = deferred[i + k - 1]
    <2>1. /\ i + n <= len /\ call.next = deferred[i + n]
          /\ \A k \in 1 .. n : call.batches[k] = deferred[i + k - 1]
      BY <1>2, <1>3, <1>4 DEF WalkInv
    <2> HIDE DEF n, len
    <2>2. i + n \in 1 .. len
      BY <2>1, <1>1, <1>4
    <2> QED BY <2>1, <2>2
  <1>6. /\ epoch' = epoch /\ deferred' = deferred /\ funded' = funded /\ link' = link /\ window' = window
        /\ UNCHANGED chain
    BY DEF ReadRecord, chain
  <1>7. CASE IsDeferred(call.next)
    <2> DEFINE c == [call EXCEPT !.batches = Append(@, call.next), !.next = link[call.next]]
    <2>1. call' = Advance(c)
      BY <1>7 DEF ReadRecord
    <2>2. i + n \in funded + 1 .. len
      <3>1. PICK j \in funded + 1 .. len : deferred[j] = call.next
        BY <1>7 DEF IsDeferred
      <3>2. j \in 1 .. len
        BY <3>1, <1>1
      <3>3. j = i + n
        BY <3>1, <3>2, <1>5, OnePlace
      <3> QED BY <3>1, <3>3
    <2>3. link[call.next] = IF i + n = len THEN None ELSE deferred[i + n + 1]
      BY <2>2, <1>5 DEF IInv, QueueInv
    <2>4. call.next \in Nat /\ link[call.next] \in Nat \cup {None}
      <3>1. i + n # len => i + n + 1 \in 1 .. len
        BY <1>1, <1>5, <1>4
      <3>2. i + n # len => deferred[i + n + 1] \in Nat
        BY SMTT(30), <3>1, <1>1
      <3>3. call.next \in Nat
        BY <1>1, <1>5
      <3> QED BY <3>2, <3>3, <2>3
    <2>5. /\ c.batches = Append(call.batches, call.next) /\ c.next = link[call.next] /\ c.state = call.state
          /\ c.kind = "close" /\ c.seen = call.seen /\ c.max = call.max
      BY <1>1, <1>2 DEF CallType
    <2>6. Append(call.batches, call.next) \in Seq(Nat)
      BY <1>1, <2>4 DEF CallType
    <2> DEFINE bs == Append(call.batches, call.next)
               nx == link[call.next]
    <2>7. c = [call EXCEPT !.batches = bs, !.next = nx]
      BY <1>1 DEF CallType
    <2>8. bs \in Seq(Nat) /\ nx \in Nat \cup {None}
      BY <2>4, <2>6
    <2> HIDE DEF bs, nx, c
    <2>9. c \in CallType
      BY <2>7, <2>8, <1>1 DEF CallType
    <2>10. /\ Len(c.batches) = n + 1 /\ c.batches[n + 1] = call.next
           /\ \A k \in 1 .. n : c.batches[k] = call.batches[k]
      BY <2>5, <2>4, <1>1 DEF CallType
    <2> HIDE DEF n, len
    <2>11. WalkInv(c)
      <3>1. c.state.head # None
        BY <2>5, <1>1, <1>4 DEF len
      <3>2. Len(c.batches) <= c.max
        <4>1. call.max \in Nat
          BY <1>1 DEF CallType
        <4> QED BY <4>1, <2>5, <2>10, <1>1, <1>2
      <3>3. ASSUME NEW j \in 1 .. len, deferred[j] = c.state.head
            PROVE  /\ j + Len(c.batches) <= len + 1
                   /\ \A k \in 1 .. Len(c.batches) : c.batches[k] = deferred[j + k - 1]
                   /\ c.next # None => /\ j + Len(c.batches) <= len
                                       /\ c.next = deferred[j + Len(c.batches)]
                   /\ c.next = None => j + Len(c.batches) = len + 1
        <4>1. j = i
          BY <3>3, <1>4, <2>5, OnePlace DEF len
        <4>2. j + Len(c.batches) = i + n + 1 /\ i + n <= len /\ i \in Nat
          BY <4>1, <2>10, <1>1, <1>4, <1>5
        <4>3. ASSUME NEW k \in 1 .. Len(c.batches)
              PROVE  c.batches[k] = deferred[j + k - 1]
          <5>1. CASE k = n + 1
            <6>1. i + k - 1 = i + n
              BY <5>1, <4>2, <1>1
            <6> QED BY <5>1, <6>1, <4>1, <2>10, <1>5
          <5>2. CASE k # n + 1
            <6>1. k \in 1 .. n
              BY <5>2, <2>10, <1>1
            <6> QED BY <6>1, <4>1, <2>10, <1>5
          <5> QED BY <5>1, <5>2
        <4>4. CASE i + n = len
          <5>1. c.next = None
            BY <4>4, <2>3, <2>5
          <5> QED BY <5>1, <4>4, <4>2, <4>3, <1>1
        <4>5. CASE i + n # len
          <5>1. c.next = deferred[i + n + 1] /\ i + n + 1 \in 1 .. len
            BY <4>5, <2>3, <2>5, <1>1, <1>5
          <5>2. deferred[i + n + 1] # None
            BY <5>1, <1>1 DEF len
          <5>3. j + Len(c.batches) <= len /\ j + Len(c.batches) <= len + 1
            BY <4>2, <5>1, <1>1
          <5> QED BY <5>1, <5>2, <5>3, <4>2, <4>3
        <4> QED BY <4>4, <4>5
      <3> QED BY <3>1, <3>2, <3>3 DEF WalkInv, len
    <2>12. c.next # None => \A s \in c.seen : s < c.next
      <3> SUFFICES ASSUME c.next # None, NEW s \in c.seen PROVE s < c.next
        OBVIOUS
      <3>1. i + n # len
        BY <2>3, <2>5
      <3>2. c.next = deferred[i + n + 1] /\ i + n + 1 \in 1 .. len
        BY <3>1, <2>3, <2>5, <1>1, <1>5
      <3>3. i + n < i + n + 1
        BY <1>1, <1>5
      <3>4. deferred[i + n] < deferred[i + n + 1]
        BY <3>2, <3>3, <1>5 DEF IInv, QueueInv, len
      <3>5. deferred[i + n] \in Nat /\ deferred[i + n + 1] \in Nat
        BY <3>2, <1>1, <1>5 DEF len
      <3>6. s \in Nat /\ s <= call.next
        BY <1>1, <1>2, <2>5 DEF CallType
      <3> QED BY <3>2, <3>4, <3>5, <3>6, <1>5
    <2> QED BY <2>1, <2>5, <2>9, <2>11, <2>12, <1>6, AdvanceIsStage
  <1>8. CASE ~IsDeferred(call.next)
    <2>1. call' = [call EXCEPT !.stage = "changed"]
      BY <1>8 DEF ReadRecord
    <2>2. /\ call' \in CallType /\ call'.stage = "changed" /\ call'.kind = "close"
          /\ call'.state = call.state /\ call'.batches = call.batches /\ call'.next = call.next
          /\ call'.max = call.max
      BY <2>1, <1>1, <1>2 DEF CallType, Stage
    <2>3. i \in 1 .. funded
      <3>1. ~(i + n \in funded + 1 .. len)
        BY <1>5, <1>8 DEF IsDeferred
      <3> HIDE DEF n, len
      <3> QED BY <3>1, <1>1, <1>4, <1>5
    <2>4. WalkInv(call)'
      BY SMTT(30), <1>3, <1>6, <2>2 DEF WalkInv
    <2>5. StageInv(call)'
      BY <2>2, <2>3, <2>4, <1>4, <1>6 DEF StageInv
    <2> QED BY <2>2, <2>5, <1>6, ClientKeeps
  <1> QED BY <1>7, <1>8

\* fundHeadIfOpen reads the window of the latest close, which the head outlived.
LEMMA ReadWindowKeeps ==
  ASSUME IInv, ReadWindow
  PROVE  IInv'
  <1> USE NoneAssumption, BoundAssumption
  <1>1. call \in CallType /\ window \in [closedEpoch : Nat, funded : Nat]
    BY DEF IInv, TypeOK, CallType
  <1>2. call.stage = "window" /\ call.kind = "fund" /\ call.batches = << >> /\ call.seen = {}
    BY DEF ReadWindow, IInv, StageInv
  <1>3. /\ epoch' = epoch /\ deferred' = deferred /\ funded' = funded /\ link' = link /\ window' = window
        /\ UNCHANGED chain
    BY DEF ReadWindow, chain
  <1>4. window.closedEpoch + 1 = epoch /\ epoch \in Nat
    BY DEF IInv, QueueInv, TypeOK, Epoch
  <1>5. CASE call' = [call EXCEPT !.stage = "changed"] /\ window.closedEpoch + 1 # call.state.epoch
    <2>1. /\ call' \in CallType /\ call'.stage = "changed" /\ call'.kind = "fund"
          /\ call'.state = call.state /\ call'.batches = << >> /\ call'.seen = {}
      BY <1>1, <1>2, <1>5 DEF CallType, Stage
    <2>2. StageInv(call)'
      BY <1>3, <1>4, <1>5, <2>1 DEF StageInv
    <2> QED BY <2>1, <2>2, <1>3, ClientKeeps
  <1>6. CASE call' = [call EXCEPT !.stage = "closed"]
    <2>1. /\ call' \in CallType /\ call'.stage = "closed" /\ call'.kind = "fund"
          /\ call'.state = call.state /\ call'.batches = << >> /\ call'.seen = {}
      BY <1>1, <1>2, <1>6 DEF CallType, Stage
    <2>2. StageInv(call)'
      BY <2>1 DEF StageInv
    <2> QED BY <2>1, <2>2, <1>3, ClientKeeps
  <1>7. CASE /\ window.closedEpoch + 1 = call.state.epoch /\ call.state.head # None
             /\ call' = [call EXCEPT !.stage = "queues", !.evidence = window]
    <2>1. /\ call' \in CallType /\ call'.stage = "queues" /\ call'.kind = "fund"
          /\ call'.state = call.state /\ call'.batches = << >> /\ call'.seen = {}
          /\ call'.evidence = window
      BY <1>1, <1>2, <1>7 DEF CallType, Stage
    <2>2. PICK i \in 1 .. Len(deferred) : deferred[i] = call.state.head
      BY <1>7 DEF IInv, SnapshotInv
    <2>3. window.funded < i
      BY <1>4, <1>7, <2>2 DEF IInv, SnapshotInv
    <2>4. i \in window.funded + 1 .. Len(deferred)
      BY <1>1, <2>3
    <2>5. StageInv(call)'
      BY <1>3, <2>1, <2>2, <2>4 DEF StageInv
    <2> QED BY <2>1, <2>5, <1>3, ClientKeeps
  <1> QED BY <1>5, <1>6, <1>7, <1>2 DEF ReadWindow

\* The other steps of the client.
LEMMA OtherKeeps ==
  ASSUME IInv, StartFund \/ Build \/ RpcFails
  PROVE  IInv'
  <1> USE NoneAssumption, BoundAssumption
  <1>1. call \in CallType /\ StageInv(call)
    BY DEF IInv, TypeOK, CallType
  <1>2. /\ epoch' = epoch /\ deferred' = deferred /\ funded' = funded /\ link' = link /\ window' = window
        /\ UNCHANGED chain
    BY DEF StartFund, Build, RpcFails, chain
  <1>3. CASE StartFund
    <2>1. /\ call.stage = "fetched" /\ call.batches = << >> /\ call.seen = {}
          /\ call' = [call EXCEPT !.kind = "fund", !.stage = "window"]
      BY <1>1, <1>3 DEF StartFund, StageInv
    <2>2. /\ call' \in CallType /\ call'.stage = "window" /\ call'.kind = "fund"
          /\ call'.state = call.state /\ call'.batches = << >> /\ call'.seen = {}
      BY <1>1, <2>1 DEF CallType, Stage
    <2>3. StageInv(call)'
      BY <2>2 DEF StageInv
    <2> QED BY <2>2, <2>3, <1>2, ClientKeeps
  <1>4. CASE Build
    <2>1. call.stage = "queues" /\ call' = [call EXCEPT !.stage = "built"]
      BY <1>4 DEF Build
    <2>2. /\ call' \in CallType /\ call'.stage = "built" /\ call'.kind = call.kind
          /\ call'.state = call.state /\ call'.batches = call.batches /\ call'.seen = call.seen
          /\ call'.next = call.next /\ call'.max = call.max /\ call'.evidence = call.evidence
      BY <1>1, <2>1 DEF CallType, Stage
    <2>3. WalkInv(call) => WalkInv(call)'
      BY <1>2, <2>2 DEF WalkInv
    <2>4. StageInv(call)'
      BY <1>1, <1>2, <2>1, <2>2, <2>3 DEF StageInv
    <2> QED BY <2>2, <2>4, <1>2, ClientKeeps
  <1>5. CASE RpcFails
    <2>1. call.stage \in {"read", "window", "queues"} /\ call' = [call EXCEPT !.stage = "failed"]
      BY <1>5 DEF RpcFails
    <2>2. /\ call' \in CallType /\ call'.stage = "failed" /\ call'.kind = call.kind
          /\ call'.state = call.state /\ call'.batches = call.batches /\ call'.seen = call.seen
          /\ call'.next = call.next /\ call'.max = call.max /\ call'.evidence = call.evidence
      BY <1>1, <2>1 DEF CallType, Stage
    <2>3. WalkInv(call) => WalkInv(call)'
      BY <1>2, <2>2 DEF WalkInv
    <2>4. StageInv(call)'
      BY <1>1, <1>2, <2>1, <2>2, <2>3 DEF StageInv
    <2> QED BY <2>2, <2>4, <1>2, ClientKeeps
  <1> QED BY <1>3, <1>4, <1>5

\* The initial state: no batch was deferred, and no call has begun.
LEMMA InitIsGood == Init => IInv
  <1> USE NoneAssumption, BoundAssumption
  <1> SUFFICES ASSUME Init PROVE IInv
    OBVIOUS
  <1>1. /\ epoch = 1 /\ deferred = << >> /\ funded = 0 /\ Len(deferred) = 0
        /\ link = [e \in Epoch |-> None] /\ window = [closedEpoch |-> 0, funded |-> 0]
    BY DEF Init
  <1>2. Vault = [epoch |-> 1, head |-> None, tail |-> None]
    BY <1>1 DEF Vault, HeadEpoch, TailEpoch
  <1>3. call = [stage |-> "idle", kind |-> "close", state |-> Vault, max |-> 1,
                next |-> None, seen |-> {}, batches |-> << >>, evidence |-> window]
    BY DEF Init, NewCall
  <1>4. 1 \in 1 .. MaxEquityBatches /\ << >> \in Seq(Nat) /\ "idle" \in Stage /\ 1 \in Epoch
    BY DEF Stage, Epoch
  <1>5. TypeOK
    BY <1>1, <1>2, <1>3, <1>4 DEF TypeOK
  <1>6. QueueInv
    BY <1>1, <1>4 DEF QueueInv
  <1>7. SnapshotInv(call)
    BY <1>1, <1>2, <1>3 DEF SnapshotInv
  <1>8. StageInv(call)
    BY <1>3 DEF StageInv
  <1> QED BY <1>5, <1>6, <1>7, <1>8 DEF IInv

\* Whatever the vault program and the other keepers do between two reads of the client,
\* the invariant holds.
THEOREM Invariance == Spec => []IInv
  <1>1. IInv /\ [Next]_vars => IInv'
    <2> SUFFICES ASSUME IInv, [Next]_vars PROVE IInv'
      OBVIOUS
    <2>1. CASE UNCHANGED vars
      <3>1. /\ epoch' = epoch /\ deferred' = deferred /\ funded' = funded /\ link' = link
            /\ window' = window /\ call' = call
        BY <2>1 DEF vars
      <3>2. TypeOK' /\ QueueInv' /\ SnapshotInv(call)'
        BY <3>1 DEF IInv, TypeOK, QueueInv, SnapshotInv
      <3>3. WalkInv(call) => WalkInv(call)'
        BY <3>1 DEF WalkInv
      <3>4. StageInv(call)'
        BY <3>1, <3>3 DEF IInv, StageInv
      <3> QED BY <3>2, <3>4 DEF IInv
    <2>2. CASE \E n \in 0 .. MaxEpoch, defers \in BOOLEAN : CloseEpoch(n, defers)
      BY <2>2, CloseEpochKeeps
    <2>3. CASE \E max \in 1 .. MaxEquityBatches : StartClose(max)
      BY <2>3, StartCloseKeeps
    <2> QED BY <2>1, <2>2, <2>3, FundHeadKeeps, FetchKeeps, ReadRecordKeeps, ReadWindowKeeps, OtherKeeps
         DEF Next
  <1> QED BY InitIsGood, <1>1, PTL DEF Spec

\* Type correctness of the vault and of the call.
THEOREM TypeCorrect == Spec => []TypeOK
  <1>1. IInv => TypeOK
    BY DEF IInv
  <1> QED BY Invariance, <1>1, PTL

\* What closeEpoch has collected is a gapless run of the order of deferral.
THEOREM GaplessWalk == Spec => []WalkIsFifo
  <1>1. IInv => WalkIsFifo
    <2> SUFFICES ASSUME IInv, call.batches # << >> PROVE WalkIsFifo
      BY DEF WalkIsFifo
    <2>1. WalkInv(call)
      BY DEF IInv, TypeOK, StageInv
    <2>2. PICK i \in 1 .. Len(deferred) : deferred[i] = call.state.head
      BY <2>1 DEF WalkInv, IInv, SnapshotInv
    <2> QED BY <2>1, <2>2 DEF WalkInv, WalkIsFifo
  <1> QED BY Invariance, <1>1, PTL

\* A close whose epoch and head are still those of the vault carries exactly the batches,
\* and the tail, the program asks for.
THEOREM FreshIsExact == Spec => []ExactWhenFresh
  <1>1. IInv => ExactWhenFresh
    <2> USE NoneAssumption
    <2> DEFINE n == Len(call.batches)
               len == Len(deferred)
    <2> SUFFICES ASSUME IInv, call.stage = "built", call.kind = "close",
                        call.state.epoch = epoch, call.state.head = HeadEpoch
                 PROVE  /\ call.state.tail = TailEpoch
                        /\ n = (IF call.max < len - funded THEN call.max ELSE len - funded)
                        /\ \A k \in 1 .. n : call.batches[k] = deferred[funded + k]
      BY DEF ExactWhenFresh
    <2>1. /\ deferred \in Seq(Nat) /\ len \in Nat /\ funded \in 0 .. len /\ n \in Nat
          /\ call.max \in Nat /\ call.max >= 1
      <3>1. deferred \in Seq(Nat) /\ funded \in 0 .. Len(deferred) /\ call.batches \in Seq(Nat)
            /\ call.max \in 1 .. MaxEquityBatches
        BY DEF IInv, TypeOK
      <3> QED BY <3>1, BoundAssumption
    <2>2. WalkInv(call) /\ (call.next = None \/ n = call.max)
      BY DEF IInv, StageInv
    <2>3. CASE funded < len
      <3>1. funded + 1 \in 1 .. len /\ deferred[funded + 1] = call.state.head /\ call.state.head # None
        <4>1. funded + 1 \in 1 .. len
          BY <2>1, <2>3
        <4>2. deferred[funded + 1] = call.state.head
          BY <2>3 DEF HeadEpoch
        <4> QED BY <4>1, <4>2, <2>1
      <3>2. call.state.tail = TailEpoch
        BY <3>1, <2>3 DEF IInv, SnapshotInv, TailEpoch
      <3>3. /\ funded + 1 + n <= len + 1
            /\ \A k \in 1 .. n : call.batches[k] = deferred[funded + 1 + k - 1]
            /\ call.next = None => funded + 1 + n = len + 1
            /\ n <= call.max
        BY <2>2, <3>1 DEF WalkInv
      <3> HIDE DEF n, len
      <3>4. \A k \in 1 .. n : funded + 1 + k - 1 = funded + k
        BY <2>1
      <3>5. n = (IF call.max < len - funded THEN call.max ELSE len - funded)
        BY <2>1, <2>2, <3>3
      <3> QED BY <3>2, <3>3, <3>4, <3>5
    <2>4. CASE ~(funded < len)
      <3>1. call.state.head = None /\ TailEpoch = None /\ len = funded
        BY <2>1, <2>4 DEF HeadEpoch, TailEpoch
      <3>2. call.state.tail = None /\ call.batches = << >>
        BY <3>1, <2>2 DEF IInv, SnapshotInv, WalkInv
      <3>3. n = 0
        BY <3>2
      <3> HIDE DEF n, len
      <3> QED BY <2>1, <3>1, <3>2, <3>3
    <2> QED BY <2>3, <2>4
  <1> QED BY Invariance, <1>1, PTL

\* A call that throws "changed" does so because the vault has changed, and no walk ever
\* meets a cycle.
THEOREM TrueRefusal == Spec => []RefusalIsTrue
  <1>1. IInv => RefusalIsTrue
    <2> USE NoneAssumption
    <2>0. IInv => call.stage # "cycle"
      BY DEF IInv, StageInv
    <2> SUFFICES ASSUME IInv, call.stage = "changed", call.state.epoch = epoch
                 PROVE  call.state.head # HeadEpoch
      BY <2>0 DEF RefusalIsTrue
    <2>1. deferred \in Seq(Nat) /\ Len(deferred) \in Nat /\ funded \in 0 .. Len(deferred)
      BY DEF IInv, TypeOK
    <2>2. PICK i \in 1 .. funded : deferred[i] = call.state.head
      BY DEF IInv, StageInv
    <2>3. i \in 1 .. Len(deferred) /\ i < funded + 1
      BY <2>1, <2>2
    <2>4. CASE funded < Len(deferred)
      <3>1. funded + 1 \in 1 .. Len(deferred) /\ HeadEpoch = deferred[funded + 1]
        BY <2>1, <2>4 DEF HeadEpoch
      <3>2. i # funded + 1
        BY <2>1, <2>3
      <3> QED BY <3>1, <3>2, <2>2, <2>3, OnePlace
    <2>5. CASE ~(funded < Len(deferred))
      <3>1. HeadEpoch = None
        BY <2>5 DEF HeadEpoch
      <3> QED BY <3>1, <2>1, <2>2, <2>3
    <2> QED BY <2>4, <2>5
  <1> QED BY Invariance, <1>1, PTL

\* The head a funding names was still unfunded when its window opened.
THEOREM OwnWindow == Spec => []WindowIsOfHead
  <1>1. IInv => WindowIsOfHead
    BY DEF IInv, StageInv, WindowIsOfHead
  <1> QED BY Invariance, <1>1, PTL

\* Both of these: what was built is true of the vault that was read.
THEOREM BuiltTruth == Spec => []BuiltIsTrue
BY FreshIsExact, OwnWindow, PTL DEF BuiltIsTrue
=============================================================================
