---------------------------- MODULE DeferredQueue ----------------------------
(***************************************************************************)
(* closeEpoch and fundHeadIfOpen of the vault client (flp/v4.ts, and       *)
(* closeEpoch of flp/index.ts): one instruction is built from several      *)
(* reads of a vault that other keepers fund and close meanwhile.           *)
(*                                                                         *)
(* A call starts from a vault account the caller read at some moment.      *)
(* closeEpoch then walks the queue of deferred withdrawal batches, one     *)
(* record per read; fundHeadIfOpen reads the funding window.  Both finally *)
(* read the event queues.                                                  *)
(***************************************************************************)
EXTENDS Naturals, Sequences

CONSTANTS MaxEpoch,           \* bound on the epochs of a behaviour
          MaxEquityBatches,   \* bound on the maxBatches a caller passes
          None                \* NONE_EPOCH

ASSUME BoundAssumption == MaxEpoch \in Nat \ {0} /\ MaxEquityBatches \in Nat \ {0}
ASSUME NoneAssumption  == None \notin Nat

VARIABLES epoch,     \* the open epoch of the vault
          deferred,  \* every epoch whose withdrawals were ever deferred, in order
          funded,    \* how many of them have been funded: the first ones
          link,      \* nextDeferred of each epoch's record
          window,    \* the funding window of the latest close
          call       \* the client's call

chain == <<epoch, deferred, funded, link, window>>
vars  == <<epoch, deferred, funded, link, window, call>>

(***************************************************************************)
(* The vault program                                                       *)
(***************************************************************************)
Epoch == 1 .. MaxEpoch

\* The deferred batches that wait for funding, oldest first.
Queue == SubSeq(deferred, funded + 1, Len(deferred))
HeadEpoch  == IF funded < Len(deferred) THEN deferred[funded + 1] ELSE None
TailEpoch  == IF funded < Len(deferred) THEN deferred[Len(deferred)] ELSE None
IsDeferred(e) == \E i \in funded + 1 .. Len(deferred) : deferred[i] = e

\* The vault account, in one read.
Vault == [epoch |-> epoch, head |-> HeadEpoch, tail |-> TailEpoch]

\* A record keeps its link when its batch is funded, or loses it.
Unlinked(n) ==
  {[e \in Epoch |-> IF e \in gone THEN None ELSE link[e]] :
     gone \in SUBSET {deferred[i] : i \in funded + 1 .. funded + n}}

\* A close funds the oldest n batches; the withdrawals of the closing epoch are
\* funded with them, or deferred behind the youngest.
CloseEpoch(n, defers) ==
  /\ epoch < MaxEpoch
  /\ funded + n <= Len(deferred)
  /\ funded'   = funded + n
  /\ epoch'    = epoch + 1
  /\ deferred' = IF defers THEN Append(deferred, epoch) ELSE deferred
  /\ window'   = [closedEpoch |-> epoch, funded |-> funded + n]
  /\ \E l \in Unlinked(n) :
       link' = IF defers /\ Len(deferred) > funded + n
                 THEN [l EXCEPT ![deferred[Len(deferred)]] = epoch] ELSE l
  /\ UNCHANGED call

\* fundHead and cureDeferred fund the oldest batch between two closes.
FundHead ==
  /\ funded < Len(deferred)
  /\ funded' = funded + 1
  /\ link' \in Unlinked(1)
  /\ UNCHANGED <<epoch, deferred, window, call>>

(***************************************************************************)
(* The client                                                              *)
(***************************************************************************)
\* Where a call is: "read" awaits the record of call.next, "window" the funding
\* window, "queues" the event queues; then the instruction is built, or the call has
\* thrown: "changed", "cycle", "closed" (no window, or no head), "failed" (RPC).
Stage == {"idle", "fetched", "read", "window", "queues", "built",
          "changed", "cycle", "closed", "failed"}

NewCall == [stage |-> "idle", kind |-> "close", state |-> Vault, max |-> 1,
            next |-> None, seen |-> {}, batches |-> << >>, evidence |-> window]

Init ==
  /\ epoch = 1 /\ deferred = << >> /\ funded = 0
  /\ link   = [e \in Epoch |-> None]
  /\ window = [closedEpoch |-> 0, funded |-> 0]
  /\ call   = NewCall

\* The caller reads the vault; it may keep what it read for as long as it likes.
Fetch ==
  /\ call.stage \in Stage \ {"read", "window", "queues"}
  /\ call' = [NewCall EXCEPT !.stage = "fetched"]
  /\ UNCHANGED chain

\* A mutation: the walk goes one batch too far.
AdvanceFurther(c) ==
  IF c.next = None \/ Len(c.batches) > c.max THEN [c EXCEPT !.stage = "queues"]
  ELSE IF c.next \in c.seen THEN [c EXCEPT !.stage = "cycle"]
  ELSE [c EXCEPT !.stage = "read", !.seen = @ \cup {c.next}]

\* A mutation: the end of the queue is not recognised.
AdvanceEndless(c) ==
  IF Len(c.batches) = c.max THEN [c EXCEPT !.stage = "queues"]
  ELSE IF c.next \in c.seen THEN [c EXCEPT !.stage = "cycle"]
  ELSE [c EXCEPT !.stage = "read", !.seen = @ \cup {c.next}]

\* The head of the loop: done, a cycle, or one more record to read.
Advance(c) ==
  IF c.next = None \/ Len(c.batches) = c.max THEN [c EXCEPT !.stage = "queues"]
  ELSE IF c.next \in c.seen THEN [c EXCEPT !.stage = "cycle"]
  ELSE [c EXCEPT !.stage = "read", !.seen = @ \cup {c.next}]

\* A mutation: the head is read again, the rest of the vault account is not.
StartCloseAfresh(max) ==
  /\ call.stage = "fetched"
  /\ call' = Advance([call EXCEPT !.max = max, !.next = HeadEpoch])
  /\ UNCHANGED chain

StartClose(max) ==
  /\ call.stage = "fetched"
  /\ call' = Advance([call EXCEPT !.max = max, !.next = call.state.head])
  /\ UNCHANGED chain

ReadRecord ==
  /\ call.stage = "read"
  /\ call' = IF IsDeferred(call.next)
               THEN Advance([call EXCEPT !.batches = Append(@, call.next), !.next = link[call.next]])
               ELSE [call EXCEPT !.stage = "changed"]
  /\ UNCHANGED chain

StartFund ==
  /\ call.stage = "fetched"
  /\ call' = [call EXCEPT !.kind = "fund", !.stage = "window"]
  /\ UNCHANGED chain

\* The window must be that of the close before the epoch the vault account names. Whether
\* it is eligible, and open at the time the caller gives, may turn out either way.
ReadWindow ==
  /\ call.stage = "window"
  /\ \E open \in BOOLEAN :
       call' = IF window.closedEpoch + 1 # call.state.epoch THEN [call EXCEPT !.stage = "changed"]
               ELSE IF open /\ call.state.head # None
                 THEN [call EXCEPT !.stage = "queues", !.evidence = window]
                 ELSE [call EXCEPT !.stage = "closed"]
  /\ UNCHANGED chain

Build ==
  /\ call.stage = "queues"
  /\ call' = [call EXCEPT !.stage = "built"]
  /\ UNCHANGED chain

RpcFails ==
  /\ call.stage \in {"read", "window", "queues"}
  /\ call' = [call EXCEPT !.stage = "failed"]
  /\ UNCHANGED chain

Next ==
  \/ \E n \in 0 .. MaxEpoch, defers \in BOOLEAN : CloseEpoch(n, defers)
  \/ FundHead
  \/ Fetch \/ ReadRecord \/ StartFund \/ ReadWindow \/ Build \/ RpcFails
  \/ \E max \in 1 .. MaxEquityBatches : StartClose(max)

Spec == Init /\ [][Next]_vars

(***************************************************************************)
(* Properties                                                              *)
(***************************************************************************)
TypeOK ==
  /\ epoch \in Epoch
  /\ deferred \in Seq(Nat) /\ funded \in 0 .. Len(deferred)
  /\ link \in [Epoch -> Epoch \cup {None}]
  /\ window \in [closedEpoch : Nat, funded : Nat]
  /\ call \in [stage : Stage, kind : {"close", "fund"},
              state : [epoch : Nat, head : Nat \cup {None}, tail : Nat \cup {None}],
              max : 1 .. MaxEquityBatches, next : Nat \cup {None}, seen : SUBSET Nat,
              batches : Seq(Nat), evidence : [closedEpoch : Nat, funded : Nat]]

\* While a close is being walked, and after, what it has collected is a gapless run of
\* the order in which batches were deferred, from the head the caller read, however many
\* of them are funded and how many epochs are closed meanwhile.
WalkIsFifo ==
  call.batches # << >> =>
    \E i \in 1 .. Len(deferred) :
      /\ deferred[i] = call.state.head
      /\ i + Len(call.batches) <= Len(deferred) + 1
      /\ \A k \in 1 .. Len(call.batches) : call.batches[k] = deferred[i + k - 1]

\* The program can only look at the epoch record and at the head.  If these two of a
\* close that has been built are still those of the vault, all of it is: it carries the
\* oldest batches, as many as there are up to the bound, and the tail record.
ExactWhenFresh ==
  (call.stage = "built" /\ call.kind = "close" /\ call.state.epoch = epoch /\ call.state.head = HeadEpoch) =>
    /\ call.state.tail = TailEpoch
    /\ Len(call.batches) = (IF call.max < Len(deferred) - funded THEN call.max ELSE Len(deferred) - funded)
    /\ \A k \in 1 .. Len(call.batches) : call.batches[k] = deferred[funded + k]

\* "Deferred queue changed" and "Funding window changed" are said only when the vault
\* really is another than the one the caller read; a refresh helps.  "Invalid deferred
\* queue cycle" is never said of a vault the program keeps, whatever is funded and
\* deferred during the walk.
RefusalIsTrue ==
  /\ call.stage = "changed" => call.state.head # HeadEpoch \/ call.state.epoch # epoch
  /\ call.stage # "cycle"

\* The window a funding was allowed by opened while the head it names was unfunded.
WindowIsOfHead ==
  (call.stage = "built" /\ call.kind = "fund") =>
    \E i \in call.evidence.funded + 1 .. Len(deferred) : deferred[i] = call.state.head

\* What closeEpoch and fundHeadIfOpen have built, on reads of a vault that moved, is what
\* the program takes if the vault still is the one that was read.
BuiltIsTrue == ExactWhenFresh /\ WindowIsOfHead

(***************************************************************************)
(* The inductive invariant                                                 *)
(***************************************************************************)
\* The vault's queue: epochs in increasing order, linked from the head to the tail.
QueueInv ==
  /\ \A i \in 1 .. Len(deferred) : deferred[i] \in 1 .. epoch - 1
  /\ \A i, j \in 1 .. Len(deferred) : i < j => deferred[i] < deferred[j]
  /\ \A i \in funded + 1 .. Len(deferred) :
       link[deferred[i]] = IF i = Len(deferred) THEN None ELSE deferred[i + 1]
  /\ \A e \in Epoch : e >= epoch => link[e] = None
  /\ window.closedEpoch + 1 = epoch
  /\ window.funded <= funded

\* What the caller read is the vault as it was since the latest close, or older.
SnapshotInv(c) ==
  /\ c.state.epoch \in 1 .. epoch
  /\ c.state.head = None =>
       /\ c.state.tail = None
       /\ c.state.epoch = epoch => funded = Len(deferred)
  /\ c.state.head # None =>
       /\ \E i \in 1 .. Len(deferred) : deferred[i] = c.state.head
       /\ c.state.epoch = epoch =>
            /\ c.state.tail = deferred[Len(deferred)]
            /\ \A i \in 1 .. Len(deferred) : deferred[i] = c.state.head => window.funded < i

\* How far the walk has come, when the head it started from is the i-th batch deferred.
WalkInv(c) ==
  /\ c.state.head = None => c.next = None /\ c.batches = << >>
  /\ Len(c.batches) <= c.max
  /\ \A i \in 1 .. Len(deferred) : deferred[i] = c.state.head =>
       /\ i + Len(c.batches) <= Len(deferred) + 1
       /\ \A k \in 1 .. Len(c.batches) : c.batches[k] = deferred[i + k - 1]
       /\ c.next # None => /\ i + Len(c.batches) <= Len(deferred)
                           /\ c.next = deferred[i + Len(c.batches)]
       /\ c.next = None /\ c.state.epoch = epoch => i + Len(c.batches) = Len(deferred) + 1

\* What each stage adds.
StageInv(c) ==
  /\ c.stage = "idle" \/ c.stage = "fetched" \/ c.kind = "fund" =>
       c.batches = << >> /\ c.seen = {}
  /\ c.kind = "close" /\ c.stage \notin {"idle", "fetched"} => WalkInv(c)
  /\ c.stage = "read" => /\ c.kind = "close" /\ c.next # None
                         /\ Len(c.batches) < c.max
                         /\ \A s \in c.seen : s <= c.next
  /\ c.stage \in {"idle", "fetched"} => c.kind = "close"
  /\ c.stage = "window" => c.kind = "fund"
  /\ c.kind = "close" /\ c.stage \in {"queues", "built"} =>
       c.next = None \/ Len(c.batches) = c.max
  /\ c.kind = "fund" /\ c.stage \in {"queues", "built"} =>
       \E i \in c.evidence.funded + 1 .. Len(deferred) : deferred[i] = c.state.head
  /\ c.stage = "changed" =>
       \/ c.state.epoch # epoch
       \/ \E i \in 1 .. funded : deferred[i] = c.state.head
  /\ c.stage # "cycle"

\* The invariant that is inductive: what the program keeps, what the caller knows of it,
\* and how far its call has come.
IInv == TypeOK /\ QueueInv /\ SnapshotInv(call) /\ StageInv(call)
=============================================================================
