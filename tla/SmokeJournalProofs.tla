-------------------------- MODULE SmokeJournalProofs --------------------------
(***************************************************************************)
(* Proofs about SmokeJournal, for every set of invocations and signatures. *)
(***************************************************************************)
EXTENDS SmokeJournal, SequenceTheorems, TLAPS

\* The two constants that stand for "nothing" are no signatures.
USE DEF Command, Ticket

-----------------------------------------------------------------------------
(***************************************************************************)
(* Records and receipts.                                                   *)
(***************************************************************************)

\* Replacing one record of a receipt keeps its length and its other records.
LEMMA ReplaceRecord ==
  ASSUME NEW recs \in Seq(SmokeRecord), NEW i \in DOMAIN recs, NEW rec \in SmokeRecord
  PROVE  LET new == [recs EXCEPT ![i] = rec] IN
         /\ new \in Seq(SmokeRecord)
         /\ Len(new) = Len(recs)
         /\ DOMAIN new = DOMAIN recs
         /\ new[i] = rec
         /\ \A j \in DOMAIN recs : j # i => new[j] = recs[j]
<1>1. i \in 1 .. Len(recs)
  OBVIOUS
<1> QED
  BY <1>1, ExceptSeq

\* A receipt keeps what it holds.
LEMMA KeepsItself == \A recs \in Seq(SmokeRecord) : Keeps(recs, recs)
  BY DEF Keeps

LEMMA KeepsTransitive ==
  ASSUME NEW a \in Seq(SmokeRecord), NEW b \in Seq(SmokeRecord), NEW c \in Seq(SmokeRecord),
         Keeps(a, b), Keeps(b, c)
  PROVE  Keeps(a, c)
  BY DEF Keeps

\* A submission that an earlier version holds is held by a later one.
LEMMA KeepsHolds ==
  ASSUME NEW a \in Seq(SmokeRecord), NEW b \in Seq(SmokeRecord), Keeps(a, b),
         NEW x \in SmokeAction \X Sigs, Holds(a, x)
  PROVE  Holds(b, x)
  BY SmokeAssumption DEF Keeps, Holds

\* A version that is kept by one with distinct actions has distinct actions.
LEMMA KeepsOnce ==
  ASSUME NEW a \in Seq(SmokeRecord), NEW b \in Seq(SmokeRecord), Keeps(a, b),
         OncePerAction(b)
  PROVE  OncePerAction(a)
  BY DEF Keeps, OncePerAction

-----------------------------------------------------------------------------
(***************************************************************************)
(* What an invocation's step leaves alone.                                 *)
(***************************************************************************)

\* The invariants of the files and of an invocation do not depend on the lock
\* and .tmp.
LEMMA FilesStay ==
  ASSUME FilesInv, SentIsDurable, UNCHANGED <<receipt, onDisk, tx, sent>>
  PROVE  FilesInv' /\ SentIsDurable'
BY DEF FilesInv, SentIsDurable, Truthful, Succeeded, Keeps, OncePerAction, Holds

LEMMA InvocationStays ==
  ASSUME NEW n, MemoryInv(n), SubmitInv(n), UNCHANGED <<receipt, onDisk, tx>>
  PROVE  (MemoryInv(n) /\ SubmitInv(n))'
BY DEF MemoryInv, SubmitInv, HoldsRecords, Reaches, Saving, Truthful, Succeeded, Keeps,
       OncePerAction

\* While r is alive no other invocation is, so a step of r that keeps the lock
\* has to re-establish the invariant for r's new local state only.
LEMMA OnlyOneMoves ==
  ASSUME TypeOK, OneRunner, NEW r \in Runners, Alive(r),
         NEW n \in Runner, run' = [run EXCEPT ![r] = n],
         (MemoryInv(n) /\ SubmitInv(n))'
  PROVE  \A q \in Runners : (MemoryInv(run[q]) /\ SubmitInv(run[q]))'
<1> SUFFICES ASSUME NEW q \in Runners
             PROVE  (MemoryInv(run[q]) /\ SubmitInv(run[q]))'
  OBVIOUS
<1>1. CASE q = r
  BY <1>1 DEF TypeOK
<1>2. CASE q # r
  <2>1. run'[q] = run[q] /\ run[q].stage = "idle"
    BY <1>2 DEF TypeOK, OneRunner, Alive
  <2> QED
    BY <2>1 DEF MemoryInv, SubmitInv, HoldsRecords, Reaches, Saving
<1> QED
  BY <1>1, <1>2

\* A step that changes neither a file nor the chain, but moves r from one point
\* of the program to another, keeps the invariant if it keeps r's part of it.
LEMMA LocalStep ==
  ASSUME IInv, NEW r \in Runners, Alive(r),
         NEW n \in Runner, run' = [run EXCEPT ![r] = n],
         UNCHANGED <<fileVars, chainVars, sent>>,
         MemoryInv(n), SubmitInv(n)
  PROVE  IInv'
<1> USE DEF IInv, fileVars, chainVars
<1>1. TypeOK'
  BY DEF TypeOK
<1>2. OneRunner'
  BY DEF OneRunner, Alive, TypeOK
<1>3. FilesInv' /\ SentIsDurable'
  BY FilesStay
<1>4. (MemoryInv(n) /\ SubmitInv(n))'
  BY InvocationStays
<1> QED
  BY <1>1, <1>2, <1>3, <1>4, OnlyOneMoves

LEMMA ReadReceiptInv ==
  ASSUME IInv, NEW r \in Runners, ReadReceipt(r)
  PROVE  IInv'
<1> DEFINE n == [run[r] EXCEPT !.stage = "preflight", !.recs = receipt]
<1>1. n \in Runner /\ run' = [run EXCEPT ![r] = n] /\ Alive(r)
  BY ZenonT(60) DEF ReadReceipt, IInv, TypeOK, Runner, Stage, Alive
<1>2. MemoryInv(n) /\ SubmitInv(n)
  BY KeepsItself DEF IInv, TypeOK, FilesInv, MemoryInv, SubmitInv, HoldsRecords, Reaches,
     Saving, ReadReceipt, Runner
<1> QED
  BY <1>1, <1>2, LocalStep DEF ReadReceipt

LEMMA PreflightInv ==
  ASSUME IInv, NEW r \in Runners, Preflight(r)
  PROVE  IInv'
<1> DEFINE n == [run[r] EXCEPT !.stage = "reconcile", !.ret = "gate", !.k = 1,
                   !.snapTicket = IF run[r].command = "status" THEN None ELSE ticket,
                   !.snapSettled = IF run[r].command = "status" THEN FALSE ELSE settled]
<1>1. n \in Runner /\ run' = [run EXCEPT ![r] = n] /\ Alive(r)
  BY ZenonT(60) DEF Preflight, IInv, TypeOK, Runner, Stage, Alive
<1>2. MemoryInv(n) /\ SubmitInv(n)
  <2>1. run[r] \in Runner /\ run[r].stage = "preflight" /\ MemoryInv(run[r])
    BY DEF IInv, TypeOK, Preflight
  <2> QED
    BY <2>1 DEF MemoryInv, SubmitInv, HoldsRecords, Reaches, Saving, Runner
<1> QED
  BY <1>1, <1>2, LocalStep DEF Preflight

\* A reconciled record is a record of the same submission, and tells the truth.
LEMMA ReconciledRecord ==
  ASSUME TypeOK, NEW rec \in SmokeRecord, rec.sig # None,
         NEW a \in Answers(rec.sig), NEW found \in BOOLEAN
  PROVE  LET new == Reconciled(rec, a, found) IN
         /\ new \in SmokeRecord
         /\ new.action = rec.action
         /\ new.sig = rec.sig
         /\ new.status = "confirmed" =>
              /\ new.sig \in Sigs
              /\ Succeeded(new.sig)
              /\ new.ev = IF new.action = "claim" THEN tx[new.sig].took ELSE new.sig
<1>1. rec.sig \in Sigs /\ tx[rec.sig] \in Transaction
  BY DEF SmokeRecord, TypeOK
<1>2. a \in {"null", "processed", "confirmed"}
      /\ (a = "confirmed" => tx[rec.sig].level = "confirmed")
  BY DEF Answers
<1> QED
  BY <1>1, <1>2 DEF Reconciled, Succeeded, SmokeRecord, Transaction, Status

LEMMA ReconcileOneInv ==
  ASSUME IInv, NEW r \in Runners, ReconcileOne(r)
  PROVE  IInv'
<1>1. /\ run[r] \in Runner
      /\ run[r].stage = "reconcile"
      /\ run[r].k \in DOMAIN run[r].recs
      /\ TypeOK
      /\ MemoryInv(run[r])
      /\ SubmitInv(run[r])
      /\ Alive(r)
      /\ UNCHANGED <<fileVars, chainVars, sent>>
  BY DEF ReconcileOne, IInv, TypeOK, Alive
<1>2. run[r].recs \in Seq(SmokeRecord) /\ run[r].k \in Nat
  BY <1>1 DEF Runner
<1>3. run[r].recs[run[r].k] \in SmokeRecord
  BY <1>1, <1>2
<1> DEFINE next == run[r].k + 1
<1>4. next \in Nat
  BY <1>2
<1>5. CASE run[r].recs[run[r].k].sig = None
  <2> DEFINE n == [run[r] EXCEPT !.k = next]
  <2>1. run' = [run EXCEPT ![r] = n]
    BY <1>5 DEF ReconcileOne
  <2> HIDE DEF next
  <2>2. n \in Runner
    BY <1>1, <1>4 DEF Runner
  <2>3. MemoryInv(n) /\ SubmitInv(n)
    BY <1>1 DEF MemoryInv, SubmitInv, HoldsRecords, Reaches, Saving, Runner
  <2> QED
    BY <1>1, <2>1, <2>2, <2>3, LocalStep
<1>6. CASE run[r].recs[run[r].k].sig # None
  <2>1. PICK a \in Answers(run[r].recs[run[r].k].sig), found \in BOOLEAN :
          run' = [run EXCEPT ![r] = [run[r] EXCEPT !.k = next,
                    !.recs = [run[r].recs EXCEPT ![run[r].k] =
                                Reconciled(run[r].recs[run[r].k], a, found)]]]
    BY <1>6 DEF ReconcileOne
  <2> HIDE DEF next
  <2> DEFINE rec  == Reconciled(run[r].recs[run[r].k], a, found)
             recs == [run[r].recs EXCEPT ![run[r].k] = rec]
             n    == [run[r] EXCEPT !.k = next, !.recs = recs]
  <2>2. /\ rec \in SmokeRecord
        /\ rec.action = run[r].recs[run[r].k].action
        /\ rec.sig = run[r].recs[run[r].k].sig
        /\ rec.status = "confirmed" =>
              /\ rec.sig \in Sigs
              /\ Succeeded(rec.sig)
              /\ rec.ev = IF rec.action = "claim" THEN tx[rec.sig].took ELSE rec.sig
    BY <1>1, <1>3, <1>6, ReconciledRecord
  <2> HIDE DEF rec
  <2>3. /\ recs \in Seq(SmokeRecord)
        /\ Len(recs) = Len(run[r].recs)
        /\ DOMAIN recs = DOMAIN run[r].recs
        /\ recs[run[r].k] = rec
        /\ \A j \in DOMAIN recs : j # run[r].k => recs[j] = run[r].recs[j]
    BY <1>1, <1>2, <2>2, ReplaceRecord
  <2>4. run' = [run EXCEPT ![r] = n]
    BY <2>1 DEF rec
  <2> HIDE DEF recs
  <2>5. n \in Runner
    BY <1>1, <1>4, <2>3 DEF Runner
  <2>6. Keeps(receipt, recs) /\ OncePerAction(recs) /\ Truthful(recs)
    <3>1. Keeps(receipt, run[r].recs) /\ OncePerAction(run[r].recs) /\ Truthful(run[r].recs)
      BY <1>1 DEF MemoryInv, HoldsRecords
    <3>2. receipt \in Seq(SmokeRecord)
      BY <1>1 DEF TypeOK
    <3>3. Keeps(receipt, recs)
      BY SMTT(30), <1>1, <1>2, <2>2, <2>3, <3>1, <3>2 DEF Keeps
    <3>4. OncePerAction(recs)
      BY <1>1, <1>2, <2>2, <2>3, <3>1 DEF OncePerAction
    <3>5. Truthful(recs)
      BY <1>1, <1>2, <2>2, <2>3, <3>1 DEF Truthful
    <3> QED
      BY <3>3, <3>4, <3>5
  <2>7. MemoryInv(n) /\ SubmitInv(n)
    BY <1>1, <2>6 DEF MemoryInv, SubmitInv, HoldsRecords, Reaches, Saving, Runner
  <2> QED
    BY <1>1, <2>4, <2>5, <2>7, LocalStep
<1> QED
  BY <1>5, <1>6

LEMMA ReconcileEndInv ==
  ASSUME IInv, NEW r \in Runners, ReconcileEnd(r)
  PROVE  IInv'
<1> DEFINE ret == IF run[r].command = "status" THEN "exit" ELSE run[r].ret
           n == [run[r] EXCEPT !.stage = "saveOpen", !.recs = run[r].recs, !.ret = ret]
<1>1. /\ run[r] \in Runner
      /\ run[r].stage = "reconcile"
      /\ MemoryInv(run[r])
      /\ SubmitInv(run[r])
      /\ Alive(r)
      /\ UNCHANGED <<fileVars, chainVars, sent>>
      /\ run' = [run EXCEPT ![r] = n]
  BY DEF ReconcileEnd, CallSave, IInv, TypeOK, Alive
<1>2. n \in Runner
  BY <1>1 DEF Runner, Stage
<1>3. MemoryInv(n)
  BY <1>1 DEF MemoryInv, HoldsRecords, Runner
<1>4. SubmitInv(n)
  BY <1>1 DEF SubmitInv, Reaches, Saving, Runner
<1> QED
  BY <1>1, <1>2, <1>3, <1>4, LocalStep

LEMMA StopsEarlyInv ==
  ASSUME IInv, NEW r \in Runners, StopsEarly(r) \/ SaveFails(r)
  PROVE  IInv'
<1> DEFINE n == [run[r] EXCEPT !.stage = "exit"]
<1>1. /\ run[r] \in Runner
      /\ Alive(r)
      /\ UNCHANGED <<fileVars, chainVars, sent>>
      /\ run' = [run EXCEPT ![r] = n]
  BY DEF StopsEarly, SaveFails, Goto, IInv, TypeOK, Alive
<1>2. n \in Runner
  BY <1>1 DEF Runner, Stage
<1>3. MemoryInv(n) /\ SubmitInv(n)
  BY <1>1 DEF MemoryInv, HoldsRecords, SubmitInv, Reaches, Saving, Runner
<1> QED
  BY <1>1, <1>2, <1>3, LocalStep

LEMMA SettleInv ==
  ASSUME IInv, NEW r \in Runners, Settle(r)
  PROVE  IInv'
<1> DEFINE n == [run[r] EXCEPT !.stage = "reconcile", !.ret = "exit", !.k = 1]
<1>1. /\ run[r] \in Runner
      /\ run[r].stage = "settle"
      /\ MemoryInv(run[r])
      /\ Alive(r)
      /\ UNCHANGED <<fileVars, chainVars, sent>>
      /\ run' = [run EXCEPT ![r] = n]
  BY DEF Settle, IInv, TypeOK, Alive
<1>2. n \in Runner
  BY <1>1 DEF Runner, Stage
<1>3. MemoryInv(n) /\ SubmitInv(n)
  BY <1>1 DEF MemoryInv, HoldsRecords, SubmitInv, Reaches, Saving, Runner
<1> QED
  BY <1>1, <1>2, <1>3, LocalStep

\* The new record is the only one of its action, because assertNoReplay did not
\* throw, and every earlier record is resolved.
LEMMA PrepareInv ==
  ASSUME IInv, NEW r \in Runners, Prepare(r)
  PROVE  IInv'
<1> DEFINE rec  == [action |-> run[r].command, sig |-> None, status |-> "prepared", ev |-> None]
           recs == Append(run[r].recs, rec)
           n    == [Idle EXCEPT !.stage = "saveOpen", !.ret = "sign",
                                !.command = run[r].command, !.recs = recs]
<1>1. /\ run[r] \in Runner
      /\ run[r].stage = "gate"
      /\ receipt \in Seq(SmokeRecord)
      /\ MemoryInv(run[r])
      /\ SubmitInv(run[r])
      /\ NoReplay(run[r].recs, run[r].command)
      /\ Alive(r)
      /\ UNCHANGED <<fileVars, chainVars, sent>>
      /\ run' = [run EXCEPT ![r] = n]
  BY DEF Prepare, Eligible, IInv, TypeOK, Alive
<1>2. run[r].recs \in Seq(SmokeRecord) /\ run[r].command \in SmokeAction
  BY <1>1 DEF Runner, SubmitInv
<1>3. rec \in SmokeRecord
  BY <1>2 DEF SmokeRecord, Status
<1> HIDE DEF rec
<1>4. /\ recs \in Seq(SmokeRecord)
      /\ Len(recs) = Len(run[r].recs) + 1
      /\ \A i \in DOMAIN run[r].recs : recs[i] = run[r].recs[i]
      /\ recs[Len(recs)] = rec
      /\ DOMAIN recs = DOMAIN run[r].recs \cup {Len(recs)}
  BY <1>2, <1>3
<1>5. rec.action = run[r].command /\ rec.sig = None /\ rec.status = "prepared"
  BY DEF rec
<1>6. n \in Runner
  BY <1>2, <1>4 DEF Runner, Idle, Stage
<1>7. Keeps(receipt, run[r].recs) /\ OncePerAction(run[r].recs) /\ Truthful(run[r].recs)
  BY <1>1 DEF MemoryInv, HoldsRecords
<1> HIDE DEF recs
<1>8. Keeps(receipt, recs)
  BY <1>1, <1>2, <1>4, <1>7 DEF Keeps
<1>9. OncePerAction(recs)
  BY <1>1, <1>2, <1>4, <1>5, <1>7 DEF OncePerAction, NoReplay
<1>10. Truthful(recs)
  BY <1>2, <1>4, <1>5, <1>7 DEF Truthful
<1>11. MemoryInv(n)
  BY <1>8, <1>9, <1>10 DEF MemoryInv, HoldsRecords, Idle
<1>12. SubmitInv(n)
  <2>1. recs # <<>> /\ \A i \in 1 .. Len(recs) - 1 : recs[i].status = "confirmed"
    BY <1>1, <1>2, <1>4 DEF NoReplay
  <2> QED
    BY <1>2, <1>4, <1>5, <2>1 DEF SubmitInv, Reaches, Saving, Idle
<1> QED
  BY <1>1, <1>6, <1>11, <1>12, LocalStep

-----------------------------------------------------------------------------
(***************************************************************************)
(* The steps that change the files.                                        *)
(***************************************************************************)

\* Only the existence of .tmp or of the lock changes.
LEMMA SaveOpenInv ==
  ASSUME IInv, NEW r \in Runners, SaveOpen(r)
  PROVE  IInv'
<1>0. PICK n : n = [run[r] EXCEPT !.stage = "saveRename"]
  OBVIOUS
<1>1. /\ run[r] \in Runner
      /\ run[r].stage = "saveOpen"
      /\ MemoryInv(run[r])
      /\ SubmitInv(run[r])
      /\ Alive(r)
      /\ TypeOK
      /\ OneRunner
      /\ run' = [run EXCEPT ![r] = n]
      /\ UNCHANGED <<lock, receipt, onDisk, tx, ticket, settled, sent>>
      /\ tmp' = TRUE
  BY <1>0 DEF SaveOpen, Goto, IInv, TypeOK, Alive, chainVars
<1>2. n \in Runner
  BY <1>0, <1>1 DEF Runner, Stage
<1>3. TypeOK'
  BY <1>1, <1>2 DEF TypeOK
<1>4. OneRunner'
  BY <1>1, <1>2 DEF OneRunner, Alive, TypeOK
<1>5. FilesInv' /\ SentIsDurable'
  BY <1>1, FilesStay DEF IInv
<1>6. MemoryInv(n) /\ SubmitInv(n)
  BY SMTT(30), <1>0, <1>1 DEF MemoryInv, HoldsRecords, SubmitInv, Reaches, Saving, Runner
<1>7. (MemoryInv(n) /\ SubmitInv(n))'
  BY <1>1, <1>6, InvocationStays
<1> QED
  BY <1>1, <1>2, <1>3, <1>4, <1>5, <1>7, OnlyOneMoves DEF IInv

\* The receipt becomes what the invocation has in memory; the disk may hold it.
LEMMA SaveRenameInv ==
  ASSUME IInv, NEW r \in Runners, SaveRename(r)
  PROVE  IInv'
<1>0. PICK n : n = [run[r] EXCEPT !.stage = "saveSync"]
  OBVIOUS
<1>1. /\ run[r] \in Runner
      /\ run[r].stage = "saveRename"
      /\ MemoryInv(run[r])
      /\ SubmitInv(run[r])
      /\ Alive(r)
      /\ TypeOK
      /\ OneRunner
      /\ FilesInv
      /\ SentIsDurable
      /\ run' = [run EXCEPT ![r] = n]
      /\ UNCHANGED <<lock, tx, ticket, settled, sent>>
      /\ tmp' = FALSE
      /\ receipt' = run[r].recs
      /\ onDisk' = onDisk \cup {run[r].recs}
  BY <1>0 DEF SaveRename, Goto, IInv, TypeOK, Alive, chainVars
<1>2. /\ n \in Runner
      /\ run[r].recs \in Seq(SmokeRecord)
      /\ n.recs = run[r].recs
      /\ n.stage = "saveSync"
  BY <1>0, <1>1 DEF Runner, Stage
<1>3. TypeOK'
  BY <1>1, <1>2 DEF TypeOK
<1>4. OneRunner'
  BY <1>1, <1>2 DEF OneRunner, Alive, TypeOK
<1>5. /\ Keeps(receipt, run[r].recs)
      /\ OncePerAction(run[r].recs)
      /\ Truthful(run[r].recs)
  BY <1>1 DEF MemoryInv, HoldsRecords
<1>6. \A recs \in onDisk' : Keeps(recs, run[r].recs) /\ Truthful(recs)
  <2> SUFFICES ASSUME NEW recs \in onDisk'
               PROVE  Keeps(recs, run[r].recs) /\ Truthful(recs)
    OBVIOUS
  <2>1. CASE recs = run[r].recs
    BY <1>2, <1>5, <2>1, KeepsItself
  <2>2. CASE recs \in onDisk
    BY <1>1, <1>2, <1>5, <2>2, KeepsTransitive DEF FilesInv, TypeOK
  <2> QED
    BY <1>1, <2>1, <2>2
<1>7. FilesInv'
  BY <1>1, <1>5, <1>6 DEF FilesInv, Truthful, Succeeded, Keeps, OncePerAction
<1>8. SentIsDurable'
  <2> SUFFICES ASSUME NEW x \in sent, NEW recs \in onDisk'
               PROVE  Holds(recs, x)
    BY <1>1 DEF SentIsDurable, Holds
  <2>1. CASE recs \in onDisk
    BY <1>1, <2>1 DEF SentIsDurable
  <2>2. CASE recs = run[r].recs
    <3>1. Holds(receipt, x) /\ x \in SmokeAction \X Sigs /\ receipt \in Seq(SmokeRecord)
      BY <1>1 DEF SentIsDurable, FilesInv, TypeOK
    <3> QED
      BY <1>2, <1>5, <2>2, <3>1, KeepsHolds
  <2> QED
    BY <1>1, <2>1, <2>2
<1>9. (MemoryInv(n) /\ SubmitInv(n))'
  <2>1. MemoryInv(n)'
    BY <1>0, <1>1, <1>2, <1>5, KeepsItself
       DEF MemoryInv, HoldsRecords, Truthful, Succeeded, Keeps, OncePerAction
  <2>2. SubmitInv(n)'
    BY <1>0, <1>1 DEF SubmitInv, Reaches, Saving, Runner
  <2> QED
    BY <2>1, <2>2
<1> QED
  BY <1>1, <1>2, <1>3, <1>4, <1>7, <1>8, <1>9, OnlyOneMoves DEF IInv

\* The directory is synced: the receipt is the only version left.
LEMMA SaveSyncInv ==
  ASSUME IInv, NEW r \in Runners, SaveSync(r)
  PROVE  IInv'
<1>0. PICK n : n = [run[r] EXCEPT !.stage = run[r].ret]
  OBVIOUS
<1>1. /\ run[r] \in Runner
      /\ run[r].stage = "saveSync"
      /\ MemoryInv(run[r])
      /\ SubmitInv(run[r])
      /\ Alive(r)
      /\ TypeOK
      /\ OneRunner
      /\ FilesInv
      /\ SentIsDurable
      /\ run' = [run EXCEPT ![r] = n]
      /\ UNCHANGED <<lock, tmp, receipt, tx, ticket, settled, sent>>
      /\ onDisk' = {receipt}
  BY <1>0 DEF SaveSync, Goto, IInv, TypeOK, Alive, chainVars
<1>2. /\ n \in Runner
      /\ receipt \in Seq(SmokeRecord)
      /\ run[r].recs = receipt
  BY <1>0, <1>1 DEF Runner, Stage, TypeOK, MemoryInv
<1>3. TypeOK'
  BY <1>1, <1>2 DEF TypeOK
<1>4. OneRunner'
  BY <1>1, <1>2 DEF OneRunner, Alive, TypeOK
<1>5. FilesInv'
  BY <1>1 DEF FilesInv, Truthful, Succeeded, Keeps, OncePerAction
<1>6. SentIsDurable'
  BY <1>1 DEF SentIsDurable, FilesInv, Holds
<1>7. MemoryInv(n)'
  BY <1>0, <1>1, <1>2 DEF MemoryInv, HoldsRecords, Truthful, Succeeded, Keeps, OncePerAction, Runner
<1>8. SubmitInv(n)'
  BY <1>0, <1>1, <1>2 DEF SubmitInv, Reaches, Saving, Runner
<1> QED
  BY <1>1, <1>2, <1>3, <1>4, <1>5, <1>6, <1>7, <1>8, OnlyOneMoves DEF IInv

-----------------------------------------------------------------------------
(***************************************************************************)
(* Signing and sending.                                                    *)
(***************************************************************************)

\* What a receipt says of the chain stays true as long as no success is undone.
LEMMA TruthStays ==
  ASSUME NEW recs, Truthful(recs),
         \A s \in Sigs : Succeeded(s) => Succeeded(s)' /\ tx'[s].took = tx[s].took
  PROVE  Truthful(recs)'
  BY DEF Truthful

LEMMA SignInv ==
  ASSUME IInv, NEW r \in Runners, Sign(r)
  PROVE  IInv'
<1> USE DEF IInv
<1>1. /\ run[r] \in Runner
      /\ run[r].stage = "sign"
      /\ MemoryInv(run[r])
      /\ SubmitInv(run[r])
      /\ Alive(r)
      /\ UNCHANGED <<fileVars, ticket, settled, sent>>
  BY DEF Sign, TypeOK, Alive
<1>2. PICK recs, last : recs = run[r].recs /\ last = Len(recs)
  OBVIOUS
<1>3. /\ recs \in Seq(SmokeRecord) /\ recs # <<>>
      /\ run[r].command \in SmokeAction
      /\ recs[last].action = run[r].command /\ recs[last].sig = None
      /\ \A i \in 1 .. last - 1 : recs[i].status = "confirmed"
      /\ Keeps(receipt, recs) /\ OncePerAction(recs) /\ Truthful(recs)
  BY <1>1, <1>2 DEF Runner, SubmitInv, Reaches, MemoryInv, HoldsRecords
<1>4. last \in DOMAIN recs /\ recs[last] \in SmokeRecord
  BY <1>2, <1>3
<1>5. PICK s \in Sigs :
        /\ tx[s].level = "unborn"
        /\ tx' = [tx EXCEPT ![s] = [tx[s] EXCEPT !.action = run[r].command, !.level = "signed"]]
        /\ run' = [run EXCEPT ![r] = [run[r] EXCEPT !.stage = "saveOpen",
                     !.recs = [recs EXCEPT ![last] = [recs[last] EXCEPT !.sig = s,
                                                                        !.status = "signed"]],
                     !.ret = "send"]]
  BY <1>2 DEF Sign, CallSave
<1>6. PICK rec : rec = [recs[last] EXCEPT !.sig = s, !.status = "signed"]
  OBVIOUS
<1>7. /\ rec \in SmokeRecord
      /\ rec.action = run[r].command /\ rec.sig = s /\ rec.status = "signed"
  BY <1>3, <1>4, <1>6 DEF SmokeRecord, Status
<1>8. PICK new : new = [recs EXCEPT ![last] = rec]
  OBVIOUS
<1>9. /\ new \in Seq(SmokeRecord) /\ Len(new) = last /\ DOMAIN new = DOMAIN recs
      /\ new[last] = rec
      /\ \A j \in DOMAIN recs : j # last => new[j] = recs[j]
  BY <1>2, <1>3, <1>4, <1>7, <1>8, ReplaceRecord
<1>10. PICK n : n = [run[r] EXCEPT !.stage = "saveOpen", !.recs = new, !.ret = "send"]
  OBVIOUS
<1>11. /\ n \in Runner /\ run' = [run EXCEPT ![r] = n]
       /\ n.stage = "saveOpen" /\ n.ret = "send" /\ n.recs = new
       /\ n.command = run[r].command
  BY <1>1, <1>5, <1>6, <1>8, <1>9, <1>10 DEF Runner, Stage
<1>12. tx[s] \in Transaction /\ tx' \in [Sigs -> Transaction] /\ tx'[s].level = "signed"
  BY ZenonT(60), <1>1, <1>3, <1>5 DEF TypeOK, Transaction, Level
<1>13. \A u \in Sigs : Succeeded(u) => Succeeded(u)' /\ tx'[u].took = tx[u].took
  BY <1>5, <1>12 DEF Succeeded, TypeOK
<1>14. TypeOK' /\ OneRunner'
  BY <1>1, <1>11, <1>12 DEF TypeOK, OneRunner, Alive, fileVars
<1>15. FilesInv' /\ SentIsDurable'
  <2>1. \A v \in onDisk : Truthful(v)'
    BY <1>13, TruthStays DEF FilesInv
  <2> QED
    BY <1>1, <2>1 DEF FilesInv, SentIsDurable, Keeps, OncePerAction, Holds, fileVars
<1>16. Keeps(receipt, new) /\ OncePerAction(new) /\ Truthful(new)
  <2>1. receipt \in Seq(SmokeRecord)
    BY DEF TypeOK
  <2>2. Keeps(receipt, new)
    BY <1>2, <1>3, <1>4, <1>7, <1>9, <2>1 DEF Keeps
  <2>3. OncePerAction(new)
    BY <1>3, <1>7, <1>9 DEF OncePerAction
  <2>4. Truthful(new)
    BY <1>3, <1>7, <1>9 DEF Truthful
  <2> QED
    BY <2>2, <2>3, <2>4
<1>17. MemoryInv(n)'
  BY <1>1, <1>11, <1>13, <1>16, TruthStays DEF MemoryInv, HoldsRecords, Keeps, OncePerAction, fileVars
<1>18. SubmitInv(n)'
  BY <1>2, <1>3, <1>4, <1>7, <1>9, <1>11, <1>12 DEF SubmitInv, Reaches, Saving
<1> QED
  BY <1>1, <1>11, <1>14, <1>15, <1>17, <1>18, OnlyOneMoves

\* At the send every version of the receipt is the one in memory, whose last
\* record is the submission.
LEMMA SendInv ==
  ASSUME IInv, NEW r \in Runners, Send(r)
  PROVE  IInv'
<1> USE DEF IInv
<1>1. /\ run[r] \in Runner
      /\ run[r].stage = "send"
      /\ MemoryInv(run[r])
      /\ SubmitInv(run[r])
      /\ Alive(r)
      /\ UNCHANGED <<fileVars, ticket, settled>>
  BY DEF Send, TypeOK, Alive
<1>2. PICK recs, last, s : recs = run[r].recs /\ last = Len(recs) /\ s = recs[last].sig
  OBVIOUS
<1>3. /\ recs \in Seq(SmokeRecord) /\ recs # <<>>
      /\ run[r].command \in SmokeAction
      /\ recs[last].action = run[r].command
      /\ s \in Sigs /\ tx[s].level = "signed"
      /\ \A i \in 1 .. last - 1 : recs[i].status = "confirmed"
      /\ Keeps(receipt, recs) /\ OncePerAction(recs) /\ Truthful(recs)
      /\ onDisk = {recs}
  BY <1>1, <1>2 DEF Runner, SubmitInv, Reaches, MemoryInv, HoldsRecords
<1>4. last \in DOMAIN recs /\ recs[last] \in SmokeRecord
  BY SMTT(30), <1>2, <1>3
<1>5. PICK arrives \in BOOLEAN, throws \in BOOLEAN :
        /\ tx' = [tx EXCEPT ![s].level = IF arrives THEN "pending" ELSE @]
        /\ run' = [run EXCEPT ![r] = [run[r] EXCEPT !.stage = "saveOpen",
                     !.recs = [recs EXCEPT ![last] = [recs[last] EXCEPT !.status = "unknown"]],
                     !.ret = IF throws THEN "exit" ELSE "settle"]]
        /\ sent' = sent \cup {<<run[r].command, s>>}
  BY <1>2 DEF Send, CallSave
<1>6. PICK rec : rec = [recs[last] EXCEPT !.status = "unknown"]
  OBVIOUS
<1>7. /\ rec \in SmokeRecord
      /\ rec.action = run[r].command /\ rec.sig = s /\ rec.status = "unknown"
  BY <1>2, <1>3, <1>4, <1>6 DEF SmokeRecord, Status
<1>8. PICK new : new = [recs EXCEPT ![last] = rec]
  OBVIOUS
<1>9. /\ new \in Seq(SmokeRecord) /\ Len(new) = last /\ DOMAIN new = DOMAIN recs
      /\ new[last] = rec
      /\ \A j \in DOMAIN recs : j # last => new[j] = recs[j]
  BY <1>2, <1>3, <1>4, <1>7, <1>8, ReplaceRecord
<1>10. PICK n : n = [run[r] EXCEPT !.stage = "saveOpen", !.recs = new,
                                   !.ret = IF throws THEN "exit" ELSE "settle"]
  OBVIOUS
<1>11. /\ n \in Runner /\ run' = [run EXCEPT ![r] = n]
       /\ n.stage = "saveOpen" /\ n.ret \in {"exit", "settle"} /\ n.recs = new
       /\ n.command = run[r].command
  BY <1>1, <1>5, <1>6, <1>8, <1>9, <1>10 DEF Runner, Stage
<1>12. /\ tx[s] \in Transaction /\ tx' \in [Sigs -> Transaction]
       /\ \A u \in Sigs : u # s => tx'[u] = tx[u]
       /\ tx'[s].level \in {"signed", "pending"}
  BY ZenonT(60), <1>3, <1>5 DEF TypeOK, Transaction, Level
<1>13. \A u \in Sigs : Succeeded(u) => Succeeded(u)' /\ tx'[u].took = tx[u].took
  BY <1>3, <1>12 DEF Succeeded, TypeOK
<1>14. TypeOK' /\ OneRunner'
  BY <1>1, <1>3, <1>5, <1>11, <1>12 DEF TypeOK, OneRunner, Alive, fileVars
<1>15. FilesInv'
  <2>1. \A v \in onDisk : Truthful(v)'
    BY <1>13, TruthStays DEF FilesInv
  <2> QED
    BY <1>1, <2>1 DEF FilesInv, Keeps, OncePerAction, fileVars
<1>16. SentIsDurable'
  <2>1. Holds(recs, <<run[r].command, s>>)
    BY <1>2, <1>3, <1>4 DEF Holds
  <2>2. \A x \in sent : Holds(recs, x)
    BY <1>3 DEF SentIsDurable
  <2> QED
    BY <1>1, <1>3, <1>5, <2>1, <2>2 DEF SentIsDurable, Holds, fileVars
<1>17. Keeps(receipt, new) /\ OncePerAction(new) /\ Truthful(new)
  <2>1. receipt \in Seq(SmokeRecord)
    BY DEF TypeOK
  <2>2. Keeps(receipt, new)
    BY <1>2, <1>3, <1>4, <1>7, <1>9, <2>1 DEF Keeps
  <2>3. OncePerAction(new)
    BY <1>3, <1>7, <1>9 DEF OncePerAction
  <2>4. Truthful(new)
    BY <1>3, <1>7, <1>9 DEF Truthful
  <2> QED
    BY <2>2, <2>3, <2>4
<1>18. MemoryInv(n)'
  BY <1>1, <1>11, <1>13, <1>17, TruthStays DEF MemoryInv, HoldsRecords, Keeps, OncePerAction, fileVars
<1>19. SubmitInv(n)'
  BY <1>3, <1>11 DEF SubmitInv, Reaches, Saving
<1> QED
  BY <1>1, <1>11, <1>14, <1>15, <1>16, <1>18, <1>19, OnlyOneMoves

-----------------------------------------------------------------------------
(***************************************************************************)
(* Invocations that begin and end, crashes, and the operator.              *)
(***************************************************************************)

\* An invocation that has nothing in memory satisfies its part of the invariant.
LEMMA FreshInvocation ==
  ASSUME NEW n, n.stage \in {"idle", "read", "exit"}
  PROVE  MemoryInv(n) /\ SubmitInv(n)
  BY DEF MemoryInv, SubmitInv, HoldsRecords, Reaches, Saving

LEMMA IdleIsRunner == Idle \in Runner /\ Idle.stage = "idle"
  BY DEF Idle, Runner, Stage

\* Without the lock nobody is alive, so the new invocation is the only one.
LEMMA AcquireInv ==
  ASSUME IInv, NEW r \in Runners, NEW c \in Command, Acquire(r, c)
  PROVE  IInv'
<1> USE DEF IInv
<1>1. PICK n : n = [Idle EXCEPT !.stage = "read", !.command = c]
  OBVIOUS
<1>2. n \in Runner /\ n.stage = "read"
  BY <1>1, IdleIsRunner DEF Runner, Stage
<1>3. /\ \A q \in Runners : run[q].stage = "idle"
      /\ run' = [run EXCEPT ![r] = n]
      /\ lock' = TRUE
      /\ UNCHANGED <<tmp, receipt, onDisk, tx, ticket, settled, sent>>
  BY <1>1 DEF Acquire, OneRunner, Alive, chainVars
<1>4. TypeOK' /\ OneRunner'
  BY <1>2, <1>3 DEF TypeOK, OneRunner, Alive
<1>5. \A q \in Runners : (MemoryInv(run[q]) /\ SubmitInv(run[q]))'
  <2> SUFFICES ASSUME NEW q \in Runners
               PROVE  (MemoryInv(run[q]) /\ SubmitInv(run[q]))'
    OBVIOUS
  <2>1. run'[q].stage \in {"idle", "read"}
    BY <1>2, <1>3 DEF TypeOK
  <2> QED
    BY <2>1 DEF MemoryInv, SubmitInv, HoldsRecords, Reaches, Saving
<1> QED
  BY <1>3, <1>4, <1>5, FilesStay

\* The end of an invocation, or of all of them, loses only what is in memory.
LEMMA EndInv ==
  ASSUME IInv, run' \in [Runners -> Runner],
         \A q \in Runners : run'[q] = run[q] \/ run'[q].stage = "idle",
         lock' \in BOOLEAN,
         (\A q \in Runners : ~Alive(q)') \/ lock' = lock,
         tmp' \in BOOLEAN,
         UNCHANGED <<receipt, onDisk, chainVars, sent>>
  PROVE  IInv'
<1> USE DEF IInv, chainVars
<1>1. TypeOK' /\ OneRunner'
  BY DEF TypeOK, OneRunner, Alive
<1>2. \A q \in Runners : (MemoryInv(run[q]) /\ SubmitInv(run[q]))'
  <2> SUFFICES ASSUME NEW q \in Runners
               PROVE  (MemoryInv(run[q]) /\ SubmitInv(run[q]))'
    OBVIOUS
  <2>1. CASE run'[q] = run[q]
    <3>1. PICK n : n = run[q] /\ MemoryInv(n) /\ SubmitInv(n)
      OBVIOUS
    <3>2. (MemoryInv(n) /\ SubmitInv(n))'
      BY <3>1, InvocationStays
    <3> QED
      BY <2>1, <3>1, <3>2
  <2>2. CASE run'[q].stage = "idle"
    BY <2>2 DEF MemoryInv, SubmitInv, HoldsRecords, Reaches, Saving
  <2> QED
    BY <2>1, <2>2
<1> QED
  BY <1>1, <1>2, FilesStay

LEMMA ExitInv ==
  ASSUME IInv, NEW r \in Runners, Exit(r) \/ Crash(r)
  PROVE  IInv'
<1>1. /\ Alive(r)
      /\ run' = [run EXCEPT ![r] = Idle]
      /\ lock' \in {lock, FALSE}
      /\ Crash(r) => lock' = lock
      /\ UNCHANGED <<tmp, receipt, onDisk, chainVars, sent>>
  BY DEF Exit, Crash, Alive, fileVars
<1>2. /\ run' \in [Runners -> Runner]
      /\ \A q \in Runners : run'[q] = run[q] \/ run'[q].stage = "idle"
      /\ \A q \in Runners : ~Alive(q)'
  BY <1>1, IdleIsRunner DEF IInv, TypeOK, OneRunner, Alive
<1>3. lock' \in BOOLEAN /\ tmp' \in BOOLEAN
  BY <1>1 DEF IInv, TypeOK
<1> QED
  BY <1>1, <1>2, <1>3, EndInv

LEMMA RemoveStaleInv ==
  ASSUME IInv, RemoveStaleLock \/ RemoveStaleTmp
  PROVE  IInv'
<1>1. /\ \A q \in Runners : ~Alive(q)
      /\ run' = run
      /\ lock' \in {lock, FALSE}
      /\ tmp' \in {tmp, FALSE}
      /\ UNCHANGED <<receipt, onDisk, chainVars, sent>>
  BY DEF RemoveStaleLock, RemoveStaleTmp, chainVars
<1>2. run' \in [Runners -> Runner] /\ lock' \in BOOLEAN /\ tmp' \in BOOLEAN
  BY <1>1 DEF IInv, TypeOK
<1>3. \A q \in Runners : ~Alive(q)'
  BY <1>1 DEF Alive
<1> QED
  BY <1>1, <1>2, <1>3, EndInv

\* Every version the disk may hold satisfies what the receipt does.
LEMMA PowerFailureInv ==
  ASSUME IInv, PowerFailure
  PROVE  IInv'
<1> USE DEF IInv
<1>1. /\ run' = [q \in Runners |-> Idle]
      /\ receipt' \in onDisk
      /\ onDisk' = {receipt'}
      /\ lock' \in BOOLEAN
      /\ tmp' \in BOOLEAN
      /\ UNCHANGED <<tx, ticket, settled, sent>>
  BY DEF PowerFailure, chainVars, TypeOK
<1>2. receipt' \in Seq(SmokeRecord)
  BY <1>1 DEF TypeOK
<1>3. TypeOK'
  BY <1>1, <1>2, IdleIsRunner DEF TypeOK
<1>4. OneRunner'
  BY <1>1, IdleIsRunner DEF OneRunner, Alive
<1>5. FilesInv'
  <2>1. Keeps(receipt', receipt) /\ Truthful(receipt')
    BY <1>1 DEF FilesInv
  <2>2. OncePerAction(receipt')
    BY <1>2, <2>1, KeepsOnce DEF FilesInv, TypeOK
  <2>3. Keeps(receipt', receipt')
    BY <1>2, KeepsItself
  <2> QED
    BY <1>1, <2>1, <2>2, <2>3 DEF FilesInv, Truthful, Succeeded, Keeps, OncePerAction
<1>6. SentIsDurable'
  BY <1>1 DEF SentIsDurable, Holds
<1>7. \A q \in Runners : (MemoryInv(run[q]) /\ SubmitInv(run[q]))'
  BY <1>1, IdleIsRunner DEF MemoryInv, SubmitInv, HoldsRecords, Reaches, Saving
<1> QED
  BY <1>3, <1>4, <1>5, <1>6, <1>7

LEMMA WriteBackInv ==
  ASSUME IInv, WriteBack
  PROVE  IInv'
<1> USE DEF IInv
<1>1. /\ onDisk' = {receipt}
      /\ UNCHANGED <<run, lock, tmp, receipt, tx, ticket, settled, sent>>
  BY DEF WriteBack, chainVars
<1>2. TypeOK' /\ OneRunner'
  BY <1>1 DEF TypeOK, OneRunner, Alive
<1>3. FilesInv' /\ SentIsDurable'
  BY <1>1 DEF FilesInv, SentIsDurable, Truthful, Succeeded, Keeps, OncePerAction, Holds
<1>4. \A q \in Runners : (MemoryInv(run[q]) /\ SubmitInv(run[q]))'
  <2> SUFFICES ASSUME NEW q \in Runners
               PROVE  (MemoryInv(run[q]) /\ SubmitInv(run[q]))'
    OBVIOUS
  <2>1. MemoryInv(run[q])'
    BY <1>1 DEF MemoryInv, HoldsRecords, Truthful, Succeeded, Keeps, OncePerAction
  <2>2. run[q].stage = "send" => onDisk = {run[q].recs} /\ receipt = run[q].recs
    BY DEF FilesInv, SubmitInv
  <2>3. SubmitInv(run[q])'
    BY <1>1, <2>2 DEF SubmitInv, Reaches, Saving
  <2> QED
    BY <2>1, <2>3
<1> QED
  BY <1>2, <1>3, <1>4

-----------------------------------------------------------------------------
(***************************************************************************)
(* The chain undoes no success and never touches a signature that was not  *)
(* sent.                                                                   *)
(***************************************************************************)
LEMMA ChainStep ==
  ASSUME IInv, UNCHANGED <<run, fileVars, sent>>,
         tx' \in [Sigs -> Transaction], ticket' \in Ticket, settled' \in BOOLEAN,
         \A s \in Sigs : Succeeded(s) => Succeeded(s)' /\ tx'[s].took = tx[s].took,
         \A s \in Sigs : tx[s].level = "signed" => tx'[s].level = "signed"
  PROVE  IInv'
<1> USE DEF IInv, fileVars
<1>1. TypeOK' /\ OneRunner'
  BY DEF TypeOK, OneRunner, Alive
<1>2. FilesInv' /\ SentIsDurable'
  <2>1. \A v \in onDisk : Truthful(v)'
    BY TruthStays DEF FilesInv
  <2> QED
    BY <2>1 DEF FilesInv, SentIsDurable, Keeps, OncePerAction, Holds
<1>3. \A q \in Runners : (MemoryInv(run[q]) /\ SubmitInv(run[q]))'
  <2> SUFFICES ASSUME NEW q \in Runners
               PROVE  (MemoryInv(run[q]) /\ SubmitInv(run[q]))'
    OBVIOUS
  <2>1. PICK n : n = run[q]
    OBVIOUS
  <2>2. MemoryInv(n) /\ SubmitInv(n)
    BY <2>1
  <2>3. MemoryInv(n)'
    BY <2>2, TruthStays DEF MemoryInv, HoldsRecords, Keeps, OncePerAction
  <2>4. SubmitInv(n)'
    BY <2>2 DEF SubmitInv, Reaches, Saving
  <2> QED
    BY <2>1, <2>3, <2>4
<1> QED
  BY <1>1, <1>2, <1>3

LEMMA TransactionMoves ==
  ASSUME IInv, NEW s \in Sigs,
         Process(s) \/ Abandon(s) \/ Expire(s) \/ Confirm(s)
  PROVE  IInv'
<1>1. /\ tx \in [Sigs -> Transaction] /\ tx[s] \in Transaction
      /\ ticket \in Ticket /\ settled \in BOOLEAN
  BY DEF IInv, TypeOK
<1>2. CASE Process(s)
  <2>1. PICK e \in BOOLEAN :
          tx' = [tx EXCEPT ![s] = [tx[s] EXCEPT !.level = "processed", !.err = e]]
    BY <1>2 DEF Process
  <2>2. tx[s].level = "pending" /\ UNCHANGED <<run, fileVars, ticket, settled, sent>>
    BY <1>2 DEF Process
  <2>3. /\ tx' \in [Sigs -> Transaction]
        /\ \A u \in Sigs : u # s => tx'[u] = tx[u]
    BY <1>1, <2>1 DEF Transaction, Level
  <2> QED
    BY <1>1, <2>2, <2>3, ChainStep DEF Succeeded
<1>3. CASE Abandon(s)
  <2>1. /\ tx' = [tx EXCEPT ![s] = [tx[s] EXCEPT !.level = "pending", !.err = FALSE]]
        /\ tx[s].level = "processed"
        /\ UNCHANGED <<run, fileVars, ticket, settled, sent>>
    BY <1>3 DEF Abandon
  <2>2. /\ tx' \in [Sigs -> Transaction]
        /\ \A u \in Sigs : u # s => tx'[u] = tx[u]
    BY <1>1, <2>1 DEF Transaction, Level
  <2> QED
    BY <1>1, <2>1, <2>2, ChainStep DEF Succeeded
<1>4. CASE Expire(s)
  <2>1. /\ tx' = [tx EXCEPT ![s] = [tx[s] EXCEPT !.level = "expired"]]
        /\ tx[s].level = "pending"
        /\ UNCHANGED <<run, fileVars, ticket, settled, sent>>
    BY <1>4 DEF Expire
  <2>2. /\ tx' \in [Sigs -> Transaction]
        /\ \A u \in Sigs : u # s => tx'[u] = tx[u]
    BY <1>1, <2>1 DEF Transaction, Level
  <2> QED
    BY <1>1, <2>1, <2>2, ChainStep DEF Succeeded
<1>5. CASE Confirm(s)
  <2>1. PICK took \in Ticket :
          tx' = [tx EXCEPT ![s] = [tx[s] EXCEPT !.level = "confirmed", !.took = took]]
    <3>1. CASE tx' = [tx EXCEPT ![s].level = "confirmed"]
      <4>1. tx[s].took \in Ticket
            /\ [tx[s] EXCEPT !.level = "confirmed"]
                 = [tx[s] EXCEPT !.level = "confirmed", !.took = tx[s].took]
        BY <1>1 DEF Transaction
      <4> QED
        BY <3>1, <4>1
    <3>2. CASE tx' = [tx EXCEPT ![s] = [tx[s] EXCEPT !.level = "confirmed", !.took = ticket]]
      BY <1>1, <3>2
    <3> QED
      BY <1>5, <3>1, <3>2 DEF Confirm
  <2>2. /\ tx[s].level = "processed"
        /\ ticket' \in Ticket /\ settled' \in BOOLEAN
        /\ UNCHANGED <<run, fileVars, sent>>
    BY <1>1, <1>5 DEF Confirm
  <2>3. /\ tx' \in [Sigs -> Transaction]
        /\ \A u \in Sigs : u # s => tx'[u] = tx[u]
    BY <1>1, <2>1 DEF Transaction, Level
  <2> QED
    BY <1>1, <2>2, <2>3, ChainStep DEF Succeeded
<1> QED
  BY <1>2, <1>3, <1>4, <1>5

LEMMA TicketMoves ==
  ASSUME IInv, KeeperSettles \/ WalletActivity
  PROVE  IInv'
<1>1. /\ UNCHANGED <<run, fileVars, tx, sent>>
      /\ tx \in [Sigs -> Transaction]
      /\ ticket' \in Ticket /\ settled' \in BOOLEAN
  BY DEF KeeperSettles, WalletActivity, IInv, TypeOK
<1> QED
  BY <1>1, ChainStep DEF Succeeded

-----------------------------------------------------------------------------
(***************************************************************************)
(* The theorems.                                                           *)
(***************************************************************************)

LEMMA InitInv == Init => IInv
<1> SUFFICES ASSUME Init
             PROVE  IInv
  OBVIOUS
<1>1. TypeOK
  <2>1. run \in [Runners -> Runner]
    BY IdleIsRunner DEF Init
  <2>2. tx \in [Sigs -> Transaction]
    BY DEF Init, UnbornTx, Transaction, Level
  <2>3. receipt \in Seq(SmokeRecord) /\ onDisk \in SUBSET Seq(SmokeRecord)
    BY DEF Init
  <2> QED
    BY <2>1, <2>2, <2>3 DEF Init, TypeOK
<1>2. OneRunner
  BY IdleIsRunner DEF Init, OneRunner, Alive
<1>3. FilesInv /\ SentIsDurable
  BY DEF Init, FilesInv, SentIsDurable, Keeps, Truthful, OncePerAction
<1>4. \A r \in Runners : MemoryInv(run[r]) /\ SubmitInv(run[r])
  BY FreshInvocation, IdleIsRunner DEF Init
<1> QED
  BY <1>1, <1>2, <1>3, <1>4 DEF IInv

\* One step per action; the invariant is inductive.
LEMMA NextInv == IInv /\ [Next]_vars => IInv'
<1> SUFFICES ASSUME IInv, [Next]_vars
             PROVE  IInv'
  OBVIOUS
<1>1. ASSUME NEW r \in Runners, Step(r)
      PROVE  IInv'
  BY <1>1, ReadReceiptInv, PreflightInv, ReconcileOneInv, ReconcileEndInv, StopsEarlyInv,
     SaveOpenInv, SaveRenameInv, SaveSyncInv, PrepareInv, SignInv, SendInv, SettleInv, ExitInv
     DEF Step
<1>2. CASE Operator
  BY <1>2, AcquireInv, ExitInv, PowerFailureInv, WriteBackInv, RemoveStaleInv DEF Operator
<1>3. CASE Chain
  BY <1>3, TransactionMoves, TicketMoves DEF Chain
<1>4. CASE UNCHANGED vars
  <2>1. UNCHANGED <<run, fileVars, chainVars, sent>>
    BY <1>4 DEF vars
  <2> QED
    BY <2>1, EndInv DEF IInv, TypeOK, fileVars
<1> QED
  BY <1>1, <1>2, <1>3, <1>4 DEF Next

\* The strengthened invariant holds in every reachable state.
THEOREM Invariance == Spec => []IInv
  BY InitInv, NextInv, PTL DEF Spec

\* Every variable keeps its type: in particular what submitSmokeOnce pushes is a
\* well-formed record of a transacting action.
THEOREM TypeCorrect == Spec => []TypeOK
<1>1. IInv => TypeOK
  BY DEF IInv
<1> QED
  BY <1>1, Invariance, PTL

\* The exclusive .lock admits one invocation at a time, whatever is killed and
\* whenever the machine fails.
THEOREM LockExcludes == Spec => []OneRunner
<1>1. IInv => OneRunner
  BY DEF IInv
<1> QED
  BY <1>1, Invariance, PTL

\* What was sent is in every version of the receipt a failure may leave.
THEOREM Durability == Spec => []SentIsDurable
<1>1. IInv => SentIsDurable
  BY DEF IInv
<1> QED
  BY <1>1, Invariance, PTL

\* No action is ever sent with two signatures.
THEOREM AtMostOnce == Spec => []SentOnce
<1>1. IInv => SentOnce
  <2> SUFFICES ASSUME IInv, NEW x \in sent, NEW y \in sent, x[1] = y[1]
               PROVE  x = y
    BY DEF SentOnce
  <2>1. Holds(receipt, x) /\ Holds(receipt, y) /\ OncePerAction(receipt)
    BY DEF IInv, SentIsDurable, FilesInv
  <2>2. x[2] = y[2]
    BY <2>1 DEF Holds, OncePerAction
  <2>3. x \in SmokeAction \X Sigs /\ y \in SmokeAction \X Sigs
    BY DEF IInv, TypeOK
  <2> QED
    BY <2>2, <2>3
<1> QED
  BY <1>1, Invariance, PTL

\* A record that says confirmed tells the truth about the chain: its transaction succeeded, and its
\* event is the one the transaction had.  (Nothing is said of a record that says failed.)
THEOREM ConfirmedTruth == Spec => []ConfirmedIsTrue
<1>1. IInv => ConfirmedIsTrue
  BY DEF IInv, FilesInv, ConfirmedIsTrue
<1> QED
  BY <1>1, Invariance, PTL

\* No version of the receipt drops or replaces a record of an earlier one.
THEOREM NothingIsLost == Spec => AppendOnly
<1>1. IInv /\ [Next]_vars =>
        [\A later \in onDisk' : \E recs \in onDisk : Keeps(recs, later)]_onDisk
  <2> SUFFICES ASSUME IInv, [Next]_vars, onDisk' # onDisk, NEW later \in onDisk'
               PROVE  \E recs \in onDisk : Keeps(recs, later)
    OBVIOUS
  <2>1. receipt \in onDisk /\ receipt \in Seq(SmokeRecord) /\ onDisk \in SUBSET Seq(SmokeRecord)
    BY DEF IInv, FilesInv, TypeOK
  <2>2. \/ later \in onDisk
        \/ \E r \in Runners : run[r].stage = "saveRename" /\ later = run[r].recs
    <3>1. CASE \E r \in Runners : SaveRename(r)
      BY <3>1 DEF SaveRename
    <3>2. CASE \E r \in Runners : SaveSync(r)
      BY <2>1, <3>2 DEF SaveSync
    <3>3. CASE PowerFailure \/ WriteBack
      <4>1. \/ receipt' \in onDisk /\ onDisk' = {receipt'}
            \/ onDisk' = {receipt}
        BY <3>3 DEF PowerFailure, WriteBack
      <4> QED
        BY <2>1, <4>1
    <3>4. ASSUME NEW r \in Runners, Step(r), ~SaveRename(r), ~SaveSync(r)
          PROVE  onDisk' = onDisk
      BY <3>4 DEF Step, ReadReceipt, Preflight, ReconcileOne, ReconcileEnd, StopsEarly, SaveOpen,
         SaveFails, Prepare, Sign, Send, Settle, Exit, fileVars
    <3>5. CASE Operator /\ ~PowerFailure /\ ~WriteBack
      BY <3>5 DEF Operator, Acquire, Crash, RemoveStaleLock, RemoveStaleTmp, fileVars
    <3>6. CASE Chain
      BY <3>6 DEF Chain, Process, Abandon, Expire, Confirm, KeeperSettles, WalletActivity, fileVars
    <3>7. CASE UNCHANGED vars
      BY <3>7 DEF vars, fileVars
    <3> QED
      BY <3>1, <3>2, <3>3, <3>4, <3>5, <3>6, <3>7 DEF Next
  <2>3. CASE later \in onDisk
    BY <2>1, <2>3, KeepsItself
  <2>4. CASE \E r \in Runners : run[r].stage = "saveRename" /\ later = run[r].recs
    BY <2>1, <2>4 DEF IInv, MemoryInv, HoldsRecords
  <2> QED
    BY <2>2, <2>3, <2>4
<1> QED
  BY <1>1, Invariance, PTL DEF Spec, AppendOnly

\* A transaction is sent only when everything sent before it has gone through.
THEOREM OneAtATime == Spec => EarlierResolved
<1>1. IInv /\ [Next]_vars =>
        [\A x \in sent' \ sent, y \in sent : Succeeded(y[2])]_sent
  <2> SUFFICES ASSUME IInv, [Next]_vars, sent' # sent,
                      NEW x \in sent' \ sent, NEW y \in sent
               PROVE  Succeeded(y[2])
    OBVIOUS
  <2>1. PICK r \in Runners : Send(r)
    <3>1. ASSUME NEW r \in Runners, Step(r), ~Send(r)
          PROVE  sent' = sent
      BY <3>1 DEF Step, ReadReceipt, Preflight, ReconcileOne, ReconcileEnd, StopsEarly, SaveOpen,
         SaveRename, SaveSync, SaveFails, Prepare, Sign, Settle, Exit
    <3>2. CASE Operator
      BY <3>2 DEF Operator, Acquire, Crash, PowerFailure, WriteBack, RemoveStaleLock, RemoveStaleTmp
    <3>3. CASE Chain
      BY <3>3 DEF Chain, Process, Abandon, Expire, Confirm, KeeperSettles, WalletActivity
    <3>4. CASE UNCHANGED vars
      BY <3>4 DEF vars
    <3> QED
      BY SMTT(30), <3>1, <3>2, <3>3, <3>4 DEF Next, Step
  <2>2. PICK recs, last : recs = run[r].recs /\ last = Len(recs)
    OBVIOUS
  <2>3. /\ run[r] \in Runner
        /\ run[r].stage = "send"
        /\ MemoryInv(run[r])
        /\ SubmitInv(run[r])
        /\ x = <<run[r].command, recs[last].sig>>
    BY <2>1, <2>2 DEF Send, IInv, TypeOK
  <2>4. /\ recs \in Seq(SmokeRecord)
        /\ recs[last].action = run[r].command
        /\ \A i \in 1 .. last - 1 : recs[i].status = "confirmed"
        /\ Truthful(recs)
        /\ onDisk = {recs}
    BY <2>2, <2>3 DEF Runner, SubmitInv, Reaches, MemoryInv, HoldsRecords
  <2>5. PICK i \in DOMAIN recs : recs[i].action = y[1] /\ recs[i].sig = y[2]
    BY <2>4 DEF IInv, SentIsDurable, Holds
  <2>6. i # last
    <3>1. y \in SmokeAction \X Sigs
      BY DEF IInv, TypeOK
    <3> QED
      BY <2>3, <2>4, <2>5, <3>1
  <2>7. recs[i].status = "confirmed"
    BY <2>2, <2>4, <2>5, <2>6
  <2> QED
    BY <2>4, <2>5, <2>7 DEF Truthful
<1> QED
  BY <1>1, Invariance, PTL DEF Spec, EarlierResolved
-----------------------------------------------------------------------------
(***************************************************************************)
(* The promise: what is journaled, handed over and succeeded.              *)
(***************************************************************************)
\* The submissions of a receipt, and that the chain has them as it does.
Pairs(recs) == {x \in SmokeAction \X Sigs : Holds(recs, x)}

Known(recs) ==
  \A i \in DOMAIN recs : recs[i].sig # None =>
    tx[recs[i].sig].level # "unborn" /\ tx[recs[i].sig].action = recs[i].action

\* An invocation has in memory what the receipt has and at most the one submission that it is
\* about; and while it signs and saves that one, every other is durable.
ProgressInv(n) ==
  HoldsRecords(n) =>
    /\ Known(n.recs)
    /\ Pairs(n.recs) \subseteq Pairs(receipt) \cup
         (IF Reaches(n, "send") THEN {<<n.command, n.recs[Len(n.recs)].sig>>} ELSE {})
    /\ n.stage = "sign" \/ (Reaches(n, "send") /\ n.stage # "saveSync") => Pairs(receipt) \subseteq Journaled

\* What the chain has was sent, and at most one submission of the receipt is not durable.
PromiseInv ==
  /\ \A s \in Sigs : tx[s].level \notin {"unborn", "signed"} => <<tx[s].action, s>> \in sent
  /\ Known(receipt)
  /\ \A x, y \in Pairs(receipt) \ Journaled : x = y
  /\ \A r \in Runners : ProgressInv(run[r])

\* What every version of the receipt holds, the visible one does; and one that keeps another
\* holds what that one does.
LEMMA PairsKept ==
  ASSUME NEW a \in Seq(SmokeRecord), NEW b \in Seq(SmokeRecord), Keeps(a, b)
  PROVE  Pairs(a) \subseteq Pairs(b)
BY KeepsHolds DEF Pairs

LEMMA JournaledIsHeld ==
  ASSUME IInv
  PROVE  /\ Journaled \subseteq Pairs(receipt)
         /\ \A recs \in onDisk : Journaled \subseteq Pairs(recs) /\ Pairs(recs) \subseteq Pairs(receipt)
BY PairsKept DEF IInv, FilesInv, TypeOK, Journaled, Pairs

\* Records that differ in neither action nor signature are the same submissions.
LEMMA SameSubmissions ==
  ASSUME NEW a, NEW b, DOMAIN a = DOMAIN b,
         \A i \in DOMAIN a : a[i].action = b[i].action /\ a[i].sig = b[i].sig
  PROVE  Pairs(a) = Pairs(b) /\ (Known(a) <=> Known(b))
BY DEF Pairs, Holds, Known

\* Two submissions of a receipt that share the action or the signature are one.
LEMMA PairsDiffer ==
  ASSUME NEW recs, OncePerAction(recs), Known(recs), NEW x \in Pairs(recs), NEW y \in Pairs(recs),
         x[1] = y[1] \/ x[2] = y[2]
  PROVE  x = y
<1>1. PICK i \in DOMAIN recs : recs[i].action = x[1] /\ recs[i].sig = x[2]
  BY DEF Pairs, Holds
<1>2. PICK j \in DOMAIN recs : recs[j].action = y[1] /\ recs[j].sig = y[2]
  BY DEF Pairs, Holds
<1>3. x \in SmokeAction \X Sigs /\ y \in SmokeAction \X Sigs
  BY DEF Pairs
<1>4. recs[i].sig # None /\ recs[j].sig # None
  BY <1>1, <1>2, <1>3, SmokeAssumption
<1>5. x[1] = y[1]
  BY <1>1, <1>2, <1>4 DEF Known
<1>6. i = j
  BY <1>1, <1>2, <1>5 DEF OncePerAction
<1> QED
  BY <1>1, <1>2, <1>3, <1>5, <1>6

\* A step of one invocation that leaves files, chain and network alone.
LEMMA LocalPromise ==
  ASSUME IInv, PromiseInv, NEW r \in Runners, Alive(r), NEW n, run' = [run EXCEPT ![r] = n],
         UNCHANGED <<receipt, onDisk, tx, sent>>, ProgressInv(n)
  PROVE  PromiseInv'
<1>1. \A q \in Runners : run'[q] = n \/ run'[q] = run[q]
  BY DEF IInv, TypeOK
<1>2. \A q \in Runners : ProgressInv(run'[q])
  BY <1>1 DEF PromiseInv
<1>3. Known(receipt)' /\ Pairs(receipt)' = Pairs(receipt) /\ Journaled' = Journaled
  BY DEF PromiseInv, Known, Pairs, Holds, Journaled
<1>4. \A q \in Runners : ProgressInv(run[q])'
  BY <1>2 DEF ProgressInv, HoldsRecords, Reaches, Saving, Known, Pairs, Holds, Journaled
<1> QED
  BY <1>3, <1>4 DEF PromiseInv

\* One that ends with nothing in memory has nothing to answer for.
LEMMA NothingHeld ==
  ASSUME NEW n, n.stage \in {"idle", "read", "exit"}
  PROVE  ProgressInv(n)
BY DEF ProgressInv, HoldsRecords
\* The steps of main() and of save() that only move the invocation.
LEMMA MovesPromise ==
  ASSUME IInv, PromiseInv, NEW r \in Runners,
         \/ ReadReceipt(r) \/ Preflight(r) \/ ReconcileEnd(r) \/ StopsEarly(r)
         \/ SaveOpen(r) \/ SaveFails(r) \/ Settle(r) \/ Exit(r)
  PROVE  PromiseInv'
<1>0. /\ run[r] \in Runner /\ Alive(r) /\ ProgressInv(run[r]) /\ SubmitInv(run[r])
      /\ UNCHANGED <<receipt, onDisk, tx, sent>>
  BY DEF IInv, TypeOK, PromiseInv, Alive, ReadReceipt, Preflight, ReconcileEnd, StopsEarly, SaveOpen,
         SaveFails, Settle, Exit, fileVars, chainVars
<1>1. CASE ReadReceipt(r)
  <2> DEFINE n == [run[r] EXCEPT !.stage = "preflight", !.recs = receipt]
  <2>1. n.stage = "preflight" /\ n.recs = receipt /\ run' = [run EXCEPT ![r] = n]
    BY <1>0, <1>1 DEF ReadReceipt, Runner
  <2> HIDE DEF n
  <2>2. ProgressInv(n)
    BY <2>1 DEF ProgressInv, PromiseInv, Reaches, Saving
  <2> QED
    BY <1>0, <2>1, <2>2, LocalPromise
<1>2. CASE Preflight(r) \/ ReconcileEnd(r) \/ Settle(r)
  <2>1. PICK n : /\ run' = [run EXCEPT ![r] = n] /\ n.recs = run[r].recs
                 /\ n.stage = "reconcile" \/ (n.stage = "saveOpen" /\ n.ret \in {"gate", "exit"})
    <3>1. CASE Preflight(r)
      <4> DEFINE n == [run[r] EXCEPT !.stage = "reconcile", !.ret = "gate", !.k = 1,
                         !.snapTicket = IF run[r].command = "status" THEN None ELSE ticket,
                         !.snapSettled = IF run[r].command = "status" THEN FALSE ELSE settled]
      <4>1. run' = [run EXCEPT ![r] = n] /\ n.stage = "reconcile" /\ n.recs = run[r].recs
        BY <1>0, <3>1 DEF Preflight, Runner
      <4> QED
        BY <4>1
    <3>3. CASE Settle(r)
      <4> DEFINE n == [run[r] EXCEPT !.stage = "reconcile", !.ret = "exit", !.k = 1]
      <4>1. run' = [run EXCEPT ![r] = n] /\ n.stage = "reconcile" /\ n.recs = run[r].recs
        BY <1>0, <3>3 DEF Settle, Runner
      <4> QED
        BY <4>1
    <3>2. CASE ReconcileEnd(r)
      <4> DEFINE n == [run[r] EXCEPT !.stage = "saveOpen", !.recs = run[r].recs,
                         !.ret = IF run[r].command = "status" THEN "exit" ELSE run[r].ret]
      <4>1. run' = [run EXCEPT ![r] = n] /\ run[r].ret \in {"gate", "exit"}
        BY <1>0, <3>2 DEF ReconcileEnd, CallSave, SubmitInv
      <4>2. n.recs = run[r].recs /\ n.stage = "saveOpen" /\ n.ret \in {"gate", "exit"}
        BY <1>0, <4>1 DEF Runner
      <4> HIDE DEF n
      <4> QED
        BY <4>1, <4>2
    <3> QED
      BY <1>2, <3>1, <3>2, <3>3
  <2>2. run[r].stage \in {"preflight", "reconcile", "settle"}
    BY <1>2 DEF Preflight, ReconcileEnd, Settle
  <2>3. ProgressInv(n)
    BY <1>0, <2>1, <2>2 DEF ProgressInv, HoldsRecords, Reaches, Saving
  <2> QED
    BY <1>0, <2>1, <2>3, LocalPromise
<1>3. CASE SaveOpen(r)
  <2> DEFINE n == [run[r] EXCEPT !.stage = "saveRename"]
  <2>1. /\ n.stage = "saveRename" /\ n.recs = run[r].recs /\ n.ret = run[r].ret
        /\ n.command = run[r].command
        /\ run[r].stage = "saveOpen" /\ run' = [run EXCEPT ![r] = n]
    BY <1>0, <1>3 DEF SaveOpen, Goto, Runner
  <2> HIDE DEF n
  <2>2. ProgressInv(n)
    BY <1>0, <2>1 DEF ProgressInv, HoldsRecords, Reaches, Saving
  <2> QED
    BY <1>0, <2>1, <2>2, LocalPromise
<1>4. CASE StopsEarly(r) \/ SaveFails(r)
  <2> DEFINE n == [run[r] EXCEPT !.stage = "exit"]
  <2>1. n.stage = "exit" /\ run' = [run EXCEPT ![r] = n]
    BY <1>0, <1>4 DEF StopsEarly, SaveFails, Goto, Runner
  <2> HIDE DEF n
  <2>2. ProgressInv(n)
    BY <2>1, NothingHeld
  <2> QED
    BY <1>0, <2>1, <2>2, LocalPromise
<1>5. CASE Exit(r)
  <2>1. run' = [run EXCEPT ![r] = Idle]
    BY <1>5 DEF Exit
  <2>2. ProgressInv(Idle)
    BY IdleIsRunner, NothingHeld
  <2> QED
    BY <1>0, <2>1, <2>2, LocalPromise
<1> QED
  BY <1>1, <1>2, <1>3, <1>4, <1>5

\* A reconciled record is the record of the same submission.
LEMMA ReconcilePromise ==
  ASSUME IInv, PromiseInv, NEW r \in Runners, ReconcileOne(r)
  PROVE  PromiseInv'
<1>1. /\ run[r] \in Runner /\ Alive(r) /\ ProgressInv(run[r])
      /\ run[r].stage = "reconcile" /\ run[r].k \in DOMAIN run[r].recs
      /\ UNCHANGED <<receipt, onDisk, tx, sent>>
  BY DEF IInv, TypeOK, PromiseInv, Alive, ReconcileOne, fileVars, chainVars
<1>2. PICK recs, k : recs = run[r].recs /\ k = run[r].k
  OBVIOUS
<1>3. recs \in Seq(SmokeRecord) /\ k \in DOMAIN recs
  BY <1>1, <1>2 DEF Runner
<1>4. CASE recs[k].sig = None
  <2> DEFINE n == [run[r] EXCEPT !.k = k + 1]
  <2>1. n.stage = "reconcile" /\ n.recs = recs /\ run' = [run EXCEPT ![r] = n]
    BY <1>1, <1>2, <1>4 DEF ReconcileOne, Runner
  <2> HIDE DEF n
  <2>2. ProgressInv(n)
    BY <1>1, <1>2, <2>1 DEF ProgressInv, HoldsRecords, Reaches, Saving
  <2> QED
    BY <1>1, <2>1, <2>2, LocalPromise
<1>5. CASE recs[k].sig # None
  <2>1. PICK a \in Answers(recs[k].sig), found \in BOOLEAN :
          run' = [run EXCEPT ![r] = [run[r] EXCEPT !.k = k + 1,
                    !.recs = [recs EXCEPT ![k] = Reconciled(recs[k], a, found)]]]
    BY <1>2, <1>5 DEF ReconcileOne
  <2>2. PICK rec : rec = Reconciled(recs[k], a, found)
    OBVIOUS
  <2>3. rec.action = recs[k].action /\ rec.sig = recs[k].sig
    <3>1. recs[k] \in SmokeRecord
      BY <1>3
    <3> QED
      BY <2>2, <3>1 DEF Reconciled, SmokeRecord
  <2>4. PICK new : new = [recs EXCEPT ![k] = rec]
    OBVIOUS
  <2>5. DOMAIN new = DOMAIN recs
        /\ \A i \in DOMAIN recs : new[i].action = recs[i].action /\ new[i].sig = recs[i].sig
    BY <1>3, <2>3, <2>4
  <2> DEFINE n == [run[r] EXCEPT !.k = k + 1, !.recs = new]
  <2>6. n.stage = "reconcile" /\ n.recs = new /\ run' = [run EXCEPT ![r] = n]
    BY <1>1, <2>1, <2>2, <2>4 DEF Runner
  <2> HIDE DEF n
  <2>7. Pairs(new) = Pairs(recs) /\ (Known(new) <=> Known(recs))
    BY <2>5, SameSubmissions
  <2>8. ProgressInv(n)
    BY <1>1, <1>2, <2>6, <2>7 DEF ProgressInv, HoldsRecords, Reaches, Saving
  <2> QED
    BY <1>1, <2>6, <2>8, LocalPromise
<1> QED
  BY <1>4, <1>5

\* The record that is pushed has no signature yet.
LEMMA PreparePromise ==
  ASSUME IInv, PromiseInv, NEW r \in Runners, Prepare(r)
  PROVE  PromiseInv'
<1> DEFINE record == [action |-> run[r].command, sig |-> None, status |-> "prepared", ev |-> None]
           new == Append(run[r].recs, record)
           n == [Idle EXCEPT !.stage = "saveOpen", !.ret = "sign", !.command = run[r].command,
                             !.recs = new]
<1>1. /\ run[r] \in Runner /\ Alive(r) /\ ProgressInv(run[r]) /\ run[r].stage = "gate"
      /\ UNCHANGED <<receipt, onDisk, tx, sent>> /\ run' = [run EXCEPT ![r] = n]
  BY DEF IInv, TypeOK, PromiseInv, Alive, Prepare, fileVars, chainVars
<1>2. n.stage = "saveOpen" /\ n.ret = "sign" /\ n.recs = new
  BY DEF Idle
<1>3. PICK recs : recs = run[r].recs /\ recs \in Seq(SmokeRecord)
  BY <1>1 DEF Runner
<1>4. /\ \A i \in DOMAIN new : i \in DOMAIN recs \/ new[i].sig = None
      /\ \A i \in DOMAIN recs : i \in DOMAIN new /\ new[i] = recs[i]
  <2>1. record.sig = None
    OBVIOUS
  <2>2. Len(new) = Len(recs) + 1 /\ DOMAIN new = 1 .. Len(recs) + 1 /\ DOMAIN recs = 1 .. Len(recs)
        /\ new[Len(recs) + 1] = record /\ \A i \in 1 .. Len(recs) : new[i] = recs[i]
    BY <1>3
  <2> HIDE DEF record, new
  <2> QED
    BY <2>1, <2>2
<1> HIDE DEF new, n
<1>5. Pairs(new) \subseteq Pairs(recs) /\ (Known(recs) => Known(new))
  BY <1>4, SmokeAssumption DEF Pairs, Holds, Known
<1>6. ProgressInv(n)
  BY <1>1, <1>2, <1>3, <1>5 DEF ProgressInv, HoldsRecords, Reaches, Saving
<1> QED
  BY <1>1, <1>6, LocalPromise
\* A rename changes nothing of what every version holds.
LEMMA RenameJournals ==
  ASSUME IInv, NEW r \in Runners, SaveRename(r)
  PROVE  Journaled' = Journaled /\ Pairs(receipt) \subseteq Pairs(run[r].recs)
<1>1. /\ run[r] \in Runner /\ MemoryInv(run[r]) /\ run[r].stage = "saveRename"
      /\ onDisk' = onDisk \cup {run[r].recs} /\ receipt \in Seq(SmokeRecord)
  BY DEF IInv, TypeOK, SaveRename
<1>2. run[r].recs \in Seq(SmokeRecord) /\ Keeps(receipt, run[r].recs)
  BY <1>1 DEF Runner, MemoryInv, HoldsRecords
<1>3. Pairs(receipt) \subseteq Pairs(run[r].recs)
  BY <1>1, <1>2, PairsKept
<1>4. \A x \in Journaled : Holds(run[r].recs, x)
  BY <1>3, JournaledIsHeld DEF Pairs
<1>5. Journaled' = Journaled
  BY <1>1, <1>4 DEF Journaled, Holds
<1> QED
  BY <1>3, <1>5

LEMMA RenamePromise ==
  ASSUME IInv, PromiseInv, NEW r \in Runners, SaveRename(r)
  PROVE  PromiseInv'
<1>0. PICK n : n = [run[r] EXCEPT !.stage = "saveSync"]
  OBVIOUS
<1>1. /\ run[r] \in Runner /\ ProgressInv(run[r]) /\ run[r].stage = "saveRename" /\ Alive(r)
      /\ receipt' = run[r].recs /\ UNCHANGED <<tx, sent>> /\ run' = [run EXCEPT ![r] = n]
  BY <1>0 DEF IInv, TypeOK, PromiseInv, SaveRename, Goto, Alive, chainVars
<1>2. n.stage = "saveSync" /\ n.recs = run[r].recs /\ run'[r] = n
  BY <1>0, <1>1 DEF Runner, IInv, TypeOK
<1>3. PICK recs : recs = run[r].recs
  OBVIOUS
<1>4. /\ Known(recs)
      /\ Pairs(recs) \subseteq Pairs(receipt) \cup
           (IF Reaches(run[r], "send") THEN {<<run[r].command, recs[Len(recs)].sig>>} ELSE {})
      /\ Reaches(run[r], "send") => Pairs(receipt) \subseteq Journaled
  BY <1>1, <1>3 DEF ProgressInv, HoldsRecords
<1>5. Journaled' = Journaled
  BY RenameJournals
<1>6. Known(receipt)' /\ Pairs(receipt)' = Pairs(recs) /\ Pairs(n.recs)' = Pairs(recs)
  <2>1. Known(receipt)'
    BY <1>1, <1>3, <1>4 DEF Known
  <2>2. Pairs(receipt)' = Pairs(recs)
    BY <1>1, <1>3 DEF Pairs, Holds
  <2>3. Pairs(n.recs)' = Pairs(recs)
    BY <1>1, <1>2, <1>3 DEF Pairs, Holds
  <2> QED
    BY <2>1, <2>2, <2>3
<1>7. \A x, y \in Pairs(recs) \ Journaled : x = y
  <2>1. CASE Reaches(run[r], "send")
    BY <1>4, <2>1
  <2>2. CASE ~Reaches(run[r], "send")
    BY <1>4, <2>2 DEF PromiseInv
  <2> QED
    BY <2>1, <2>2
<1>8. ASSUME NEW q \in Runners PROVE ProgressInv(run[q])'
  <2>1. CASE q = r
    BY <1>1, <1>2, <1>3, <1>4, <1>6, <2>1 DEF ProgressInv, Known
  <2>2. CASE q # r
    <3>1. run'[q].stage = "idle"
      BY <1>1, <2>2 DEF IInv, TypeOK, OneRunner, Alive
    <3> QED
      BY <3>1 DEF ProgressInv, HoldsRecords
  <2> QED
    BY <2>1, <2>2
<1> QED
  BY <1>1, <1>5, <1>6, <1>7, <1>8 DEF PromiseInv

\* A receipt that is the only version is what every version holds.
LEMMA OnlyVersion ==
  ASSUME NEW only, onDisk' = {only}
  PROVE  Journaled' = Pairs(only)
BY DEF Journaled, Pairs, Holds

LEMMA SyncPromise ==
  ASSUME IInv, PromiseInv, NEW r \in Runners, SaveSync(r)
  PROVE  PromiseInv'
<1>0. PICK n : n = [run[r] EXCEPT !.stage = run[r].ret]
  OBVIOUS
<1>1. /\ run[r] \in Runner /\ ProgressInv(run[r]) /\ run[r].stage = "saveSync" /\ Alive(r)
      /\ receipt = run[r].recs /\ UNCHANGED <<receipt, tx, sent>> /\ run' = [run EXCEPT ![r] = n]
      /\ onDisk' = {receipt}
  BY <1>0 DEF IInv, TypeOK, PromiseInv, SaveSync, Goto, Alive, chainVars, MemoryInv
<1>2. n.recs = run[r].recs /\ run'[r] = n
  BY <1>0, <1>1 DEF Runner, IInv, TypeOK
<1>3. Journaled' = Pairs(receipt)
  BY <1>1, OnlyVersion
<1>4. Known(receipt)' /\ Pairs(receipt)' = Pairs(receipt) /\ Pairs(n.recs)' = Pairs(receipt)
      /\ Known(n.recs)'
  <2>1. Known(receipt)'
    BY <1>1 DEF PromiseInv, Known
  <2>2. Pairs(receipt)' = Pairs(receipt)
    BY <1>1 DEF Pairs, Holds
  <2>3. n.recs = receipt
    BY <1>1, <1>2
  <2>4. Pairs(n.recs)' = Pairs(receipt)
    BY <1>1, <2>3 DEF Pairs, Holds
  <2>5. Known(n.recs)'
    BY <1>1, <2>3 DEF PromiseInv, Known
  <2> QED
    BY <2>1, <2>2, <2>4, <2>5
<1>5. ASSUME NEW q \in Runners PROVE ProgressInv(run[q])'
  <2>1. CASE q = r
    BY <1>2, <1>3, <1>4, <2>1 DEF ProgressInv
  <2>2. CASE q # r
    <3>1. run'[q].stage = "idle"
      BY <1>1, <2>2 DEF IInv, TypeOK, OneRunner, Alive
    <3> QED
      BY <3>1 DEF ProgressInv, HoldsRecords
  <2> QED
    BY <2>1, <2>2
<1> QED
  BY <1>1, <1>3, <1>4, <1>5 DEF PromiseInv

LEMMA SignPromise ==
  ASSUME IInv, PromiseInv, NEW r \in Runners, Sign(r)
  PROVE  PromiseInv'
<1>1. /\ run[r] \in Runner /\ run[r].stage = "sign" /\ ProgressInv(run[r])
      /\ SubmitInv(run[r]) /\ Alive(r) /\ UNCHANGED <<receipt, onDisk, sent>>
      /\ tx \in [Sigs -> Transaction]
  BY DEF Sign, IInv, TypeOK, PromiseInv, Alive, fileVars
<1>2. PICK recs, last : recs = run[r].recs /\ last = Len(recs)
  OBVIOUS
<1>3. /\ recs \in Seq(SmokeRecord) /\ recs # <<>> /\ run[r].command \in SmokeAction
      /\ recs[last].action = run[r].command /\ recs[last].sig = None
  BY <1>1, <1>2 DEF Runner, SubmitInv, Reaches
<1>4. last \in DOMAIN recs /\ recs[last] \in SmokeRecord
  BY <1>2, <1>3
<1>5. PICK s \in Sigs :
        /\ tx[s].level = "unborn"
        /\ tx' = [tx EXCEPT ![s] = [tx[s] EXCEPT !.action = run[r].command, !.level = "signed"]]
        /\ run' = [run EXCEPT ![r] = [run[r] EXCEPT !.stage = "saveOpen",
                     !.recs = [recs EXCEPT ![last] = [recs[last] EXCEPT !.sig = s,
                                                                        !.status = "signed"]],
                     !.ret = "send"]]
  BY <1>2 DEF Sign, CallSave
<1>6. PICK rec : rec = [recs[last] EXCEPT !.sig = s, !.status = "signed"]
  OBVIOUS
<1>7. rec \in SmokeRecord /\ rec.action = run[r].command /\ rec.sig = s
  BY <1>3, <1>4, <1>6 DEF SmokeRecord, Status
<1>8. PICK new : new = [recs EXCEPT ![last] = rec]
  OBVIOUS
<1>9. /\ Len(new) = last /\ DOMAIN new = DOMAIN recs /\ new[last] = rec
      /\ \A j \in DOMAIN recs : j # last => new[j] = recs[j]
  BY <1>2, <1>3, <1>4, <1>7, <1>8, ReplaceRecord
<1>10. PICK n : n = [run[r] EXCEPT !.stage = "saveOpen", !.recs = new, !.ret = "send"]
  OBVIOUS
<1>11. /\ run' = [run EXCEPT ![r] = n] /\ n.stage = "saveOpen" /\ n.ret = "send"
       /\ n.recs = new /\ n.command = run[r].command
  BY <1>1, <1>5, <1>6, <1>8, <1>10 DEF Runner
<1>12. /\ tx'[s].level = "signed" /\ tx'[s].action = run[r].command
       /\ \A u \in Sigs : u # s => tx'[u] = tx[u]
  BY <1>1, <1>5 DEF Transaction
<1>13. \A i \in DOMAIN recs : recs[i].sig # None => recs[i].sig # s /\ recs[i].sig \in Sigs
  <2>1. Known(recs)
    BY <1>1, <1>2 DEF ProgressInv, HoldsRecords
  <2> SUFFICES ASSUME NEW i \in DOMAIN recs, recs[i].sig # None
               PROVE  recs[i].sig # s /\ recs[i].sig \in Sigs
    OBVIOUS
  <2>2. recs[i] \in SmokeRecord
    BY <1>3
  <2>3. tx[recs[i].sig].level # "unborn"
    BY <2>1 DEF Known
  <2> QED
    BY <1>5, <2>2, <2>3 DEF SmokeRecord
<1>14. Known(new)'
  BY <1>1, <1>2, <1>3, <1>7, <1>9, <1>12, <1>13 DEF ProgressInv, HoldsRecords, Known
<1>15. Known(receipt)'
  <2>1. \A i \in DOMAIN receipt : receipt[i].sig # None =>
          receipt[i].sig \in Sigs /\ receipt[i].sig # s
    <3> SUFFICES ASSUME NEW i \in DOMAIN receipt, receipt[i].sig # None
                 PROVE  receipt[i].sig \in Sigs /\ receipt[i].sig # s
      OBVIOUS
    <3>1. receipt[i] \in SmokeRecord
      BY DEF IInv, TypeOK
    <3>2. tx[receipt[i].sig].level # "unborn"
      BY DEF PromiseInv, Known
    <3> QED
      BY <1>5, <3>1, <3>2 DEF SmokeRecord
  <2> QED
    BY <1>1, <1>12, <2>1 DEF PromiseInv, Known
<1>16. Pairs(new) \subseteq Pairs(receipt) \cup {<<run[r].command, new[Len(new)].sig>>}
  <2>1. Pairs(recs) \subseteq Pairs(receipt)
    BY <1>1, <1>2 DEF ProgressInv, HoldsRecords, Reaches, Saving
  <2>2. ASSUME NEW x \in Pairs(new), x # <<run[r].command, s>> PROVE x \in Pairs(recs)
    <3>1. PICK i \in DOMAIN new : new[i].action = x[1] /\ new[i].sig = x[2]
      BY DEF Pairs, Holds
    <3>2. x \in SmokeAction \X Sigs
      BY DEF Pairs
    <3>3. i # last
      BY <1>7, <1>9, <2>2, <3>1, <3>2
    <3> QED
      BY <1>9, <3>1, <3>2, <3>3 DEF Pairs, Holds
  <2> QED
    BY <1>7, <1>9, <2>1, <2>2
<1>17. Journaled' = Journaled /\ Pairs(receipt)' = Pairs(receipt) /\ Pairs(new)' = Pairs(new)
  BY <1>1 DEF Journaled, Pairs, Holds
<1>18. Pairs(receipt) \subseteq Journaled
  BY <1>1 DEF ProgressInv, HoldsRecords
<1>19. ASSUME NEW q \in Runners PROVE ProgressInv(run[q])'
  <2>1. CASE q = r
    <3>1. run'[q] = n
      BY <1>11, <2>1 DEF IInv, TypeOK
    <3> QED
      BY <1>11, <1>14, <1>16, <1>17, <1>18, <3>1 DEF ProgressInv, Reaches, Saving, Known
  <2>2. CASE q # r
    <3>1. run'[q].stage = "idle"
      BY <1>1, <1>11, <2>2 DEF IInv, TypeOK, OneRunner, Alive
    <3> QED
      BY <3>1 DEF ProgressInv, HoldsRecords
  <2> QED
    BY <2>1, <2>2
<1> QED
  BY <1>1, <1>12, <1>15, <1>17, <1>19 DEF PromiseInv
\* What the send of an invocation is about: the last record, everything before it confirmed,
\* and the receipt on the disk as it is in memory.
LEMMA AtSend ==
  ASSUME IInv, PromiseInv, NEW r \in Runners, Send(r),
         NEW recs, recs = run[r].recs, NEW s, s = recs[Len(recs)].sig
  PROVE  /\ recs \in Seq(SmokeRecord) /\ recs # <<>> /\ run[r].command \in SmokeAction /\ s \in Sigs
         /\ recs[Len(recs)].action = run[r].command /\ tx[s].level = "signed"
         /\ tx[s].action = run[r].command
         /\ \A i \in 1 .. Len(recs) - 1 : recs[i].status = "confirmed"
         /\ onDisk = {recs} /\ receipt = recs /\ Known(recs) /\ Truthful(recs)
<1>1. /\ run[r] \in Runner /\ run[r].stage = "send" /\ SubmitInv(run[r]) /\ MemoryInv(run[r])
      /\ ProgressInv(run[r]) /\ receipt \in onDisk
  BY DEF Send, IInv, TypeOK, PromiseInv, FilesInv
<1>2. /\ recs \in Seq(SmokeRecord) /\ recs # <<>> /\ run[r].command \in SmokeAction /\ s \in Sigs
      /\ recs[Len(recs)].action = run[r].command /\ tx[s].level = "signed"
      /\ \A i \in 1 .. Len(recs) - 1 : recs[i].status = "confirmed"
      /\ onDisk = {recs} /\ Truthful(recs)
  BY <1>1 DEF Runner, SubmitInv, Reaches, MemoryInv, HoldsRecords
<1>3. Known(recs)
  BY <1>1 DEF ProgressInv, HoldsRecords
<1>4. Len(recs) \in DOMAIN recs /\ s # None
  BY <1>2, SmokeAssumption
<1>5. tx[s].action = run[r].command
  BY <1>2, <1>3, <1>4 DEF Known
<1> QED
  BY <1>1, <1>2, <1>3, <1>5

LEMMA SendPromise ==
  ASSUME IInv, PromiseInv, NEW r \in Runners, Send(r)
  PROVE  PromiseInv'
<1>1. /\ run[r] \in Runner /\ run[r].stage = "send" /\ Alive(r) /\ UNCHANGED <<receipt, onDisk>>
      /\ tx \in [Sigs -> Transaction]
  BY DEF Send, IInv, TypeOK, Alive, fileVars
<1>2. PICK recs, last, s : recs = run[r].recs /\ last = Len(recs) /\ s = recs[last].sig
  OBVIOUS
<1>3. /\ recs \in Seq(SmokeRecord) /\ recs # <<>> /\ s \in Sigs /\ tx[s].level = "signed"
      /\ tx[s].action = run[r].command /\ onDisk = {recs} /\ receipt = recs /\ Known(recs)
  BY <1>2, AtSend
<1>4. last \in DOMAIN recs /\ recs[last] \in SmokeRecord
  BY SMTT(30), <1>2, <1>3
<1>5. PICK arrives \in BOOLEAN, throws \in BOOLEAN :
        /\ tx' = [tx EXCEPT ![s].level = IF arrives THEN "pending" ELSE @]
        /\ run' = [run EXCEPT ![r] = [run[r] EXCEPT !.stage = "saveOpen",
                     !.recs = [recs EXCEPT ![last] = [recs[last] EXCEPT !.status = "unknown"]],
                     !.ret = IF throws THEN "exit" ELSE "settle"]]
        /\ sent' = sent \cup {<<run[r].command, s>>}
  BY <1>2 DEF Send, CallSave
<1>6. PICK rec : rec = [recs[last] EXCEPT !.status = "unknown"]
  OBVIOUS
<1>7. rec.action = recs[last].action /\ rec.sig = recs[last].sig
  BY <1>4, <1>6 DEF SmokeRecord
<1>8. PICK new : new = [recs EXCEPT ![last] = rec]
  OBVIOUS
<1>9. DOMAIN new = DOMAIN recs
      /\ \A i \in DOMAIN recs : new[i].action = recs[i].action /\ new[i].sig = recs[i].sig
  BY <1>3, <1>4, <1>7, <1>8
<1>10. PICK n : n = [run[r] EXCEPT !.stage = "saveOpen", !.recs = new,
                                   !.ret = IF throws THEN "exit" ELSE "settle"]
  OBVIOUS
<1>11. /\ run' = [run EXCEPT ![r] = n] /\ n.stage = "saveOpen" /\ n.ret \in {"exit", "settle"}
       /\ n.recs = new
  BY <1>1, <1>5, <1>6, <1>8, <1>10 DEF Runner
<1>12. /\ \A u \in Sigs : tx'[u].action = tx[u].action /\ (u # s => tx'[u] = tx[u])
       /\ tx'[s].level \in {"signed", "pending"}
  BY <1>1, <1>3, <1>5 DEF Transaction
<1>13. Pairs(new) = Pairs(recs) /\ Known(new)
  BY <1>3, <1>9, SameSubmissions
<1>14. ASSUME NEW some \in Seq(SmokeRecord), Known(some) PROVE Known(some)'
  <2> SUFFICES ASSUME NEW i \in DOMAIN some, some[i].sig # None
               PROVE  tx'[some[i].sig].level # "unborn" /\ tx'[some[i].sig].action = some[i].action
    BY DEF Known
  <2>1. some[i] \in SmokeRecord
    OBVIOUS
  <2>2. some[i].sig \in Sigs
    BY <2>1 DEF SmokeRecord
  <2>3. tx[some[i].sig].level # "unborn" /\ tx[some[i].sig].action = some[i].action
    BY <1>14 DEF Known
  <2> QED
    BY <1>12, <2>2, <2>3
<1>15. new \in Seq(SmokeRecord)
  <2>1. rec \in SmokeRecord
    BY <1>4, <1>6 DEF SmokeRecord, Status
  <2> QED
    BY <1>3, <1>4, <1>8, <2>1, ReplaceRecord
<1>16. Known(new)' /\ Known(recs)'
  BY <1>3, <1>13, <1>14, <1>15
<1>17. Journaled' = Journaled /\ Pairs(receipt)' = Pairs(recs) /\ Pairs(new)' = Pairs(recs)
  <2>1. Journaled' = Journaled
    BY <1>1 DEF Journaled, Holds
  <2>2. Pairs(receipt)' = Pairs(recs)
    BY <1>1, <1>3 DEF Pairs, Holds
  <2>3. Pairs(new)' = Pairs(new)
    BY DEF Pairs, Holds
  <2> QED
    BY <1>13, <2>1, <2>2, <2>3
<1>18. ASSUME NEW q \in Runners PROVE ProgressInv(run[q])'
  <2>1. CASE q = r
    <3>1. run'[q] = n
      BY <1>11, <2>1 DEF IInv, TypeOK
    <3>2. Known(n.recs)' /\ Pairs(n.recs)' \subseteq Pairs(receipt)' /\ ~Reaches(n, "send")
          /\ n.stage # "sign"
      BY <1>11, <1>16, <1>17 DEF Reaches, Saving
    <3> QED
      BY <3>1, <3>2 DEF ProgressInv, Reaches, Saving
  <2>2. CASE q # r
    <3>1. run'[q].stage = "idle"
      BY <1>1, <1>11, <2>2 DEF IInv, TypeOK, OneRunner, Alive
    <3> QED
      BY <3>1 DEF ProgressInv, HoldsRecords
  <2> QED
    BY <2>1, <2>2
<1>19. Known(receipt)'
  BY <1>1, <1>3, <1>16 DEF Known
<1>20. \A u \in Sigs : tx'[u].level \notin {"unborn", "signed"} => <<tx'[u].action, u>> \in sent'
  BY <1>3, <1>5, <1>12 DEF PromiseInv
<1>21. \A x, y \in Pairs(receipt)' \ Journaled' : x = y
  BY <1>3, <1>17 DEF PromiseInv
<1> QED
  BY <1>18, <1>19, <1>20, <1>21 DEF PromiseInv

\* Invocations begin and end.
LEMMA EndPromise ==
  ASSUME IInv, PromiseInv, UNCHANGED <<tx, sent>>, receipt' \in onDisk,
         (UNCHANGED onDisk /\ receipt' = receipt) \/ onDisk' = {receipt'},
         \A q \in Runners : \/ run'[q].stage \in {"idle", "read"}
                            \/ (run'[q] = run[q] /\ receipt' = receipt)
  PROVE  PromiseInv'
<1>1. Journaled \subseteq Pairs(receipt) /\ Journaled \subseteq Pairs(receipt')
      /\ Pairs(receipt') \subseteq Pairs(receipt)
  BY JournaledIsHeld
<1>2. Known(receipt')
  <2>1. Keeps(receipt', receipt) /\ receipt' \in Seq(SmokeRecord) /\ receipt \in Seq(SmokeRecord)
        /\ Known(receipt)
    BY DEF IInv, FilesInv, TypeOK, PromiseInv
  <2> SUFFICES ASSUME NEW i \in DOMAIN receipt', receipt'[i].sig # None
               PROVE  tx[receipt'[i].sig].level # "unborn" /\ tx[receipt'[i].sig].action = receipt'[i].action
    BY DEF Known
  <2>2. i \in DOMAIN receipt /\ receipt[i].action = receipt'[i].action /\ receipt[i].sig = receipt'[i].sig
    BY <2>1 DEF Keeps
  <2> QED
    BY <2>1, <2>2 DEF Known
<1>3. Pairs(receipt)' = Pairs(receipt') /\ (Known(receipt)' <=> Known(receipt'))
  <2>1. Pairs(receipt)' = Pairs(receipt')
    BY DEF Pairs, Holds
  <2>2. Known(receipt)' <=> Known(receipt')
    BY DEF Known
  <2> QED
    BY <2>1, <2>2
<1>4. Journaled \subseteq Journaled' /\ (onDisk' = {receipt'} => Journaled' = Pairs(receipt'))
  <2>1. onDisk' = {receipt'} => Journaled' = Pairs(receipt')
    BY OnlyVersion
  <2>2. UNCHANGED onDisk => Journaled' = Journaled
    BY DEF Journaled, Holds
  <2> QED
    BY <1>1, <2>1, <2>2
<1>5. \A x, y \in Pairs(receipt)' \ Journaled' : x = y
  BY <1>1, <1>3, <1>4 DEF PromiseInv
<1>6. ASSUME NEW q \in Runners PROVE ProgressInv(run[q])'
  <2>1. CASE run'[q].stage \in {"idle", "read"}
    BY <2>1 DEF ProgressInv, HoldsRecords
  <2>2. CASE run'[q] = run[q] /\ receipt' = receipt
    <3>1. PICK n : n = run[q]
      OBVIOUS
    <3>2. ProgressInv(n) /\ run'[q] = n
      BY <2>2, <3>1 DEF PromiseInv
    <3>3. Pairs(n.recs)' = Pairs(n.recs) /\ (Known(n.recs)' <=> Known(n.recs)) /\ Pairs(receipt)' = Pairs(receipt)
      <4>1. Pairs(n.recs)' = Pairs(n.recs) /\ Pairs(receipt)' = Pairs(receipt)
        BY <2>2 DEF Pairs, Holds
      <4>2. Known(n.recs)' <=> Known(n.recs)
        BY DEF Known
      <4> QED
        BY <4>1, <4>2
    <3>4. ProgressInv(n)'
      BY <1>4, <3>2, <3>3 DEF ProgressInv, HoldsRecords, Reaches, Saving
    <3> QED
      BY <3>2, <3>4 DEF ProgressInv
  <2> QED
    BY <2>1, <2>2
<1> QED
  BY <1>2, <1>3, <1>5, <1>6 DEF PromiseInv
LEMMA OperatorPromise ==
  ASSUME IInv, PromiseInv, Operator
  PROVE  PromiseInv'
<1>1. run \in [Runners -> Runner] /\ receipt \in onDisk /\ Idle.stage = "idle"
  BY IdleIsRunner DEF IInv, TypeOK, FilesInv
<1>2. ASSUME NEW r \in Runners, NEW c \in Command, Acquire(r, c) PROVE PromiseInv'
  <2> DEFINE n == [Idle EXCEPT !.stage = "read", !.command = c]
  <2>1. /\ run' = [run EXCEPT ![r] = n] /\ UNCHANGED <<receipt, onDisk, tx, sent>>
    BY <1>2 DEF Acquire, chainVars
  <2>2. n.stage = "read"
    BY DEF Idle
  <2> HIDE DEF n
  <2>3. \A q \in Runners : run'[q] = n \/ run'[q] = run[q]
    BY <1>1, <2>1
  <2> QED
    BY <1>1, <2>1, <2>2, <2>3, EndPromise
<1>3. ASSUME NEW r \in Runners, Crash(r) PROVE PromiseInv'
  <2>1. /\ run' = [run EXCEPT ![r] = Idle] /\ UNCHANGED <<receipt, onDisk, tx, sent>>
    BY <1>3 DEF Crash, fileVars, chainVars
  <2>2. \A q \in Runners : run'[q] = Idle \/ run'[q] = run[q]
    BY <1>1, <2>1
  <2> QED
    BY <1>1, <2>1, <2>2, EndPromise
<1>4. CASE PowerFailure
  <2>1. /\ run' = [r \in Runners |-> Idle] /\ receipt' \in onDisk /\ onDisk' = {receipt'}
        /\ UNCHANGED <<tx, sent>>
    BY <1>4 DEF PowerFailure, chainVars
  <2>2. \A q \in Runners : run'[q].stage = "idle"
    BY <1>1, <2>1
  <2> QED
    BY <2>1, <2>2, EndPromise
<1>5. CASE WriteBack
  <2>1. onDisk' = {receipt} /\ UNCHANGED <<run, receipt, tx, sent>>
    BY <1>5 DEF WriteBack, chainVars
  <2> QED
    BY <1>1, <2>1, EndPromise
<1>6. CASE RemoveStaleLock \/ RemoveStaleTmp
  <2>1. UNCHANGED <<run, receipt, onDisk, tx, sent>>
    BY <1>6 DEF RemoveStaleLock, RemoveStaleTmp, chainVars
  <2> QED
    BY <1>1, <2>1, EndPromise
<1> QED
  BY <1>2, <1>3, <1>4, <1>5, <1>6 DEF Operator

\* What a transaction that was sent becomes on the chain.
LEMMA ChainSteps ==
  ASSUME IInv, Chain
  PROVE  /\ UNCHANGED <<run, fileVars, sent>>
         /\ \A s \in Sigs : /\ tx'[s].action = tx[s].action
                            /\ tx'[s].level # tx[s].level => /\ tx[s].level \notin {"unborn", "signed"}
                                                              /\ tx'[s].level \notin {"unborn", "signed"}
         /\ \A s \in Sigs : Succeeded(s) => Succeeded(s)'
         /\ \A s, u \in Sigs : tx'[s] # tx[s] /\ tx'[u] # tx[u] => s = u
         /\ \A s \in Sigs : Succeeded(s)' => Succeeded(s) \/ tx[s].level = "processed"
<1>0. tx \in [Sigs -> Transaction]
  BY DEF IInv, TypeOK
<1>1. ASSUME NEW s \in Sigs, Process(s) \/ Abandon(s) \/ Expire(s) \/ Confirm(s)
      PROVE  /\ UNCHANGED <<run, fileVars, sent>>
             /\ \A u \in Sigs : u # s => tx'[u] = tx[u]
             /\ tx'[s].action = tx[s].action
             /\ \/ tx[s].level \in {"pending", "processed"} /\ tx'[s].level \in {"pending", "processed", "expired"}
                \/ tx[s].level = "processed" /\ tx'[s].level = "confirmed"
  <2>0. tx[s] \in Transaction
    BY <1>0
  <2>1. CASE Process(s)
    BY <1>0, <2>0, <2>1 DEF Process, Transaction
  <2>2. CASE Abandon(s)
    BY <1>0, <2>0, <2>2 DEF Abandon, Transaction
  <2>3. CASE Expire(s)
    BY <1>0, <2>0, <2>3 DEF Expire, Transaction
  <2>4. CASE Confirm(s)
    <3>1. \/ tx' = [tx EXCEPT ![s].level = "confirmed"]
          \/ tx' = [tx EXCEPT ![s] = [tx[s] EXCEPT !.level = "confirmed", !.took = ticket]]
      BY <2>4 DEF Confirm
    <3>2. tx[s].level = "processed" /\ UNCHANGED <<run, fileVars, sent>>
      BY <2>4 DEF Confirm
    <3>3. PICK t : /\ tx' = [tx EXCEPT ![s] = t]
                   /\ \/ t = [tx[s] EXCEPT !.level = "confirmed"]
                      \/ t = [tx[s] EXCEPT !.level = "confirmed", !.took = ticket]
      BY <3>1
    <3>4. t.level = "confirmed" /\ t.action = tx[s].action
      BY <2>0, <3>3 DEF Transaction
    <3>5. tx'[s] = t /\ \A u \in Sigs : u # s => tx'[u] = tx[u]
      BY <1>0, <3>3
    <3> QED
      BY <3>2, <3>4, <3>5
  <2> QED
    BY <1>1, <2>1, <2>2, <2>3, <2>4
<1>2. ASSUME NEW s \in Sigs, Process(s) \/ Abandon(s) \/ Expire(s) \/ Confirm(s)
      PROVE  /\ UNCHANGED <<run, fileVars, sent>>
             /\ \A t \in Sigs : /\ tx'[t].action = tx[t].action
                                /\ tx'[t].level # tx[t].level => /\ tx[t].level \notin {"unborn", "signed"}
                                                                  /\ tx'[t].level \notin {"unborn", "signed"}
             /\ \A t \in Sigs : Succeeded(t) => Succeeded(t)'
             /\ \A t, u \in Sigs : tx'[t] # tx[t] /\ tx'[u] # tx[u] => t = u
             /\ \A t \in Sigs : Succeeded(t)' => Succeeded(t) \/ tx[t].level = "processed"
  BY <1>1, <1>2 DEF Succeeded
<1>3. CASE KeeperSettles \/ WalletActivity
  <2>1. UNCHANGED <<run, fileVars, tx, sent>>
    BY <1>3 DEF KeeperSettles, WalletActivity
  <2> QED
    BY <2>1 DEF Succeeded
<1> QED
  BY <1>2, <1>3 DEF Chain

LEMMA ChainPromise ==
  ASSUME IInv, PromiseInv, Chain
  PROVE  PromiseInv'
<1>1. /\ UNCHANGED <<run, receipt, onDisk, sent>>
      /\ \A s \in Sigs : /\ tx'[s].action = tx[s].action
                         /\ tx'[s].level # tx[s].level => tx[s].level \notin {"unborn", "signed"}
                                                           /\ tx'[s].level \notin {"unborn", "signed"}
  BY ChainSteps DEF fileVars
<1>2. ASSUME NEW recs \in Seq(SmokeRecord), Known(recs)
      PROVE  \A i \in DOMAIN recs : recs[i].sig # None =>
               tx'[recs[i].sig].level # "unborn" /\ tx'[recs[i].sig].action = recs[i].action
  <2> SUFFICES ASSUME NEW i \in DOMAIN recs, recs[i].sig # None
               PROVE  tx'[recs[i].sig].level # "unborn" /\ tx'[recs[i].sig].action = recs[i].action
    OBVIOUS
  <2>1. recs[i] \in SmokeRecord
    OBVIOUS
  <2>2. recs[i].sig \in Sigs
    BY <2>1 DEF SmokeRecord
  <2> QED
    BY <1>1, <1>2, <2>2 DEF Known
<1>3. Known(receipt)'
  BY <1>1, <1>2 DEF IInv, TypeOK, PromiseInv, Known
<1>4. Journaled' = Journaled /\ Pairs(receipt)' = Pairs(receipt)
  BY <1>1 DEF Journaled, Pairs, Holds
<1>5. ASSUME NEW q \in Runners PROVE ProgressInv(run[q])'
  <2>1. PICK n : n = run[q] /\ n \in Runner
    BY DEF IInv, TypeOK
  <2>2. n.recs \in Seq(SmokeRecord) /\ ProgressInv(n)
    BY <2>1 DEF Runner, PromiseInv
  <2>3. Known(n.recs) => Known(n.recs)'
    BY <1>2, <2>2 DEF Known
  <2>4. ProgressInv(n)'
    BY <1>4, <2>2, <2>3 DEF ProgressInv, HoldsRecords, Reaches, Saving, Pairs, Holds
  <2> QED
    BY <1>1, <2>1, <2>4
<1> QED
  BY <1>1, <1>3, <1>4, <1>5 DEF PromiseInv

LEMMA PromiseStart == Init => PromiseInv
<1> SUFFICES ASSUME Init PROVE PromiseInv
  OBVIOUS
<1>1. \A s \in Sigs : tx[s].level = "unborn"
  BY DEF Init, UnbornTx
<1>2. Known(receipt) /\ Pairs(receipt) = {}
  BY DEF Init, Known, Pairs, Holds
<1>3. \A r \in Runners : ProgressInv(run[r])
  BY IdleIsRunner, NothingHeld DEF Init
<1> QED
  BY <1>1, <1>2, <1>3 DEF PromiseInv

LEMMA PromiseSteps == IInv /\ PromiseInv /\ [Next]_vars => PromiseInv'
<1> SUFFICES ASSUME IInv, PromiseInv, [Next]_vars PROVE PromiseInv'
  OBVIOUS
<1>1. ASSUME NEW r \in Runners, Step(r) PROVE PromiseInv'
  BY <1>1, MovesPromise, ReconcilePromise, PreparePromise, RenamePromise, SyncPromise, SignPromise,
     SendPromise DEF Step
<1>2. CASE UNCHANGED vars
  BY <1>2 DEF vars, fileVars, chainVars, PromiseInv, Known, Pairs, Holds, Journaled, ProgressInv,
              HoldsRecords, Reaches, Saving
<1> QED
  BY <1>1, <1>2, OperatorPromise, ChainPromise DEF Next

LEMMA PromiseHolds == Spec => [](IInv /\ PromiseInv)
<1>1. Init => IInv /\ PromiseInv
  BY InitInv, PromiseStart
<1>2. IInv /\ PromiseInv /\ [Next]_vars => (IInv /\ PromiseInv)'
  BY NextInv, PromiseSteps
<1> QED
  BY <1>1, <1>2, PTL DEF Spec

\* What was resolved as a success was handed over before.
LEMMA ConfirmedWasSent ==
  ASSUME IInv, PromiseInv, NEW i \in DOMAIN receipt, receipt[i].status = "confirmed"
  PROVE  /\ receipt[i].sig \in Sigs /\ Succeeded(receipt[i].sig)
         /\ <<receipt[i].action, receipt[i].sig>> \in sent
<1>1. receipt[i].sig \in Sigs /\ Succeeded(receipt[i].sig)
  BY DEF IInv, FilesInv, Truthful
<1>2. tx[receipt[i].sig].action = receipt[i].action
  BY <1>1, SmokeAssumption DEF PromiseInv, Known
<1> QED
  BY <1>1, <1>2 DEF PromiseInv, Succeeded

\* smokeSummary calls the lifecycle complete only when the request and the claim that were sent
\* went through, and the claim consumed that request's ticket (mainnetSmoke.ts).
THEOREM CompleteTruth == Spec => []CompleteIsTrue
<1>1. IInv /\ PromiseInv => CompleteIsTrue
  <2> SUFFICES ASSUME IInv, PromiseInv, LifecycleComplete(receipt)
               PROVE  \E x, y \in sent : /\ x[1] = "request-withdraw" /\ Succeeded(x[2])
                                         /\ y[1] = "claim" /\ Succeeded(y[2])
                                         /\ tx[y[2]].took = x[2]
    BY DEF CompleteIsTrue
  <2>1. PICK ev \in Ticket : /\ ConfirmedEvent(receipt, "request-withdraw", ev)
                             /\ ConfirmedEvent(receipt, "claim", ev)
    BY DEF LifecycleComplete
  <2>2. PICK i \in DOMAIN receipt : /\ receipt[i].action = "request-withdraw"
                                    /\ receipt[i].status = "confirmed" /\ receipt[i].ev = ev
    BY <2>1 DEF ConfirmedEvent
  <2>3. PICK j \in DOMAIN receipt : /\ receipt[j].action = "claim"
                                    /\ receipt[j].status = "confirmed" /\ receipt[j].ev = ev
    BY <2>1 DEF ConfirmedEvent
  <2>4. receipt[i].ev = receipt[i].sig /\ receipt[j].ev = tx[receipt[j].sig].took
    BY <2>2, <2>3 DEF IInv, FilesInv, Truthful
  <2>5. PICK x, y : x = <<"request-withdraw", receipt[i].sig>> /\ y = <<"claim", receipt[j].sig>>
    OBVIOUS
  <2>6. x \in sent /\ y \in sent /\ Succeeded(x[2]) /\ Succeeded(y[2])
    BY <2>2, <2>3, <2>5, ConfirmedWasSent
  <2> QED
    BY <2>2, <2>3, <2>4, <2>5, <2>6
<1> QED
  BY <1>1, PromiseHolds, PTL

-----------------------------------------------------------------------------
(***************************************************************************)
(* The refinement: each step is one of SubmitOnce's or a stutter.          *)
(***************************************************************************)
LEMMA PromiseStutters ==
  ASSUME IInv, Journaled' = Journaled, sent' = sent,
         \A s \in Sigs : Succeeded(s)' <=> Succeeded(s)
  PROVE  UNCHANGED Promise!vars
<1>1. \A x \in sent : x[2] \in Sigs
  BY DEF IInv, TypeOK
<1>2. {x \in sent : Succeeded(x[2])}' = {x \in sent : Succeeded(x[2])}
  BY <1>1
<1> QED
  BY <1>2 DEF Promise!vars

\* A version that becomes the only one journals what it holds and the others did not.
LEMMA JournalGrows ==
  ASSUME IInv, PromiseInv, Journaled \subseteq Journaled', Journaled' \subseteq Pairs(receipt),
         UNCHANGED <<sent, tx>>
  PROVE  [Promise!Next]_Promise!vars
<1>1. CASE Journaled' = Journaled
  BY <1>1, PromiseStutters DEF Succeeded
<1>2. CASE Journaled' # Journaled
  <2>1. PICK x : x \in Journaled' /\ x \notin Journaled
    BY <1>2
  <2>2. x \in Pairs(receipt) /\ Journaled \subseteq Pairs(receipt)
    BY <2>1, JournaledIsHeld
  <2>3. PICK a \in SmokeAction, s \in Sigs : x = <<a, s>>
    BY <2>2 DEF Pairs
  <2>4. Journaled' = Journaled \cup {<<a, s>>}
    BY <2>1, <2>2, <2>3 DEF PromiseInv
  <2>5. \A y \in Journaled : y[1] # a /\ y[2] # s
    <3>1. OncePerAction(receipt) /\ Known(receipt)
      BY DEF IInv, FilesInv, PromiseInv
    <3> QED
      BY <2>1, <2>2, <2>3, <3>1, PairsDiffer
  <2>6. {y \in sent : Succeeded(y[2])}' = {y \in sent : Succeeded(y[2])}
    BY DEF Succeeded
  <2>7. Promise!Journal(a, s)
    BY <2>4, <2>5, <2>6 DEF Promise!Journal
  <2> QED
    BY <2>7 DEF Promise!Next
<1> QED
  BY <1>1, <1>2

\* The send hands over what is journaled, when all the rest of the journal has gone through.
LEMMA SendHands ==
  ASSUME IInv, PromiseInv, NEW r \in Runners, Send(r)
  PROVE  [Promise!Next]_Promise!vars
<1>1. PICK recs, last, a, s : /\ recs = run[r].recs /\ last = Len(recs) /\ a = run[r].command
                              /\ s = recs[last].sig
  OBVIOUS
<1>2. /\ recs \in Seq(SmokeRecord) /\ recs # <<>> /\ a \in SmokeAction /\ s \in Sigs
      /\ recs[last].action = a /\ tx[s].level = "signed"
      /\ \A i \in 1 .. last - 1 : recs[i].status = "confirmed"
      /\ onDisk = {recs} /\ receipt = recs
  BY <1>1, AtSend
<1>3. /\ sent' = sent \cup {<<a, s>>} /\ UNCHANGED onDisk
      /\ \E arrives \in BOOLEAN : tx' = [tx EXCEPT ![s].level = IF arrives THEN "pending" ELSE @]
  BY <1>1 DEF Send, fileVars
<1>4. tx \in [Sigs -> Transaction] /\ \A x \in sent : x \in SmokeAction \X Sigs
  BY DEF IInv, TypeOK
<1>5. \A u \in Sigs : Succeeded(u)' <=> Succeeded(u)
  BY <1>2, <1>3, <1>4 DEF Succeeded, Transaction
<1>6. Journaled' = Journaled /\ Journaled = Pairs(recs)
  BY <1>2, <1>3 DEF Journaled, Pairs, Holds
<1>7. CASE <<a, s>> \in sent
  BY <1>3, <1>5, <1>6, <1>7, PromiseStutters
<1>8. CASE <<a, s>> \notin sent
  <2>1. <<a, s>> \in Journaled
    <3>1. last \in DOMAIN recs
      BY <1>1, <1>2
    <3> QED
      BY <1>1, <1>2, <1>6, <3>1 DEF Pairs, Holds
  <2>2. ASSUME NEW y \in Journaled, y # <<a, s>>
        PROVE  y \in {x \in sent : Succeeded(x[2])}
    <3>1. PICK i \in DOMAIN recs : recs[i].action = y[1] /\ recs[i].sig = y[2]
      BY <1>6, <2>2 DEF Pairs, Holds
    <3>2. y \in SmokeAction \X Sigs
      BY <1>6, <2>2 DEF Pairs
    <3>3. i # last
      BY <1>1, <1>2, <2>2, <3>1, <3>2
    <3>4. recs[i].status = "confirmed"
      BY <1>1, <1>2, <3>1, <3>3
    <3> QED
      BY <1>2, <3>1, <3>2, <3>4, ConfirmedWasSent
  <2>3. {x \in sent : Succeeded(x[2])}' = {x \in sent : Succeeded(x[2])}
    <3>1. ~Succeeded(s)
      BY <1>2 DEF Succeeded
    <3> QED
      BY <1>2, <1>3, <1>4, <1>5, <3>1
  <2>4. Promise!Hand(a, s)
    BY <1>3, <1>6, <1>8, <2>1, <2>2, <2>3 DEF Promise!Hand
  <2> QED
    BY <1>2, <2>4 DEF Promise!Next
<1> QED
  BY <1>7, <1>8

\* A transaction that goes through is the success of the one submission it was signed for.
LEMMA ChainSucceeds ==
  ASSUME IInv, PromiseInv, Chain
  PROVE  [Promise!Next]_Promise!vars
<1>1. /\ sent' = sent /\ onDisk' = onDisk
      /\ \A s \in Sigs : Succeeded(s) => Succeeded(s)'
      /\ \A s, u \in Sigs : tx'[s] # tx[s] /\ tx'[u] # tx[u] => s = u
  BY ChainSteps DEF fileVars
<1>2. Journaled' = Journaled
  BY <1>1 DEF Journaled, Holds
<1>3. CASE \A x \in sent : Succeeded(x[2])' => Succeeded(x[2])
  <2>1. {x \in sent : Succeeded(x[2])}' = {x \in sent : Succeeded(x[2])}
    BY <1>1, <1>3 DEF IInv, TypeOK
  <2> QED
    BY <1>1, <1>2, <2>1 DEF Promise!vars
<1>4. CASE \E x \in sent : Succeeded(x[2])' /\ ~Succeeded(x[2])
  <2>1. PICK x \in sent : Succeeded(x[2])' /\ ~Succeeded(x[2])
    BY <1>4
  <2>2. PICK a \in SmokeAction, s \in Sigs : x = <<a, s>>
    BY DEF IInv, TypeOK
  <2>3. ASSUME NEW y \in sent, Succeeded(y[2])', ~Succeeded(y[2]) PROVE y = x
    <3>1. y \in SmokeAction \X Sigs /\ x \in SmokeAction \X Sigs
      BY DEF IInv, TypeOK
    <3>2. y[2] = x[2]
      BY <1>1, <2>1, <2>3, <3>1 DEF Succeeded
    <3>3. x \in Pairs(receipt) /\ y \in Pairs(receipt)
      BY <3>1 DEF IInv, SentIsDurable, FilesInv, Pairs
    <3>4. OncePerAction(receipt) /\ Known(receipt)
      BY DEF IInv, FilesInv, PromiseInv
    <3> QED
      BY <3>2, <3>3, <3>4, PairsDiffer
  <2>4. {y \in sent : Succeeded(y[2])}' = {y \in sent : Succeeded(y[2])} \cup {<<a, s>>}
    <3>1. \A y \in sent : Succeeded(y[2]) => Succeeded(y[2])'
      BY <1>1 DEF IInv, TypeOK
    <3> QED
      BY <1>1, <2>1, <2>2, <2>3, <3>1
  <2>5. <<a, s>> \in sent \ {y \in sent : Succeeded(y[2])}
    BY <2>1, <2>2
  <2>6. Promise!Succeed(a, s)
    BY <1>1, <1>2, <2>4, <2>5 DEF Promise!Succeed
  <2> QED
    BY <2>6 DEF Promise!Next
<1> QED
  BY <1>3, <1>4

\* The steps of main() that journal nothing.
LEMMA StepKeepsPromise ==
  ASSUME IInv, PromiseInv, NEW r \in Runners, Step(r)
  PROVE  [Promise!Next]_Promise!vars
<1>1. CASE Send(r)
  BY <1>1, SendHands
<1>2. CASE SaveSync(r)
  <2>1. onDisk' = {receipt} /\ UNCHANGED <<sent, tx>>
    BY <1>2 DEF SaveSync, chainVars
  <2>2. Journaled' = Pairs(receipt)
    BY <2>1, OnlyVersion
  <2> QED
    BY <2>1, <2>2, JournaledIsHeld, JournalGrows
<1>3. CASE SaveRename(r)
  <2>1. UNCHANGED <<sent, tx>>
    BY <1>3 DEF SaveRename, chainVars
  <2> QED
    BY <1>3, <2>1, RenameJournals, PromiseStutters DEF Succeeded
<1>4. CASE Sign(r)
  <2>1. PICK s \in Sigs : /\ tx[s].level = "unborn" /\ UNCHANGED <<sent, onDisk>>
                          /\ tx' = [tx EXCEPT ![s] = [tx[s] EXCEPT !.action = run[r].command,
                                                                   !.level = "signed"]]
    BY <1>4 DEF Sign, fileVars
  <2>2. \A u \in Sigs : Succeeded(u)' <=> Succeeded(u)
    BY <2>1 DEF Succeeded, IInv, TypeOK, Transaction
  <2>3. Journaled' = Journaled
    BY <2>1 DEF Journaled, Holds
  <2> QED
    BY <2>1, <2>2, <2>3, PromiseStutters
<1>5. CASE /\ ~Send(r) /\ ~SaveSync(r) /\ ~SaveRename(r) /\ ~Sign(r)
  <2>1. UNCHANGED <<sent, onDisk, tx>>
    BY <1>5 DEF Step, ReadReceipt, Preflight, ReconcileOne, ReconcileEnd, StopsEarly, SaveOpen,
       SaveFails, Prepare, Settle, Exit, fileVars, chainVars
  <2>2. Journaled' = Journaled
    BY <2>1 DEF Journaled, Holds
  <2> QED
    BY SMTT(30), <2>1, <2>2, PromiseStutters DEF Succeeded
<1> QED
  BY <1>1, <1>2, <1>3, <1>4, <1>5

LEMMA OperatorKeepsPromise ==
  ASSUME IInv, PromiseInv, Operator
  PROVE  [Promise!Next]_Promise!vars
<1>1. UNCHANGED <<sent, tx>>
  BY DEF Operator, Acquire, Crash, PowerFailure, WriteBack, RemoveStaleLock, RemoveStaleTmp, fileVars,
         chainVars
<1>2. CASE UNCHANGED onDisk
  <2>1. Journaled' = Journaled
    BY <1>2 DEF Journaled, Holds
  <2> QED
    BY <1>1, <2>1, PromiseStutters DEF Succeeded
<1>3. CASE PowerFailure \/ WriteBack
  <2>1. receipt' \in onDisk /\ onDisk' = {receipt'}
    BY <1>3 DEF PowerFailure, WriteBack, IInv, FilesInv
  <2>2. Journaled' = Pairs(receipt')
    BY <2>1, OnlyVersion
  <2>3. Journaled \subseteq Pairs(receipt') /\ Pairs(receipt') \subseteq Pairs(receipt)
    BY <2>1, JournaledIsHeld
  <2> QED
    BY <1>1, <2>2, <2>3, JournalGrows
<1>4. UNCHANGED onDisk \/ PowerFailure \/ WriteBack
  BY DEF Operator, Acquire, Crash, RemoveStaleLock, RemoveStaleTmp, fileVars
<1> QED
  BY <1>2, <1>3, <1>4

\* The runner implements SubmitOnce: an action is journaled with one signature that nothing else
\* has, handed over once it is durable, and only when everything journaled before it succeeded
\* (submitSmokeOnce, mainnetSmoke.ts; save, flp-mainnet-smoke.ts).
THEOREM PromiseKept == Spec => KeepsPromise
<1>1. Init => Promise!Init
  <2> SUFFICES ASSUME Init PROVE Promise!Init
    OBVIOUS
  <2>1. Journaled = {} /\ sent = {}
    BY DEF Init, Journaled, Holds
  <2> QED
    BY <2>1 DEF Promise!Init
<1>2. IInv /\ PromiseInv /\ [Next]_vars => [Promise!Next]_Promise!vars
  <2> SUFFICES ASSUME IInv, PromiseInv, [Next]_vars PROVE [Promise!Next]_Promise!vars
    OBVIOUS
  <2>1. CASE UNCHANGED vars
    <3>1. UNCHANGED <<sent, onDisk, tx>>
      BY <2>1 DEF vars, fileVars, chainVars
    <3>2. Journaled' = Journaled
      BY <3>1 DEF Journaled, Holds
    <3> QED
      BY <3>1, <3>2, PromiseStutters DEF Succeeded
  <2> QED
    BY <2>1, StepKeepsPromise, OperatorKeepsPromise, ChainSucceeds DEF Next
<1> QED
  BY <1>1, <1>2, PromiseHolds, PTL DEF Spec, KeepsPromise, Promise!Spec
=============================================================================
