---------------------------- MODULE SmokeJournal ----------------------------
(***************************************************************************)
(* The mainnet FLP smoke runner: bin/flp-mainnet-smoke.ts (main, save) and *)
(* flp/mainnetSmoke.ts (submitSmokeOnce, reconcileReceipt, the gates).     *)
(*                                                                         *)
(* Several invocations of the command line tool share one receipt file,    *)
(* its exclusive .lock and its .tmp.  Each invocation reads the receipt,   *)
(* reads the chain, reconciles the recorded signatures, and, when the      *)
(* operator asked for a transaction, journals it and sends it once.  An    *)
(* invocation can be killed between any two steps, the machine can lose    *)
(* power, every RPC call can fail or answer from a lagging node, and the   *)
(* chain moves by itself.                                                  *)
(***************************************************************************)
EXTENDS Naturals, Sequences, FiniteSets

CONSTANTS
  Runners,  \* invocations that may be alive at the same time
  Sigs,     \* transaction signatures
  None,     \* no signature, no ticket
  Foreign,  \* a withdrawal ticket that holds other activity of the wallet
  MaxVersions \* bound: an invocation starts with at most so many unsynced versions

ASSUME SmokeAssumption ==
  /\ None \notin Sigs
  /\ Foreign \notin Sigs
  /\ None # Foreign
  /\ MaxVersions \in Nat

VARIABLES
  run,      \* run[r]: the local state of invocation r
  lock,     \* the receipt's .lock file exists
  tmp,      \* the receipt's .tmp file exists
  receipt,  \* the records a reader of the receipt file sees now
  onDisk,   \* the versions of the receipt a power failure may leave behind
  tx,       \* tx[s]: what became of the transaction signed as s
  ticket,   \* the wallet's withdrawal ticket on chain (depositor.wd)
  settled,  \* the ticket's epoch is settled (epochRecord.wdStatus = 1)
  sent      \* history: the <<action, signature>> given to sendRawTransaction

fileVars  == <<lock, tmp, receipt, onDisk>>
chainVars == <<tx, ticket, settled>>
vars      == <<run, fileVars, chainVars, sent>>
-----------------------------------------------------------------------------
(***************************************************************************)
(* Data.                                                                   *)
(***************************************************************************)
SmokeAction == {"deposit", "request-withdraw", "claim"}

\* `confirmed' stands for `finalized' as well, of a record and of a transaction:
\* every test in the code accepts both.
Status      == {"prepared", "signed", "unknown", "confirmed", "failed"}
Ticket      == Sigs \cup {None, Foreign}

\* One record of the receipt.  `ev' stands for the parsed events: the ticket
\* the transaction created (a request) or consumed (a claim).
SmokeRecord == [action : SmokeAction, sig : Sigs \cup {None}, status : Status, ev : Ticket]

\* The command-line actions; `status' stands for preflight as well: both stop
\* after the first save.
Command == SmokeAction \cup {"status"}

\* How far the chain has taken a signature.
Level == {"unborn", "signed", "pending", "processed", "confirmed", "expired"}

Transaction == [action : SmokeAction \cup {"none"}, level : Level, err : BOOLEAN, took : Ticket]
UnbornTx    == [action |-> "none", level |-> "unborn", err |-> FALSE, took |-> None]

\* The transaction went through, and no fork can take it back.
Succeeded(s) == tx[s].level = "confirmed" /\ ~tx[s].err

Stage == {"idle", "read", "preflight", "reconcile", "gate", "sign", "send", "settle",
          "saveOpen", "saveRename", "saveSync", "exit"}

\* The local variables of main(): the stage it has reached, the stage that
\* follows the save or the reconciliation it is in, the records in memory, the
\* position in reconcileReceipt's loop, and the part of the preflight snapshot
\* the gates look at.
Runner ==
  [stage : Stage, ret : Stage, command : Command, recs : Seq(SmokeRecord), k : Nat,
   snapTicket : Ticket, snapSettled : BOOLEAN]

Idle == [stage |-> "idle", ret |-> "exit", command |-> "status", recs |-> <<>>, k |-> 1,
         snapTicket |-> None, snapSettled |-> FALSE]

Alive(r) == run[r].stage # "idle"
-----------------------------------------------------------------------------
(***************************************************************************)
(* The gates, as functions of the records in memory.                       *)
(***************************************************************************)

\* assertNoReplay does not throw.
NoReplay(recs, a) ==
  \A i \in DOMAIN recs : recs[i].action # a /\ recs[i].status = "confirmed"

\* confirmedEvent does not throw: `ev' is the event of the resolved record of a.
ConfirmedEvent(recs, a, ev) ==
  \E i \in DOMAIN recs : /\ recs[i].action = a
                         /\ recs[i].status = "confirmed"
                         /\ recs[i].ev = ev

\* buildSmokeAction does not throw.  The gates on approval, pauses, balances and
\* amounts are inputs this model does not vary: they can only end the run, and a
\* run may end at the gate for any reason (StopsEarly).
Eligible(n) ==
  /\ NoReplay(n.recs, n.command)
  /\ n.command = "deposit" => n.snapTicket = None
  /\ n.command = "request-withdraw" =>
       /\ \E ev \in Ticket : ConfirmedEvent(n.recs, "deposit", ev)
       /\ n.snapTicket = None
  /\ n.command = "claim" =>
       /\ ConfirmedEvent(n.recs, "request-withdraw", n.snapTicket)
       /\ n.snapSettled

\* A mutation: the claim's event is not compared with the request's.
LifecycleUnmatched(recs) ==
  \A a \in SmokeAction : \E ev \in Ticket : ConfirmedEvent(recs, a, ev)

\* smokeSummary: fullLifecycleComplete, for a request of all the minted shares.
LifecycleComplete(recs) ==
  /\ \E ev \in Ticket : ConfirmedEvent(recs, "deposit", ev)
  /\ \E ev \in Ticket : /\ ConfirmedEvent(recs, "request-withdraw", ev)
                        /\ ConfirmedEvent(recs, "claim", ev)
-----------------------------------------------------------------------------
(***************************************************************************)
(* What a read of the chain may answer.  A node may lag behind, so it may  *)
(* give an older answer; it does not invent one.                           *)
(***************************************************************************)
Answers(s) ==
  {"null"} \cup (CASE tx[s].level = "processed" -> {"processed"}
                   [] tx[s].level = "confirmed" -> {"processed", "confirmed"}
                   [] OTHER -> {})

\* Mutations of Reconciled: the level is looked at before the error; a processed
\* transaction is good enough.
ReconciledErrLast(rec, a, found) ==
  IF a = "confirmed" /\ found
  THEN [rec EXCEPT !.status = a,
                   !.ev = IF rec.action = "claim" THEN tx[rec.sig].took ELSE rec.sig]
  ELSE [rec EXCEPT !.status = IF a # "null" /\ tx[rec.sig].err THEN "failed" ELSE "unknown"]

ReconciledEarly(rec, a, found) ==
  IF a = "null" \/ ~found THEN [rec EXCEPT !.status = "unknown"]
  ELSE IF tx[rec.sig].err THEN [rec EXCEPT !.status = "failed"]
  ELSE [rec EXCEPT !.status = "confirmed",
                   !.ev = IF rec.action = "claim" THEN tx[rec.sig].took ELSE rec.sig]

\* The status and the event a record has after one iteration of
\* reconcileReceipt's loop: `a' is the answer of getSignatureStatuses, `found'
\* whether getTransaction returned the transaction and its logs.  An error is
\* looked at before the confirmation level is.
Reconciled(rec, a, found) ==
  LET t == tx[rec.sig]
      stays(st) == [rec EXCEPT !.status = st]
  IN  IF a = "null" THEN stays("unknown")
      ELSE IF t.err THEN stays("failed")
      ELSE IF a = "processed" \/ ~found THEN stays("unknown")
      ELSE [rec EXCEPT !.status = a,
                       !.ev = IF rec.action = "claim" THEN t.took ELSE rec.sig]

\* The event of a deposit or a request is named by its signature; requestId and
\* epoch are unique to the request.
-----------------------------------------------------------------------------
Init ==
  /\ run = [r \in Runners |-> Idle]
  /\ lock = FALSE
  /\ tmp = FALSE
  /\ receipt = <<>>
  /\ onDisk = {<<>>}
  /\ tx = [s \in Sigs |-> UnbornTx]
  /\ ticket = None
  /\ settled = FALSE
  /\ sent = {}

Goto(r, stage) == run' = [run EXCEPT ![r] = [@ EXCEPT !.stage = stage]]

\* The call of save() in invocation r, with the records it writes and the stage
\* it returns to.
CallSave(r, recs, ret) ==
  run' = [run EXCEPT ![r] = [@ EXCEPT !.stage = "saveOpen", !.recs = recs, !.ret = ret]]
-----------------------------------------------------------------------------
(***************************************************************************)
(* main() up to the first save.                                            *)
(***************************************************************************)

\* The operator starts an invocation; it creates the lock exclusively.  When the
\* lock exists the invocation throws before it has touched anything.  (Bounds: a
\* signature is left for a transaction, and the disk holds few versions.)
Acquire(r, c) ==
  /\ ~Alive(r)
  /\ ~lock
  /\ c \in SmokeAction => \E s \in Sigs : tx[s].level = "unborn"
  /\ Cardinality(onDisk) <= MaxVersions
  /\ lock' = TRUE
  /\ run' = [run EXCEPT ![r] = [Idle EXCEPT !.stage = "read", !.command = c]]
  /\ UNCHANGED <<tmp, receipt, onDisk, chainVars, sent>>

\* A mutation: every invocation begins a new receipt.
ReadNothing(r) ==
  /\ run[r].stage = "read"
  /\ run' = [run EXCEPT ![r] = [@ EXCEPT !.stage = "preflight", !.recs = <<>>]]
  /\ UNCHANGED <<fileVars, chainVars, sent>>

ReadReceipt(r) ==
  /\ run[r].stage = "read"
  /\ run' = [run EXCEPT ![r] = [@ EXCEPT !.stage = "preflight", !.recs = receipt]]
  /\ UNCHANGED <<fileVars, chainVars, sent>>

\* smokePreflight: the snapshot the gates use is taken before the recorded
\* signatures are reconciled, and it is not read again.  A read-only command
\* only prints it.
Preflight(r) ==
  /\ run[r].stage = "preflight"
  /\ run' = [run EXCEPT ![r] = [@ EXCEPT
       !.stage = "reconcile", !.ret = "gate", !.k = 1,
       !.snapTicket = IF run[r].command = "status" THEN None ELSE ticket,
       !.snapSettled = IF run[r].command = "status" THEN FALSE ELSE settled]]
  /\ UNCHANGED <<fileVars, chainVars, sent>>

\* One iteration of reconcileReceipt.  A record without a signature is skipped.
ReconcileOne(r) ==
  LET n == run[r] IN
  /\ n.stage = "reconcile"
  /\ n.k \in DOMAIN n.recs
  /\ IF n.recs[n.k].sig = None
     THEN run' = [run EXCEPT ![r] = [@ EXCEPT !.k = n.k + 1]]
     ELSE \E a \in Answers(n.recs[n.k].sig), found \in BOOLEAN :
            run' = [run EXCEPT ![r] = [@ EXCEPT
              !.k = n.k + 1,
              !.recs = [n.recs EXCEPT ![n.k] = Reconciled(n.recs[n.k], a, found)]]]
  /\ UNCHANGED <<fileVars, chainVars, sent>>

\* A mutation: the signatures are polled until all of them are resolved.
ReconcilePolls(r) ==
  LET n == run[r] IN
  /\ n.stage = "reconcile"
  /\ n.k \notin DOMAIN n.recs
  /\ IF \A i \in DOMAIN n.recs : n.recs[i].status = "confirmed"
     THEN CallSave(r, n.recs, n.ret)
     ELSE run' = [run EXCEPT ![r] = [@ EXCEPT !.k = 1]]
  /\ UNCHANGED <<fileVars, chainVars, sent>>

\* After the loop main() saves.  The first time it goes on to the gate, unless
\* the action is read-only; the second time it is done.
ReconcileEnd(r) ==
  LET n == run[r] IN
  /\ n.stage = "reconcile"
  /\ n.k \notin DOMAIN n.recs
  /\ CallSave(r, n.recs, IF n.command = "status" THEN "exit" ELSE n.ret)
  /\ UNCHANGED <<fileVars, chainVars, sent>>

\* A receipt that is another deployment's, a rejected RPC call, a gate that
\* throws, or a run without --transact that has printed its preview: the finally
\* block comes next.
StopsEarly(r) ==
  /\ run[r].stage \in {"read", "preflight", "reconcile", "gate"}
  /\ Goto(r, "exit")
  /\ UNCHANGED <<fileVars, chainVars, sent>>
-----------------------------------------------------------------------------
(***************************************************************************)
(* save(): create .tmp exclusively, write and fsync it, rename it over the *)
(* receipt, fsync the directory.                                           *)
(***************************************************************************)
SaveOpen(r) ==
  /\ run[r].stage = "saveOpen"
  /\ ~tmp
  /\ tmp' = TRUE
  /\ Goto(r, "saveRename")
  /\ UNCHANGED <<lock, receipt, onDisk, chainVars, sent>>

\* The file's content is on the disk before the rename; the rename itself is
\* only certain to be when the directory is synced.
SaveRename(r) ==
  /\ run[r].stage = "saveRename"
  /\ tmp' = FALSE
  /\ receipt' = run[r].recs
  /\ onDisk' = onDisk \cup {run[r].recs}
  /\ Goto(r, "saveSync")
  /\ UNCHANGED <<lock, chainVars, sent>>

\* A mutation: save() returns without syncing the directory.
SaveUnsynced(r) ==
  /\ run[r].stage = "saveSync"
  /\ Goto(r, run[r].ret)
  /\ UNCHANGED <<fileVars, chainVars, sent>>

SaveSync(r) ==
  /\ run[r].stage = "saveSync"
  /\ onDisk' = {receipt}
  /\ Goto(r, run[r].ret)
  /\ UNCHANGED <<lock, tmp, receipt, chainVars, sent>>

\* The .tmp of an earlier save is still there, the write or the rename fails
\* (.tmp stays behind), or the directory cannot be synced.
SaveFails(r) ==
  /\ \/ run[r].stage = "saveOpen" /\ tmp
     \/ run[r].stage \in {"saveRename", "saveSync"}
  /\ Goto(r, "exit")
  /\ UNCHANGED <<fileVars, chainVars, sent>>
-----------------------------------------------------------------------------
(***************************************************************************)
(* submitSmokeOnce().                                                      *)
(***************************************************************************)

\* Every gate has passed: the record is pushed as `prepared' and saved.
Prepare(r) ==
  LET n == run[r]
      record == [action |-> n.command, sig |-> None, status |-> "prepared", ev |-> None]
  IN
  /\ n.stage = "gate"
  /\ Eligible(n)
  /\ run' = [run EXCEPT ![r] = [Idle EXCEPT !.stage = "saveOpen", !.ret = "sign",
                                            !.command = n.command,
                                            !.recs = Append(n.recs, record)]]
  /\ UNCHANGED <<fileVars, chainVars, sent>>

\* Sign with a blockhash fetched by this invocation: the signature is new.
Sign(r) ==
  LET n == run[r]
      last == Len(n.recs)
  IN
  /\ n.stage = "sign"
  /\ \E s \in Sigs :
       /\ tx[s].level = "unborn"
       /\ tx' = [tx EXCEPT ![s] = [@ EXCEPT !.action = n.command, !.level = "signed"]]
       /\ CallSave(r, [n.recs EXCEPT ![last] = [@ EXCEPT !.sig = s, !.status = "signed"]], "send")
  /\ UNCHANGED <<fileVars, ticket, settled, sent>>

\* A mutation: a send that throws is replaced by a newly signed transaction.
SendRetries(r) ==
  LET n == run[r]
      last == Len(n.recs)
      s == n.recs[last].sig
  IN
  /\ n.stage = "send"
  /\ sent' = sent \cup {<<n.command, s>>}
  /\ \E throws \in BOOLEAN :
       /\ tx' = [tx EXCEPT ![s].level = "pending"]
       /\ CallSave(r, n.recs, IF throws THEN "sign" ELSE "settle")
  /\ UNCHANGED <<fileVars, ticket, settled>>

\* The one sendRawTransaction.  It may not arrive, and it may throw even though
\* it arrived; either way the record becomes `unknown' and is saved, and a throw
\* ends the run after that save.
Send(r) ==
  LET n == run[r]
      last == Len(n.recs)
      s == n.recs[last].sig
  IN
  /\ n.stage = "send"
  /\ sent' = sent \cup {<<n.command, s>>}
  /\ \E arrives, throws \in BOOLEAN :
       /\ arrives \/ throws
       /\ tx' = [tx EXCEPT ![s].level = IF arrives THEN "pending" ELSE @]
       /\ CallSave(r, [n.recs EXCEPT ![last] = [@ EXCEPT !.status = "unknown"]],
                   IF throws THEN "exit" ELSE "settle")
  /\ UNCHANGED <<fileVars, ticket, settled>>

\* main() reads the signatures once more after the submission.
Settle(r) ==
  /\ run[r].stage = "settle"
  /\ run' = [run EXCEPT ![r] = [@ EXCEPT !.stage = "reconcile", !.ret = "exit", !.k = 1]]
  /\ UNCHANGED <<fileVars, chainVars, sent>>

\* A mutation: the lock is closed and not removed.
ExitKeepsLock(r) ==
  /\ run[r].stage = "exit"
  /\ run' = [run EXCEPT ![r] = Idle]
  /\ UNCHANGED <<fileVars, chainVars, sent>>

\* The finally block closes and removes the lock, whatever happened.
Exit(r) ==
  /\ run[r].stage = "exit"
  /\ lock' = FALSE
  /\ run' = [run EXCEPT ![r] = Idle]
  /\ UNCHANGED <<tmp, receipt, onDisk, chainVars, sent>>
-----------------------------------------------------------------------------
(***************************************************************************)
(* Crashes and the operator.                                               *)
(***************************************************************************)

\* The process is killed: no finally block runs, the lock and .tmp stay.
Crash(r) ==
  /\ Alive(r)
  /\ run' = [run EXCEPT ![r] = Idle]
  /\ UNCHANGED <<fileVars, chainVars, sent>>

\* Directory entries that were not synced may be lost: the receipt is one of the
\* versions the disk may hold, .lock and .tmp may be gone.
PowerFailure ==
  /\ run' = [r \in Runners |-> Idle]
  /\ receipt' \in onDisk
  /\ onDisk' = {receipt'}
  /\ lock' \in {lock, FALSE}
  /\ tmp' \in {tmp, FALSE}
  /\ UNCHANGED <<chainVars, sent>>

\* The system writes a rename back by itself.
WriteBack ==
  /\ onDisk # {receipt}
  /\ onDisk' = {receipt}
  /\ UNCHANGED <<run, lock, tmp, receipt, chainVars, sent>>

\* docs/flp-mainnet-smoke.md: a stale .lock or .tmp is removed by hand, once no
\* runner is active.
RemoveStaleLock ==
  /\ \A r \in Runners : ~Alive(r)
  /\ lock
  /\ lock' = FALSE
  /\ UNCHANGED <<run, tmp, receipt, onDisk, chainVars, sent>>

RemoveStaleTmp ==
  /\ \A r \in Runners : ~Alive(r)
  /\ tmp
  /\ tmp' = FALSE
  /\ UNCHANGED <<run, lock, receipt, onDisk, chainVars, sent>>
-----------------------------------------------------------------------------
(***************************************************************************)
(* The chain, as the runner depends on it.                                 *)
(***************************************************************************)
\* Executed in some fork, perhaps with an error.
Process(s) ==
  /\ tx[s].level = "pending"
  /\ \E e \in BOOLEAN : tx' = [tx EXCEPT ![s] = [@ EXCEPT !.level = "processed", !.err = e]]
  /\ UNCHANGED <<run, fileVars, ticket, settled, sent>>

\* The fork that had it is abandoned; another leader may take it again.
Abandon(s) ==
  /\ tx[s].level = "processed"
  /\ tx' = [tx EXCEPT ![s] = [@ EXCEPT !.level = "pending", !.err = FALSE]]
  /\ UNCHANGED <<run, fileVars, ticket, settled, sent>>

Expire(s) ==
  /\ tx[s].level = "pending"
  /\ tx' = [tx EXCEPT ![s].level = "expired"]
  /\ UNCHANGED <<run, fileVars, ticket, settled, sent>>

\* Confirmed: the outcome is now fixed and a success takes effect.  A request is
\* added to a ticket that is already there; a claim pays a settled ticket.
Confirm(s) ==
  LET t == tx[s] IN
  /\ t.level = "processed"
  /\ \/ /\ t.err \/ t.action = "deposit"
        /\ tx' = [tx EXCEPT ![s].level = "confirmed"]
        /\ UNCHANGED <<ticket, settled>>
     \/ /\ ~t.err /\ t.action = "request-withdraw"
        /\ tx' = [tx EXCEPT ![s].level = "confirmed"]
        /\ ticket' = IF ticket = None THEN s ELSE Foreign
        /\ settled' = FALSE
     \/ /\ ~t.err /\ t.action = "claim"
        /\ ticket # None /\ settled
        /\ tx' = [tx EXCEPT ![s] = [@ EXCEPT !.level = "confirmed", !.took = ticket]]
        /\ ticket' = None
        /\ settled' = FALSE
  /\ UNCHANGED <<run, fileVars, sent>>

\* The keeper closes and funds the ticket's epoch.
KeeperSettles ==
  /\ ticket # None /\ ~settled
  /\ settled' = TRUE
  /\ UNCHANGED <<run, fileVars, tx, ticket, sent>>

\* The owner uses the wallet elsewhere: requests a withdrawal, which is merged
\* into an open ticket, or claims.
WalletActivity ==
  /\ ticket' \in {None, Foreign}
  /\ settled' = FALSE
  /\ UNCHANGED <<run, fileVars, tx, sent>>
-----------------------------------------------------------------------------
\* The steps of the program, as opposed to what happens to it.
Step(r) ==
  \/ ReadReceipt(r) \/ Preflight(r) \/ ReconcileOne(r) \/ ReconcileEnd(r) \/ StopsEarly(r)
  \/ SaveOpen(r) \/ SaveRename(r) \/ SaveSync(r) \/ SaveFails(r)
  \/ Prepare(r) \/ Sign(r) \/ Send(r) \/ Settle(r) \/ Exit(r)

Operator ==
  \/ \E r \in Runners, c \in Command : Acquire(r, c)
  \/ \E r \in Runners : Crash(r)
  \/ PowerFailure \/ WriteBack \/ RemoveStaleLock \/ RemoveStaleTmp

Chain ==
  \/ \E s \in Sigs : Process(s) \/ Abandon(s) \/ Expire(s) \/ Confirm(s)
  \/ KeeperSettles \/ WalletActivity

Next == (\E r \in Runners : Step(r)) \/ Operator \/ Chain

Spec == Init /\ [][Next]_vars

\* Every file operation returns and every RPC call answers or is rejected, so an
\* invocation that is not killed keeps going.  Nothing is assumed of the operator
\* or of the chain.
FairSpec == Spec /\ \A r \in Runners : WF_vars(Step(r))
-----------------------------------------------------------------------------
(***************************************************************************)
(* Properties.                                                             *)
(***************************************************************************)
TypeOK ==
  /\ run \in [Runners -> Runner]
  /\ lock \in BOOLEAN
  /\ tmp \in BOOLEAN
  /\ receipt \in Seq(SmokeRecord)
  /\ onDisk \in SUBSET Seq(SmokeRecord)
  /\ tx \in [Sigs -> Transaction]
  /\ ticket \in Ticket
  /\ settled \in BOOLEAN
  /\ sent \in SUBSET (SmokeAction \X Sigs)

\* The .lock file keeps two invocations out of the receipt at once, through
\* crashes, power failures and the operator's removal of stale locks.
OneRunner ==
  \A r \in Runners : Alive(r) => /\ lock
                                 /\ \A q \in Runners : Alive(q) => q = r

\* submitSmokeOnce, as its name says: over all invocations, crashes and restarts
\* an action is sent with at most one signature.
SentOnce == \A x, y \in sent : x[1] = y[1] => x = y

Holds(recs, x) == \E i \in DOMAIN recs : recs[i].action = x[1] /\ recs[i].sig = x[2]

\* "A signature must be saved before the first network submission"
\* (mainnetSmoke.ts:224): whatever a power failure leaves of the receipt, it
\* holds the signature of everything that was ever sent.
SentIsDurable == \A x \in sent, recs \in onDisk : Holds(recs, x)

\* A record that a receipt calls confirmed went through on chain, and its event
\* is the one the chain produced, however late or partial the answers it was
\* reconciled from were.
Truthful(recs) ==
  \A i \in DOMAIN recs :
    recs[i].status = "confirmed" =>
      /\ recs[i].sig \in Sigs
      /\ Succeeded(recs[i].sig)
      /\ recs[i].ev = IF recs[i].action = "claim" THEN tx[recs[i].sig].took ELSE recs[i].sig

ConfirmedIsTrue == Truthful(receipt)

\* The summary reports a complete lifecycle only when the claim that was sent
\* consumed the very ticket that the recorded request created.
CompleteIsTrue ==
  LifecycleComplete(receipt) =>
    \E x, y \in sent : /\ x[1] = "request-withdraw" /\ Succeeded(x[2])
                       /\ y[1] = "claim" /\ Succeeded(y[2])
                       /\ tx[y[2]].took = x[2]

\* Nothing is sent while the outcome of something sent before is open: every
\* earlier submission had gone through on chain when a new one is made.
EarlierResolved == [][\A x \in sent' \ sent, y \in sent : Succeeded(y[2])]_sent

\* No record is dropped, moved, renamed or signed a second time in any version
\* of the receipt that a crash may bring back.
Keeps(recs, later) ==
  /\ Len(recs) <= Len(later)
  /\ \A i \in DOMAIN recs : /\ later[i].action = recs[i].action
                            /\ recs[i].sig # None => later[i].sig = recs[i].sig

AppendOnly == [][\A later \in onDisk' : \E recs \in onDisk : Keeps(recs, later)]_onDisk

\* docs/flp-mainnet-smoke.md:187: "A timeout, null history result,
\* processed-only status or missing transaction stays `unknown`."
ProcessedOnlyStaysUnknown ==
  [][\A r \in Runners :
       LET n == run[r] IN
       /\ n.stage = "reconcile"
       /\ n.k \in DOMAIN n.recs
       /\ n.recs[n.k].sig # None
       /\ tx[n.recs[n.k].sig].level = "processed"
       /\ run'[r].k = n.k + 1
       => run'[r].recs[n.k].status = "unknown"]_run

\* The journal the operator relies on: the signatures in every version of the
\* receipt that may be left.
Journaled == {x \in SmokeAction \X Sigs : \A recs \in onDisk : Holds(recs, x)}

Promise == INSTANCE SubmitOnce WITH
  Actions <- SmokeAction,
  journal <- Journaled,
  handed <- sent,
  succeeded <- {x \in sent : Succeeded(x[2])}

\* The runner implements SubmitOnce: a signature is journaled once, handed over
\* once and only after everything before it succeeded.
KeepsPromise == Promise!Spec
-----------------------------------------------------------------------------
(***************************************************************************)
(* The inductive invariant behind the safety properties.                   *)
(***************************************************************************)
OncePerAction(recs) ==
  \A i, j \in DOMAIN recs : recs[i].action = recs[j].action => i = j

\* The invocation has read the receipt and still uses what it read.
HoldsRecords(n) == n.stage \notin {"idle", "read", "exit"}

Saving(n) == n.stage \in {"saveOpen", "saveRename", "saveSync"}

\* The stage in submitSmokeOnce that the invocation has reached, or comes back
\* to when the save it is in has succeeded.
Reaches(n, stage) == n.stage = stage \/ (Saving(n) /\ n.ret = stage)

\* What the visible receipt is to its possible durable versions.
FilesInv ==
  /\ receipt \in onDisk
  /\ \A recs \in onDisk : Keeps(recs, receipt) /\ Truthful(recs)
  /\ OncePerAction(receipt)

\* What an invocation has in memory is what the receipt says, and more.
MemoryInv(n) ==
  /\ HoldsRecords(n) => /\ Keeps(receipt, n.recs)
                        /\ OncePerAction(n.recs)
                        /\ Truthful(n.recs)
  /\ n.stage = "saveSync" => receipt = n.recs

\* The record being submitted is the last one, all the earlier ones are
\* resolved, and it is on the disk when the invocation comes to the send.
SubmitInv(n) ==
  /\ n.stage = "reconcile" => n.ret \in {"gate", "exit"}
  /\ n.stage \in {"gate", "sign", "send"} => n.command \in SmokeAction
  /\ Saving(n) => n.ret \in {"gate", "sign", "send", "settle", "exit"}
  /\ Saving(n) /\ n.ret # "exit" => n.command \in SmokeAction
  /\ Reaches(n, "sign") \/ Reaches(n, "send") =>
       /\ n.recs # <<>>
       /\ n.recs[Len(n.recs)].action = n.command
       /\ \A i \in 1 .. Len(n.recs) - 1 : n.recs[i].status = "confirmed"
  /\ Reaches(n, "sign") => n.recs[Len(n.recs)].sig = None
  /\ Reaches(n, "send") => /\ n.recs[Len(n.recs)].sig \in Sigs
                           /\ tx[n.recs[Len(n.recs)].sig].level = "signed"
  /\ n.stage = "send" => onDisk = {n.recs}

IInv ==
  /\ TypeOK
  /\ OneRunner
  /\ FilesInv
  /\ \A r \in Runners : MemoryInv(run[r]) /\ SubmitInv(run[r])
  /\ SentIsDurable
=============================================================================
