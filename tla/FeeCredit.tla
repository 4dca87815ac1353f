------------------------------ MODULE FeeCredit ------------------------------
(***************************************************************************)
(* depositFeeCredit (fees.ts): pay the relayer's deposit address with a    *)
(* memo that names the fee account, wait for the transfer, and report it.  *)
(*                                                                         *)
(* Several calls may be under way, one the retry of another.  A call that  *)
(* fails says nothing of its transfer, which may have landed; its sender   *)
(* may find the signature on the chain and report it by hand.  A report    *)
(* may reach the gateway any number of times.                              *)
(*                                                                         *)
(* The relayer is external.  It recognises a transfer it has credited by   *)
(* its signature and instruction, and is assumed to believe a report: what *)
(* the credits are worth then rests on what the client reports.            *)
(***************************************************************************)
EXTENDS Naturals

CONSTANTS Calls,     \* calls of depositFeeCredit; each names its own transaction
          FeeAccounts, \* fee accounts: pairs of an owner and a fermi account
          Addresses, \* deposit addresses of the relayer, one at a time
          Amounts,   \* bound: the values of `lamports'
          MaxExact,  \* the largest integer up to which a number is exact, a multiple of 4
          NoAddress  \* no depositAddress given

ASSUME FeeCreditAssumption ==
  /\ NoAddress \notin Addresses
  /\ Amounts \subseteq Nat /\ MaxExact \in Nat

VARIABLES current,   \* the address that the relayer serves
          calls,     \* the calls
          chain,     \* the state of each transaction
          reports,   \* the reports on their way or received
          credits    \* the reports that were credited

feeVars == <<current, calls, chain, reports, credits>>

\* Number(n) for n up to twice MaxExact: to the nearest even number, a tie to a multiple of 4.
Number(n) == IF n <= MaxExact \/ n % 2 = 0 THEN n ELSE IF n % 4 = 1 THEN n - 1 ELSE n + 1

Untouched == [stage |-> "idle"]
Stages == {"asking", "sending", "reporting", "done", "failed"}
Call == {Untouched} \cup [stage : Stages, account : FeeAccounts, lamports : Amounts,
                      address : Addresses \cup {NoAddress}]
Report == [source : Calls, index : {0, 1}, account : FeeAccounts, lamports : Nat, address : Addresses]

FeeInit ==
  /\ current \in Addresses
  /\ calls = [c \in Calls |-> Untouched]
  /\ chain = [c \in Calls |-> "unknown"]
  /\ reports = {} /\ credits = {}

\* The instructions of the transaction of a call: the memo first, then the transfer.
Instructions(call) ==
  << [kind |-> "memo", account |-> call.account],
     [kind |-> "transfer", lamports |-> Number(call.lamports), address |-> call.address] >>

transferInstructionIndex == 1

\* A mutation: the amount is reported as it was given.
ReportOfUnrounded(c) ==
  [source |-> c, index |-> transferInstructionIndex, account |-> calls[c].account,
   lamports |-> calls[c].lamports, address |-> calls[c].address]

\* The body of the report of call c.
ReportOf(c) ==
  [source |-> c, index |-> transferInstructionIndex, account |-> calls[c].account,
   lamports |-> Number(calls[c].lamports), address |-> calls[c].address]

\* sendAndConfirmTransaction with the commitment `confirmed'.
Enough(level) == level = "confirmed"

\* Neither the rate limit nor any other failure.
Accepts(status) == status = "ok"

\* The call begins; an amount that is not positive is refused once the address is known.
\* With a given address, which was read from an earlier status, the transaction goes out at once.
Deposit(c) ==
  /\ calls[c].stage = "idle"
  /\ \E account \in FeeAccounts, n \in Amounts, given \in Addresses \cup {NoAddress} :
       calls' = [calls EXCEPT ![c] =
         [stage |-> CASE given = NoAddress -> "asking"
                      [] given # NoAddress /\ Number(n) <= 0 -> "failed"
                      [] OTHER -> "sending",
          account |-> account, lamports |-> n, address |-> given]]
  /\ UNCHANGED <<current, chain, reports, credits>>

\* getStatus answers with the address of that moment.
Status(c) ==
  /\ calls[c].stage = "asking"
  /\ calls' = [calls EXCEPT ![c].address = current,
                            ![c].stage = IF Number(calls[c].lamports) <= 0 THEN "failed" ELSE "sending"]
  /\ UNCHANGED <<current, chain, reports, credits>>

\* getStatus fails, or the transaction is given up: it expires, or the node cannot be reached.
GivesUp(c) ==
  /\ calls[c].stage \in {"asking", "sending"}
  /\ calls' = [calls EXCEPT ![c].stage = "failed"]
  /\ UNCHANGED <<current, chain, reports, credits>>

\* The transaction was sent and moves on, whether or not its sender still waits for it.
Sent(c) == calls[c].stage \in {"sending", "failed"} /\ calls[c].address # NoAddress /\ Number(calls[c].lamports) > 0

Land(c) ==
  /\ Sent(c)
  /\ \/ chain[c] = "unknown"   /\ chain' = [chain EXCEPT ![c] = "processed"]
     \/ chain[c] = "processed" /\ chain' = [chain EXCEPT ![c] = "confirmed"]
  /\ UNCHANGED <<current, calls, reports, credits>>

\* Its blockhash expires, or the fork that has it is abandoned.
Vanish(c) ==
  /\ Sent(c) /\ chain[c] \in {"unknown", "processed"}
  /\ chain' = [chain EXCEPT ![c] = "gone"]
  /\ UNCHANGED <<current, calls, reports, credits>>

\* The transfer is confirmed, and reported.
Confirmed(c) ==
  /\ calls[c].stage = "sending" /\ Enough(chain[c])
  /\ calls' = [calls EXCEPT ![c].stage = "reporting"]
  /\ reports' = reports \cup {ReportOf(c)}
  /\ UNCHANGED <<current, chain, credits>>

\* A failed call's transfer is found on the chain and reported by hand, as it reads there.
ByHand(c) ==
  /\ calls[c].stage = "failed" /\ chain[c] = "confirmed"
  /\ LET i == transferInstructionIndex + 1
         ixs == Instructions(calls[c])
     IN reports' = reports \cup {[source |-> c, index |-> transferInstructionIndex,
          account |-> ixs[1].account, lamports |-> ixs[i].lamports, address |-> ixs[i].address]}
  /\ UNCHANGED <<current, calls, chain, credits>>

\* The relayer credits a report whose transfer it has not credited.
Credit(r) ==
  /\ r \in reports
  /\ \A s \in credits : <<s.source, s.index>> # <<r.source, r.index>>
  /\ credits' = credits \cup {r}
  /\ UNCHANGED <<current, calls, chain, reports>>

\* The gateway answers a report; `ok' only when the transfer has been credited.
Reply(c, status) ==
  /\ calls[c].stage = "reporting"
  /\ status = "ok" => \E s \in credits : s.source = c
  /\ calls' = [calls EXCEPT ![c].stage = IF Accepts(status) THEN "done" ELSE "failed"]
  /\ UNCHANGED <<current, chain, reports, credits>>

Rotate ==
  /\ current' \in Addresses \ {current}
  /\ UNCHANGED <<calls, chain, reports, credits>>

FeeNext ==
  \/ \E c \in Calls : Deposit(c) \/ Status(c) \/ GivesUp(c) \/ Land(c) \/ Vanish(c) \/ Confirmed(c) \/ ByHand(c)
  \/ \E r \in reports : Credit(r)
  \/ \E c \in Calls, status \in {"ok", "rateLimited", "error", "lost"} : Reply(c, status)
  \/ Rotate

FeeSpec == FeeInit /\ [][FeeNext]_feeVars

-----------------------------------------------------------------------------

FeeTypeOK ==
  /\ current \in Addresses
  /\ calls \in [Calls -> Call]
  /\ chain \in [Calls -> {"unknown", "processed", "confirmed", "gone"}]
  /\ reports \subseteq Report
  /\ credits \subseteq Report

\* Every credit is for a transfer that cannot be undone: the report names the instruction that
\* moved the money, the amount that it moved (which is the amount given only while a number
\* holds it), the address it went to and the account its memo names; and no transfer is credited
\* twice, however calls are retried, repeated by hand or delivered again.  (fees.ts 305-365)
CreditIsPaid ==
  /\ \A r \in credits :
       /\ chain[r.source] = "confirmed"
       /\ LET ixs == Instructions(calls[r.source]) IN
            ixs[1] = [kind |-> "memo", account |-> r.account] /\
            ixs[r.index + 1] = [kind |-> "transfer", lamports |-> r.lamports, address |-> r.address]
  /\ \A r, s \in credits : r.source = s.source => r = s

\* A call that returns has moved exactly what its account was credited; one that throws leaves
\* its transfer and its credit open.  (fees.ts 262-287, 330-365)
ReturnIsCredit ==
  \A c \in Calls : calls[c].stage = "done" =>
    /\ chain[c] = "confirmed"
    /\ \E r \in credits : r = ReportOf(c)

\* The strengthening of both that every step preserves.
FeeInv ==
  /\ FeeTypeOK
  /\ \A c \in Calls : chain[c] # "unknown" => calls[c].stage # "idle"
  /\ \A c \in Calls : calls[c].stage \in {"sending", "reporting", "done"} =>
       calls[c].address # NoAddress
  /\ \A c \in Calls : chain[c] \in {"processed", "confirmed"} =>
       calls[c].stage # "asking" /\ calls[c].address # NoAddress
  /\ \A c \in Calls : calls[c].stage \in {"reporting", "done"} => chain[c] = "confirmed"
  /\ \A r \in reports : chain[r.source] = "confirmed" /\ r = ReportOf(r.source)
                        /\ calls[r.source].stage \in {"reporting", "done", "failed"}
  /\ credits \subseteq reports
  /\ \A c \in Calls : calls[c].stage = "done" => \E s \in credits : s.source = c

=============================================================================
