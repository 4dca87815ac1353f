----------------------------- MODULE RecoveryRead ----------------------------
(***************************************************************************)
(* fetchVault of the two vault clients (flp/index.ts and flp/v4.ts).  The  *)
(* targets of a recovery of an expanded vault are kept in a sidecar        *)
(* account, which is read after the vault.  Between the reads recoveries   *)
(* are started, extended, finished and aborted, and the node that answers  *)
(* the second read may be behind the one that answered the first.          *)
(*                                                                         *)
(* Recoveries are numbered by a history counter.  The client cannot see    *)
(* the number: it compares mode, batch and start time.                     *)
(***************************************************************************)
EXTENDS Naturals

CONSTANTS MaxStarts,  \* bound: recoveries started
          MaxBatch,   \* bound: epochs of the deferred head a recovery is for
          MaxCuts     \* bound: extensions of partial recoveries

ASSUME RecoveryAssumption == MaxStarts \in Nat /\ MaxBatch \in Nat /\ MaxCuts \in Nat

VARIABLES version,   \* 3 or 4, for the life of the vault
          expanded,  \* the vault has a sidecar
          unwind,    \* the recovery the vault account names: mode 0 (none), 1
                     \* (proportional) or 2 (full), batch, start time, and its number
          sidecar,   \* the recovery the sidecar names, and how often it was cut
          past,      \* history: every value the sidecar has had
          starts,    \* recoveries started so far
          reader     \* a call of fetchVault

recoveryVars == <<version, expanded, unwind, sidecar, past, starts, reader>>

NoRecovery == [mode |-> 0, batch |-> 0, startedAt |-> 0, number |-> 0]
NoSidecar  == [mode |-> 0, batch |-> 0, startedAt |-> 0, number |-> 0, cuts |-> 0]

\* Where a call is: "fetched" has the vault and awaits the sidecar.
Reader == [stage |-> "idle", state |-> NoRecovery, targets |-> NoSidecar, compared |-> FALSE]

RecoveryInit ==
  /\ version \in {3, 4}
  /\ expanded = FALSE
  /\ unwind = NoRecovery
  /\ sidecar = NoSidecar
  /\ past = {}
  /\ starts = 0
  /\ reader = Reader

(***************************************************************************)
(* The vault program                                                       *)
(***************************************************************************)
Write(value) == sidecar' = value /\ past' = past \cup {value}

\* initFermiAccountV4, or expandMarketCapacity of an older vault, creates the sidecar.
\* Neither is available in a recovery.
Expand ==
  /\ ~expanded /\ unwind.mode = 0
  /\ expanded' = TRUE
  /\ Write(NoSidecar)
  /\ UNCHANGED <<version, unwind, starts, reader>>

\* A recovery starts, or a full one takes over from a proportional one and may keep its
\* start time.  Two that are not one another's continuation start in different seconds:
\* the second of a start is its number.  A vault of version 4 has its sidecar by then.
Start(mode, batch) ==
  /\ starts < MaxStarts
  /\ unwind.mode = 0 \/ (unwind.mode = 1 /\ mode = 2)
  /\ version = 4 => expanded
  /\ starts' = starts + 1
  /\ \E at \in {starts + 1} \cup (IF unwind.mode = 1 THEN {unwind.startedAt} ELSE {}) :
       /\ unwind' = [mode |-> mode, batch |-> batch, startedAt |-> at, number |-> starts + 1]
       /\ IF expanded
            THEN Write([mode |-> mode, batch |-> batch, startedAt |-> at, number |-> starts + 1, cuts |-> 0])
            ELSE UNCHANGED <<sidecar, past>>
  /\ UNCHANGED <<version, expanded, reader>>

\* extendPartialUnwind cuts the targets of a proportional recovery further.
Extend ==
  /\ expanded /\ unwind.mode = 1 /\ sidecar.cuts < MaxCuts
  /\ Write([sidecar EXCEPT !.cuts = @ + 1])
  /\ UNCHANGED <<version, expanded, unwind, starts, reader>>

\* finishUnwind and abortUnwind: the sidecar is cleared, or keeps what it had.
Finish ==
  /\ unwind.mode # 0
  /\ unwind' = NoRecovery
  /\ IF expanded THEN Write(NoSidecar) \/ UNCHANGED <<sidecar, past>> ELSE UNCHANGED <<sidecar, past>>
  /\ UNCHANGED <<version, expanded, starts, reader>>

(***************************************************************************)
(* The client                                                              *)
(***************************************************************************)
\* One read of the vault account.  The client of version 3 asks for the sidecar of an
\* expanded vault in recovery, that of version 4 for that of every vault that has its
\* core account.  Each refuses a vault of the other version.
FetchVault(client) ==
  /\ reader.stage # "fetched"
  /\ LET sidecarIsRead == expanded /\ (client = 3 => unwind.mode # 0)
     IN reader' = [Reader EXCEPT
          !.state = unwind, !.compared = sidecarIsRead /\ unwind.mode # 0,
          !.stage = IF client # version THEN "unsupported"
                    ELSE IF sidecarIsRead THEN "fetched" ELSE "returned"]
  /\ UNCHANGED <<version, expanded, unwind, sidecar, past, starts>>

\* A mutation: the start time is not compared.
SameRecoveryUndated(targets, state) ==
  targets.mode = state.mode /\ targets.batch = state.batch

SameRecovery(targets, state) ==
  /\ targets.mode = state.mode
  /\ targets.batch = state.batch
  /\ targets.startedAt = state.startedAt

\* The read of the sidecar finds any value it has had, or no account yet.
ReadTargets ==
  /\ reader.stage = "fetched"
  /\ \/ \E targets \in past :
          reader' = [reader EXCEPT
            !.targets = targets,
            !.stage = IF reader.state.mode # 0 /\ ~SameRecovery(targets, reader.state)
                        THEN "changed" ELSE "returned"]
     \/ reader' = [reader EXCEPT !.stage = "missing"]
  /\ UNCHANGED <<version, expanded, unwind, sidecar, past, starts>>

RecoveryNext ==
  \/ Expand \/ Extend \/ Finish \/ ReadTargets
  \/ \E mode \in {1, 2}, batch \in 0 .. MaxBatch : Start(mode, batch)
  \/ \E client \in {3, 4} : FetchVault(client)

RecoverySpec == RecoveryInit /\ [][RecoveryNext]_recoveryVars

(***************************************************************************)
(* Properties                                                              *)
(***************************************************************************)
Recovery == [mode : {0, 1, 2}, batch : Nat, startedAt : Nat, number : Nat]
Sidecar  == [mode : {0, 1, 2}, batch : Nat, startedAt : Nat, number : Nat, cuts : Nat]

RecoveryTypeOK ==
  /\ version \in {3, 4}
  /\ expanded \in BOOLEAN
  /\ unwind \in Recovery
  /\ sidecar \in Sidecar
  /\ past \subseteq Sidecar
  /\ starts \in Nat
  /\ reader \in [stage : {"idle", "fetched", "returned", "changed", "missing", "unsupported"},
                 state : Recovery, targets : Sidecar, compared : BOOLEAN]

\* A vault that is returned in recovery carries the targets of that very recovery, however
\* many were finished, aborted and started between the reads and however old the sidecar
\* was that the node answered with.  "Recovery changed" is said only of the targets of
\* another one, so an extension in between is no reason to refuse.
TargetsAreOfTheRecovery ==
  reader.compared =>
    /\ reader.stage = "returned" => reader.targets.number = reader.state.number
    /\ reader.stage = "changed" =>
         reader.targets.number # reader.state.number \/ reader.targets.mode = 0

\* What tells recoveries apart: values of the sidecar with one mode, batch and start time
\* are of one recovery, and the other way round.
PastInv ==
  /\ \A v \in past : v.startedAt <= starts /\ v.number <= starts
  /\ \A v, w \in past : v.mode # 0 /\ w.mode # 0 =>
       (SameRecovery(v, w) <=> v.number = w.number)

\* A proportional recovery can still become a full one with its start time: no other full
\* recovery had it.
UnwindInv ==
  /\ unwind.startedAt <= starts /\ unwind.number <= starts
  /\ expanded /\ unwind.mode # 0 =>
       \E v \in past : v.mode # 0 /\ SameRecovery(v, unwind) /\ v.number = unwind.number
  /\ unwind.mode = 1 => \A v \in past : v.mode = 2 => v.startedAt < unwind.startedAt
  /\ ~expanded => past = {}
  /\ expanded => sidecar \in past
  /\ expanded /\ unwind.mode # 0 => sidecar.mode = unwind.mode /\ sidecar.number = unwind.number

\* The recovery a call compares with was written to the sidecar.
ReaderInv ==
  reader.compared =>
    \E v \in past : v.mode # 0 /\ SameRecovery(v, reader.state) /\ v.number = reader.state.number

RecoveryInv == RecoveryTypeOK /\ PastInv /\ UnwindInv /\ ReaderInv /\ TargetsAreOfTheRecovery
=============================================================================
