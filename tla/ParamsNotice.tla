---------------------------- MODULE ParamsNotice -----------------------------
(***************************************************************************)
(* stagedParamsDelaySeconds of the vault client (flp/index.ts): how long a *)
(* change of the vault's parameters is staged before it may be applied,    *)
(* against the epochs in which a depositor who learns of it can leave.     *)
(*                                                                         *)
(* Time is counted in seconds to the end of the epoch.  Epochs close on    *)
(* time: the closes of a punctual keeper are what the delay is measured    *)
(* against.                                                                *)
(***************************************************************************)
EXTENDS Naturals

CONSTANTS Durations,   \* lengths of an epoch
          Cutoffs,     \* seconds before the end of an epoch that a request is too late for it
          Timelocks,   \* the vault's timelockS
          Rates,       \* a fee rate or a minimum, of which depositors want less
          Others,      \* what else a change may touch: haircut, breaker, equity window
          NoTiming

Timing == [epoch : Durations, cutoff : Cutoffs]
VaultParams == [timing : Timing, timelock : Timelocks, rates : Rates, others : Others]

ASSUME NoticeAssumption ==
  /\ Durations \subseteq Nat /\ Cutoffs \subseteq Nat /\ Timelocks \subseteq Nat /\ Rates \subseteq Nat
  /\ \A e \in Durations, c \in Cutoffs : c <= e
  /\ NoTiming \notin Timing /\ NoTiming \notin VaultParams

VARIABLES params,     \* the parameters in force, the timing of the open epoch among them
          scheduled,  \* scheduledTiming: what applies from the next close, or NoTiming
          left,       \* seconds until the open epoch ends
          staged,     \* the staged parameters, the seconds until they are due, and history
          request     \* closes until the request of the depositor is priced, 0 for none

noticeVars == <<params, scheduled, left, staged, request>>

Nothing == [to |-> NoTiming, wait |-> 0, stretched |-> FALSE]

NoticeInit ==
  /\ params \in VaultParams
  /\ scheduled = NoTiming
  /\ left = params.timing.epoch
  /\ staged = Nothing
  /\ request = 0

\* The timing that applies next.
Following == IF scheduled = NoTiming THEN params.timing ELSE scheduled

\* A change that no depositor can lose by: lower rates and minimums, all else as it is, or as it
\* is scheduled to be.  The deposit cap may change in any way and is left out.
Favourable(next) ==
  /\ next.rates <= params.rates
  /\ next.timing = Following /\ next.timelock = params.timelock /\ next.others = params.others

Larger(a, b) == IF a < b THEN b ELSE a

\* A mutation: the cutoff is left out.
DelayOfEpoch(next) ==
  IF Favourable(next) THEN params.timelock
  ELSE Larger(params.timelock, Larger(params.timing.epoch, IF scheduled = NoTiming THEN 0 ELSE scheduled.epoch))

\* stagedParamsDelaySeconds.
Delay(next) ==
  IF Favourable(next) THEN params.timelock
  ELSE Larger(params.timelock, Larger(params.timing.epoch + params.timing.cutoff,
                                      IF scheduled = NoTiming THEN 0 ELSE scheduled.epoch + scheduled.cutoff))

\* The open epoch is in its last `cutoff' seconds: a request is for the next one.
Late == left <= params.timing.cutoff

\* Not of the code: the case in which its delay is too short, a scheduled timing that is longer
\* with a shorter cutoff.  A late request then waits for the rest of this epoch and for all of a
\* longer one.
Stretched ==
  scheduled # NoTiming /\ scheduled.epoch > params.timing.epoch /\ scheduled.cutoff < params.timing.cutoff

\* stageParamsV3.  A depositor who wants to leave asks at once.
Stage(next) ==
  /\ staged = Nothing /\ request = 0 /\ left > 0
  /\ staged' = [to |-> next, wait |-> Delay(next), stretched |-> Stretched]
  /\ request' = IF Late THEN 2 ELSE 1
  /\ UNCHANGED <<params, scheduled, left>>

\* applyParams.  A change of timing takes effect at the next close.
Apply ==
  /\ staged # Nothing /\ staged.wait = 0 /\ left > 0
  /\ staged' = Nothing
  /\ params' = [staged.to EXCEPT !.timing = params.timing]
  /\ scheduled' = IF staged.to.timing = params.timing THEN NoTiming ELSE staged.to.timing
  /\ UNCHANGED <<left, request>>

\* The epoch closes at its end, before anything else happens in that second.
Close ==
  /\ left = 0
  /\ params' = [params EXCEPT !.timing = Following]
  /\ scheduled' = NoTiming
  /\ left' = Following.epoch
  /\ request' = IF request = 0 THEN 0 ELSE request - 1
  /\ UNCHANGED staged

Second ==
  /\ left > 0
  /\ left' = left - 1
  /\ staged' = [staged EXCEPT !.wait = IF @ = 0 THEN 0 ELSE @ - 1]
  /\ UNCHANGED <<params, scheduled, request>>

NoticeNext ==
  \/ Apply \/ Close \/ Second
  \/ \E next \in VaultParams : Stage(next)

NoticeSpec == NoticeInit /\ [][NoticeNext]_noticeVars

(***************************************************************************)
(* Properties                                                              *)
(***************************************************************************)
\* A change that a depositor can lose by is applied only after the close that prices a
\* request to leave made when it was staged, whenever in the epoch that was: whatever makes a
\* rate higher, or changes anything else or the timing that applies next, has waited for that.
\* The delay does not give it if, at staging, a longer timing with a shorter cutoff was
\* scheduled.  (flp/index.ts 277-298)
ExitBeforeChange ==
  [][\/ params'.rates > params.rates \/ params'.others # params.others
     \/ params'.timelock # params.timelock \/ Following' # Following
     => request = 0 \/ staged.stretched]_noticeVars

\* The seconds until the request is priced are not more than those the change still waits.
NoticeInv ==
  /\ params \in VaultParams /\ scheduled \in Timing \cup {NoTiming}
  /\ left \in 0 .. params.timing.epoch
  /\ request \in 0 .. 2
  /\ staged \in [to : VaultParams \cup {NoTiming}, wait : Nat, stretched : BOOLEAN]
  /\ staged.to = NoTiming => staged = Nothing
  /\ staged # Nothing /\ ~Favourable(staged.to) /\ ~staged.stretched =>
       /\ request >= 1 => left <= staged.wait
       /\ request = 2 => left + Following.epoch <= staged.wait
=============================================================================
