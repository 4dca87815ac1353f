--------------------------- MODULE SmokeJournalLive ---------------------------
(***************************************************************************)
(* How an invocation of the smoke runner ends.  What distinguishes one     *)
(* that was killed from one that has ended by itself is history: the       *)
(* variable `killed' records it, and restricts no step.                    *)
(***************************************************************************)
EXTENDS SmokeJournal

VARIABLE killed   \* the invocations that were killed since they started

KillsInit == Init /\ killed = {}

KillsNext ==
  \/ (\E r \in Runners : Step(r)) /\ UNCHANGED killed
  \/ \E r \in Runners : (\E c \in Command : Acquire(r, c)) /\ killed' = killed \ {r}
  \/ \E r \in Runners : Crash(r) /\ killed' = killed \cup {r}
  \/ PowerFailure /\ killed' = Runners
  \/ (WriteBack \/ RemoveStaleLock \/ RemoveStaleTmp \/ Chain) /\ UNCHANGED killed

KillsSpec ==
  /\ KillsInit /\ [][KillsNext]_<<vars, killed>>
  /\ \A r \in Runners : WF_vars(Step(r))

-----------------------------------------------------------------------------
\* An invocation that is not killed ends, and when it has ended the lock is gone, whatever stopped
\* it: a gate, an RPC call, a save that found the .tmp of a killed invocation or could not be
\* synced, a send that threw.  Nobody else has to remove its lock.
\* (flp-mainnet-smoke.ts 58-62, 131-136)
RunnerEnds ==
  \A r \in Runners : Alive(r) ~> ~Alive(r) /\ (r \in killed \/ ~lock)

=============================================================================
