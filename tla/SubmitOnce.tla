----------------------------- MODULE SubmitOnce -----------------------------
(***************************************************************************)
(* What the smoke runner promises its operator, without files, locks,      *)
(* processes or crashes: an action is journaled with one signature, the    *)
(* signature is handed to the network only after it was journaled, and     *)
(* only when every signature journaled before it has succeeded on chain.   *)
(***************************************************************************)
CONSTANTS Actions, Sigs

VARIABLES
  journal,   \* the <<action, signature>> that no crash can lose any more
  handed,    \* those that were handed to the network
  succeeded  \* those that went through on chain

vars == <<journal, handed, succeeded>>

Init ==
  /\ journal = {}
  /\ handed = {}
  /\ succeeded = {}

\* An action enters the journal once, with a signature nothing else has.
Journal(a, s) ==
  /\ \A e \in journal : e[1] # a /\ e[2] # s
  /\ journal' = journal \cup {<<a, s>>}
  /\ UNCHANGED <<handed, succeeded>>

Hand(a, s) ==
  /\ <<a, s>> \in journal \ handed
  /\ journal \ {<<a, s>>} \subseteq succeeded
  /\ handed' = handed \cup {<<a, s>>}
  /\ UNCHANGED <<journal, succeeded>>

Succeed(a, s) ==
  /\ <<a, s>> \in handed \ succeeded
  /\ succeeded' = succeeded \cup {<<a, s>>}
  /\ UNCHANGED <<journal, handed>>

Next == \E a \in Actions, s \in Sigs : Journal(a, s) \/ Hand(a, s) \/ Succeed(a, s)

Spec == Init /\ [][Next]_vars
=============================================================================
