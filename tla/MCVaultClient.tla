---------------------------- MODULE MCVaultClient ----------------------------
(* The three parts of the vault client that read or time a vault other than    *)
(* by walking its queue.  They share no state, so each behaviour is one of     *)
(* one part, and the others rest.                                              *)
EXTENDS EventQueues, RecoveryRead, ParamsNotice

VARIABLE part

mcVars == <<part, cacheVars, recoveryVars, noticeVars>>

AtRest ==
  /\ part # "queues"   => listed = {}
  /\ part # "recovery" => version = 4
  /\ part # "notice"   => params = CHOOSE p \in VaultParams : TRUE

Init == part \in {"queues", "recovery", "notice"} /\ CacheInit /\ RecoveryInit /\ NoticeInit /\ AtRest

Next ==
  \/ part = "queues"   /\ CacheNext    /\ UNCHANGED <<part, recoveryVars, noticeVars>>
  \/ part = "recovery" /\ RecoveryNext /\ UNCHANGED <<part, cacheVars, noticeVars>>
  \/ part = "notice"   /\ NoticeNext   /\ UNCHANGED <<part, cacheVars, recoveryVars>>

Spec == Init /\ [][Next]_mcVars

=============================================================================
