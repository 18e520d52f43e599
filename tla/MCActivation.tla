---------------------------- MODULE MCActivation ----------------------------
(***************************************************************************)
(* A block of work two, and a branch that starts with a block of work one  *)
(* and has two ends: one as good as the first block, and a better one.     *)
(* The entries lie in memory so that the first block loses the tie after a *)
(* restart.                                                                *)
(***************************************************************************)
EXTENDS ChainActivation

MCBlocks == {"g", "a1", "b1", "b2", "c2"}
MCParent == [b \in MCBlocks \ {"g"} |-> IF b \in {"a1", "b1"} THEN "g" ELSE "b1"]
MCChainWork == [b \in MCBlocks |->
    CASE b = "g" -> 0 [] b = "b1" -> 1 [] b = "c2" -> 3 [] OTHER -> 2]
MCAddress == [b \in MCBlocks |->
    CASE b = "g" -> 0 [] b = "b1" -> 1 [] b = "b2" -> 2 [] b = "c2" -> 3 [] OTHER -> 4]

\* The mixes of a behaviour: a chain lock and nothing else ("lock"), a chain lock
\* and, once there is one, a restart or a command but preciousblock ("locks"),
\* or no chain lock and two restarts or commands ("operator").
CONSTANT Mixes
VARIABLE mix

MCInit == Init /\ mix \in Mixes
MCNext ==
    /\ Next
    /\ mix = "locks" /\ bounds' # bounds =>
          bounds = <<0, 0>> /\ lock.index # None /\ op.pc = "idle" /\ ix'.reverseSeq = -1
    /\ mix = "lock" => bounds' = bounds
    /\ mix = "operator" => commands' + restarts' <= 2 /\ clsig' = <<>>
    /\ UNCHANGED mix
MCSpec == MCInit /\ [][MCNext]_<<vars, mix>>
MCFairSpec == MCSpec /\ Fairness
=============================================================================
