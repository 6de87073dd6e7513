---------------------------- MODULE MCTaManager -----------------------------
(* Instances of TaManager for TLC. *)
EXTENDS TaManager, TLC

CONSTANTS SI,       \* a single-instance, multi-session TA
          SS,       \* a single-instance, single-session TA that is kept alive
          MI,       \* a multi-instance TA
          PTA       \* a pseudo TA

MCFlags == [u \in Uuids |->
    CASE u = SI -> {"SINGLE_INSTANCE", "MULTI_SESSION"}
      [] u = SS -> {"SINGLE_INSTANCE", "KEEP_ALIVE"}
      [] u = MI -> {}
      [] u = PTA -> {"SINGLE_INSTANCE", "MULTI_SESSION", "KEEP_ALIVE", "CONCURRENT"}]

Symmetry == Permutations(Threads) \cup Permutations(Sessions) \cup Permutations(Ctxs)

=============================================================================
