----------------------------- MODULE MCScheduler -----------------------------
EXTENDS Scheduler, TLC
CONSTANTS lic, self
MCTier == lic :> "licensing" @@ self :> "self_serve"
MCSymmetry == Permutations(Domains) \cup Permutations(Invocations)
=============================================================================
