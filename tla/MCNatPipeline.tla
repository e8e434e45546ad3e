---------------------------- MODULE MCNatPipeline ----------------------------
(* Small instances of NatPipeline for TLC. *)
EXTENDS NatPipeline, TLC

CONSTANTS t1, t2

OneNat        == 1 :> "nat"
OneSpin       == 1 :> "manual_spin"
OneAssomi     == 1 :> "manual_assomi"
NatAndSpin    == 1 :> "nat" @@ 2 :> "manual_spin"
TwoNat        == 1 :> "nat" @@ 2 :> "nat"
SpinAndAssomi == 1 :> "manual_spin" @@ 2 :> "manual_assomi"

TaskOfOne   == t1 :> 1
TasksOfOne  == t1 :> 1 @@ t2 :> 1
TaskOfEach  == t1 :> 1 @@ t2 :> 2

\* Replicas of a worker run the same loop.
Replicas == Permutations(StatusWorkers) \cup Permutations(NotifyWorkers)
            \cup Permutations(AssomiWorkers) \cup Permutations(MailWorkers)
=============================================================================
