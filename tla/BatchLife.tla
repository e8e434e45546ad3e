------------------------------ MODULE BatchLife ------------------------------
(***************************************************************************)
(* What the asynchronous pipeline promises about a batch, without workers, *)
(* row locks, requests and queues: a batch goes through the stages of its  *)
(* source in order and ends with one outcome; a hold keeps it from being   *)
(* handed on and enriched, a limit to its entry stage from being handed on *)
(* and reported; every report tells the outcome.                           *)
(***************************************************************************)
EXTENDS Naturals

CONSTANTS
  Batches,      \* nat_batches rows
  Source,       \* [Batches -> source of the intake]
  RespectPause  \* INTAKE_RESULT_EMAIL_RESPECT_PROCESSING_PAUSE

VARIABLES
  phase,    \* [Batches -> how far the batch is]
  outcome,  \* [Batches -> how it ended, "none" before]
  held,     \* [Batches -> BOOLEAN]: processing of the batch is paused
  limited,  \* [Batches -> BOOLEAN]: only the stage it came in by is asked for
  told,     \* [Batches -> what reports said]
  reported  \* [Batches -> BOOLEAN]: the report is on record

lifeVars == <<phase, outcome, held, limited, told, reported>>

\* The stage an upload enters by.
Entry(b) == CASE Source[b] = "nat"           -> "nat"
              [] Source[b] = "manual_spin"   -> "aggregation"
              [] Source[b] = "manual_assomi" -> "enriching"

Init ==
  /\ phase = [b \in Batches |-> "absent"]
  /\ outcome = [b \in Batches |-> "none"]
  /\ held = [b \in Batches |-> FALSE]
  /\ limited = [b \in Batches |-> FALSE]
  /\ told = [b \in Batches |-> {}]
  /\ reported = [b \in Batches |-> FALSE]

Moves(b, from, to) == phase[b] = from /\ phase' = [phase EXCEPT ![b] = to]

Ends(b, from, how) ==
  /\ Moves(b, from, "ended")
  /\ outcome' = [outcome EXCEPT ![b] = how]

Arrive(b, only) ==
  /\ Moves(b, "absent", Entry(b))
  /\ limited' = [limited EXCEPT ![b] = only]
  /\ UNCHANGED <<outcome, held, told, reported>>

\* Every NAT task of the batch has failed.
NatFails(b) ==
  /\ Ends(b, "nat", "nat_failed")
  /\ UNCHANGED <<held, limited, told, reported>>

HandOver(b) ==
  /\ ~held[b] /\ ~limited[b]
  /\ Moves(b, "nat", "aggregation")
  /\ UNCHANGED <<outcome, held, limited, told, reported>>

\* What has been handed over is aggregated whether the batch is held or not.
Aggregate(b) ==
  /\ \/ Moves(b, "aggregation", "aggregated") /\ UNCHANGED outcome
     \/ Ends(b, "aggregation", "aggregation_failed")
     \/ Ends(b, "aggregation", "no_spin")
  /\ UNCHANGED <<held, limited, told, reported>>

\* Aggregated batches are queued for enrichment together; a hold that comes in
\* between does not keep them from the queue, only from leaving it.
Enqueue(S) ==
  /\ S # {} /\ \A b \in S : phase[b] = "aggregated"
  /\ phase' = [b \in Batches |-> IF b \in S THEN "enriching" ELSE phase[b]]
  /\ UNCHANGED <<outcome, held, limited, told, reported>>

\* A limited batch is held as soon as its enrichment ends.
Enrich(b) ==
  /\ ~held[b]
  /\ \E how \in {"success", "assomi_failed"} : Ends(b, "enriching", how)
  /\ held' = [held EXCEPT ![b] = limited[b]]
  /\ UNCHANGED <<limited, told, reported>>

\* A report may go out without being put on record, and then goes out again.
Report(b) ==
  /\ phase[b] = "ended" /\ ~limited[b] /\ ~reported[b]
  /\ RespectPause => ~held[b]
  /\ told' = [told EXCEPT ![b] = @ \cup {outcome[b]}]
  /\ \E v \in BOOLEAN : reported' = [reported EXCEPT ![b] = v]
  /\ UNCHANGED <<phase, outcome, held, limited>>

\* Resuming a batch by hand lifts its limit as well.
Hold(b, v) ==
  /\ phase[b] # "absent"
  /\ held' = [held EXCEPT ![b] = v]
  /\ limited' = [limited EXCEPT ![b] = @ /\ v]
  /\ UNCHANGED <<phase, outcome, told, reported>>

Next ==
  \/ \E b \in Batches, v \in BOOLEAN : Arrive(b, v) \/ Hold(b, v)
  \/ \E b \in Batches : NatFails(b) \/ HandOver(b) \/ Aggregate(b) \/ Enrich(b) \/ Report(b)
  \/ \E S \in SUBSET Batches : Enqueue(S)

Spec == Init /\ [][Next]_lifeVars
=============================================================================
