---------------------------- MODULE MCIntakeDedup ----------------------------
(* Small instances of IntakeDedup for TLC. *)
EXTENDS IntakeDedup, TLC

CONSTANTS k1, k2, k3, bad

\* Crossing orders, a repeated row, an invalid row, no rows.
MixedFiles == {<<k1, k2>>, <<k2, k3, k1>>, <<bad, k1, k1>>, << >>}
=============================================================================
