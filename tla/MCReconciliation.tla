-------------------------- MODULE MCReconciliation --------------------------
(* One symbol of the app's, one of the user's own, three orders of a day.  *)
EXTENDS Reconciliation

CONSTANTS a, b
=============================================================================
