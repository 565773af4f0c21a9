-------------------------- MODULE MCIncidentReader --------------------------
(* The instance of IncidentReader for TLC: the constants of MCIncident.    *)
EXTENDS MCIncident, IncidentReader
=============================================================================
