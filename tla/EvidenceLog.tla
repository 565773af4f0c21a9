----------------------------- MODULE EvidenceLog -----------------------------
(***************************************************************************)
(* What the evidence store promises its readers: a set of records that     *)
(* only grows, in which no identity ever has two contents and no record is *)
(* there without its parents.                                              *)
(***************************************************************************)
EXTENDS EvidenceRecords

VARIABLE log

Init == log = {}

Append ==
  /\ log \subseteq log'
  /\ UniqueIdentities(log')
  /\ LineageClosed(log')

Spec == Init /\ [][Append]_log

=============================================================================
