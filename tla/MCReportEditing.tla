-------------------------- MODULE MCReportEditing ---------------------------
(* The instance of ReportEditing for TLC: tabs and texts are alike.        *)
EXTENDS ReportEditing, TLC

Symmetry == Permutations(Tab) \union Permutations(Text)
=============================================================================
