--------------------------- MODULE IncidentReader ---------------------------
(***************************************************************************)
(* GET /incidents/{id} (get_incident_detail of incidents/repository.py)    *)
(* beside the writers of IncidentStore.  The reader takes no lock and its  *)
(* statements run at READ COMMITTED, so each of them sees what was         *)
(* committed when it ran: first the incident row, then the memberships,    *)
(* then the timeline, and at last the histories and notes.  The page may   *)
(* mix several moments; what it shows depends on this order.               *)
(*                                                                         *)
(* The log is append-only, so a statement that reads it is kept as the     *)
(* length of the log it saw.                                               *)
(***************************************************************************)
EXTENDS IncidentStore

CONSTANT NoDetail
VARIABLE detail    \* the response a reader is putting together, or NoDetail

readerVars == <<vars, detail>>

Detail(k, stage, incident, memberships, timeline, history) ==
  [key |-> k, stage |-> stage, incident |-> incident,
   memberships |-> memberships, timeline |-> timeline, history |-> history]

ReaderInit == Init /\ detail = NoDetail

\* session.get: the row that every later part of the response describes.
ReadIncident(k) ==
  /\ detail = NoDetail
  /\ Exists(k)
  /\ detail' = Detail(k, "memberships", row[k], {}, 0, 0)
  /\ UNCHANGED vars

ReadMemberships ==
  /\ detail # NoDetail /\ detail.stage = "memberships"
  /\ detail' = [detail EXCEPT !.stage = "timeline",
                              !.memberships = DOMAIN members[detail.key]]
  /\ UNCHANGED vars

ReadTimeline ==
  /\ detail # NoDetail /\ detail.stage = "timeline"
  /\ detail' = [detail EXCEPT !.stage = "history",
                              !.timeline = Len(log[detail.key])]
  /\ UNCHANGED vars

\* Mutant: the row is loaded again when the response is built.
ReadHistories_Refreshed ==
  /\ detail # NoDetail /\ detail.stage = "history"
  /\ detail' = [detail EXCEPT !.stage = "answered",
                              !.incident = row[detail.key],
                              !.history = Len(log[detail.key])]
  /\ UNCHANGED vars

\* Status history, severity history and notes, and the response.
ReadHistories ==
  /\ detail # NoDetail /\ detail.stage = "history"
  /\ detail' = [detail EXCEPT !.stage = "answered",
                              !.history = Len(log[detail.key])]
  /\ UNCHANGED vars

\* The session of the reader ends, with or without an answer.
EndRead ==
  /\ detail # NoDetail
  /\ detail' = NoDetail
  /\ UNCHANGED vars

ReaderNext ==
  \/ Next /\ UNCHANGED detail
  \/ \E k \in Key : ReadIncident(k)
  \/ ReadMemberships \/ ReadTimeline \/ ReadHistories \/ EndRead

ReaderSpec == ReaderInit /\ [][ReaderNext]_readerVars

-----------------------------------------------------------------------------
\* The row r is the incident as the first n entries of s leave it.
Explains(s, n, r) ==
  /\ r.version = s[n].after
  /\ r.status = ValueAfter(s, n, "STATUS", "OPEN")
  /\ r.severity = ValueAfter(s, n, "SEVERITY", s[1].new)
  /\ r.assignee = ValueAfter(s, n, "ASSIGN", NoUser)
  /\ r.disposition = ValueAfter(s, n, "DISPOSITION", "UNREVIEWED")

\* The incident a page shows is never ahead of what the page shows below it:
\* its version, status, severity, assignee and disposition are those the
\* incident had after some beginning of the timeline on the page, its
\* evidence_count is covered by the memberships on the page, and the status
\* and severity histories reach at least as far as the timeline.  A writer
\* that commits between two statements of get_incident_detail can make the
\* histories newer than the incident, never older.
PageIsExplained ==
  detail # NoDetail /\ detail.stage = "answered" =>
    /\ \E n \in 1..detail.timeline :
         Explains(log[detail.key], n, detail.incident)
    /\ detail.incident.evidence_count <= Cardinality(detail.memberships)
    /\ detail.timeline <= detail.history
=============================================================================
