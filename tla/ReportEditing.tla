---------------------------- MODULE ReportEditing ----------------------------
(***************************************************************************)
(* Analysts edit the report of one incident: the report editor of the web  *)
(* client (frontend/src/components/IncidentReportEditor.tsx on top of      *)
(* hooks/useApiResource.ts and api/client.ts) and the endpoints it calls   *)
(* (GET and PUT /incidents/{id}/report of api/incidents.py).               *)
(*                                                                         *)
(* The database session of a request commits when its dependency is left   *)
(* (db/session.py), which the framework does after it has sent the answer. *)
(* So the answer to a save travels while the incident row is still locked: *)
(* it may be read before the commit, it may get lost though the commit     *)
(* succeeds, and the commit may fail though the client was told that the   *)
(* report is saved.  What a save may overwrite is decided by the version   *)
(* the editor holds, and the editor learns versions from such answers.     *)
(*                                                                         *)
(* IncidentStore has the save beside the other mutations of an incident;   *)
(* here it is one step under the row lock and the clients are the subject. *)
(***************************************************************************)
EXTENDS Naturals, Sequences

CONSTANTS
  Tab,        \* browser tabs with the incident open
  Text,       \* what an analyst may write into the report
  NoText,     \* the empty report
  MaxOpens,   \* bound: how often the report is opened
  MaxSaves,   \* bound: how many saves are sent
  MaxFaults,  \* bound: how many answers are lost or commits fail
  NoSave, NoAnswer

ASSUME SentinelAssumption ==
  /\ NoText \notin Text
  /\ NoSave \notin Nat
  /\ NoAnswer \notin {"saved", "refused"}

VARIABLES
  report,    \* the committed report: version and text
  saves,     \* the saves sent so far; a save is numbered in this order
  lock,      \* the save that holds the row lock, from its flush to its end
  editor,    \* the report editor of each tab
  opens, faults,
  lost       \* reports a client was told of that were then rolled back

server == <<report, lock, lost>>
vars == <<report, saves, lock, editor, opens, faults, lost>>

Report(v, x) == [version |-> v, text |-> x]

(***************************************************************************)
(* An editor that is open holds the report it was given last (shown), the  *)
(* fields as the analyst has them now and the save it waits for.           *)
(***************************************************************************)
Closed == [state |-> "closed", shown |-> Report(0, NoText),
           fields |-> NoText, save |-> NoSave]

Init ==
  /\ report = Report(0, NoText)
  /\ saves = <<>>
  /\ lock = NoSave
  /\ editor = [t \in Tab |-> Closed]
  /\ opens = 0
  /\ faults = 0
  /\ lost = {}

-----------------------------------------------------------------------------
(***************************************************************************)
(* Opening the report: useApiResource loads it for the editor              *)
(***************************************************************************)
Open(t) ==
  /\ editor[t].state = "closed"
  /\ opens < MaxOpens
  /\ opens' = opens + 1
  /\ editor' = [editor EXCEPT ![t].state = "loading"]
  /\ UNCHANGED <<server, saves, faults>>

\* The GET reads the committed report; it does not wait for the row lock.
ReadReport(t) ==
  /\ editor[t].state = "loading"
  /\ editor' = [editor EXCEPT ![t].state = "answered", ![t].shown = report]
  /\ UNCHANGED <<server, saves, opens, faults>>

ShowReport(t) ==
  /\ editor[t].state = "answered"
  /\ editor' = [editor EXCEPT ![t].state = "open",
                              ![t].fields = editor[t].shown.text]
  /\ UNCHANGED <<server, saves, opens, faults>>

\* An error is shown instead of the editor until the report is opened again.
LoadFails(t) ==
  /\ editor[t].state \in {"loading", "answered"}
  /\ faults < MaxFaults
  /\ faults' = faults + 1
  /\ editor' = [editor EXCEPT ![t].state = "failed"]
  /\ UNCHANGED <<server, saves, opens>>

\* The component is unmounted: its load is aborted, its answer ignored.  A
\* save that was sent goes on without it.
Close(t) ==
  /\ editor[t].state # "closed"
  /\ editor' = [editor EXCEPT ![t] = Closed]
  /\ UNCHANGED <<server, saves, opens, faults>>

\* The fields stay editable while a save is under way.
Type(t) ==
  /\ editor[t].state = "open"
  /\ \E x \in Text : editor' = [editor EXCEPT ![t].fields = x]
  /\ UNCHANGED <<server, saves, opens, faults>>

-----------------------------------------------------------------------------
(***************************************************************************)
(* Saving                                                                  *)
(***************************************************************************)
\* One save at a time in a mounted editor: the button is disabled.
Save(t) ==
  LET e == editor[t]
  IN  /\ e.state = "open" /\ e.save = NoSave
      /\ Len(saves) < MaxSaves
      /\ saves' = Append(saves, [tab |-> t, shown |-> e.shown,
                                 text |-> e.fields, stage |-> "sent",
                                 answer |-> NoAnswer])
      /\ editor' = [editor EXCEPT ![t].save = Len(saves) + 1]
      /\ UNCHANGED <<server, opens, faults>>

\* What the save i makes of the report.
Saved(i) == Report(saves[i].shown.version + 1, saves[i].text)

\* The row lock is free and nobody has answered the save yet.
Handled(i) == saves[i].stage = "sent" /\ lock = NoSave

\* save_incident_report under the row lock, its flush, and the answer.
Accept(i) ==
  /\ Handled(i)
  /\ report.version = saves[i].shown.version
  /\ lock' = i
  /\ saves' = [saves EXCEPT ![i].stage = "flushed", ![i].answer = "saved"]
  /\ UNCHANGED <<report, lost, editor, opens, faults>>

\* 409: "Incident report version is stale."
Refuse(i) ==
  /\ Handled(i)
  /\ report.version # saves[i].shown.version
  /\ saves' = [saves EXCEPT ![i].stage = "ended", ![i].answer = "refused"]
  /\ UNCHANGED <<server, editor, opens, faults>>

\* An error before the answer: nothing is written and the client is told.
SaveFails(i) ==
  /\ saves[i].stage = "sent"
  /\ faults < MaxFaults
  /\ faults' = faults + 1
  /\ saves' = [saves EXCEPT ![i].stage = "ended", ![i].answer = "refused"]
  /\ UNCHANGED <<server, editor, opens>>

Commit(i) ==
  /\ lock = i
  /\ report' = Saved(i)
  /\ lock' = NoSave
  /\ saves' = [saves EXCEPT ![i].stage = "ended"]
  /\ UNCHANGED <<lost, editor, opens, faults>>

\* The connection is lost at the commit, after the answer was sent.
CommitFails(i) ==
  /\ lock = i
  /\ faults < MaxFaults
  /\ faults' = faults + 1
  /\ lost' = lost \union {Saved(i)}
  /\ lock' = NoSave
  /\ saves' = [saves EXCEPT ![i].stage = "ended"]
  /\ UNCHANGED <<report, editor, opens>>

-----------------------------------------------------------------------------
(***************************************************************************)
(* The answer to the save an editor waits for                              *)
(***************************************************************************)
\* Mutant: the analyst's fields are kept and taken for the saved report.
ShowSaved_KeepsFields(t) ==
  LET i == editor[t].save
  IN  /\ i # NoSave
      /\ saves[i].answer = "saved"
      /\ editor' = [editor EXCEPT
           ![t].shown = Report(Saved(i).version, editor[t].fields),
           ![t].save = NoSave]
      /\ UNCHANGED <<server, saves, opens, faults>>

\* The stored report replaces the fields, what was typed meanwhile included.
ShowSaved(t) ==
  LET i == editor[t].save
  IN  /\ i # NoSave
      /\ saves[i].answer = "saved"
      /\ editor' = [editor EXCEPT ![t].shown = Saved(i),
                                  ![t].fields = Saved(i).text,
                                  ![t].save = NoSave]
      /\ UNCHANGED <<server, saves, opens, faults>>

\* A message is shown; version and fields stay as they are.
ShowError(t) ==
  LET i == editor[t].save
  IN  /\ i # NoSave
      /\ saves[i].answer = "refused"
      /\ editor' = [editor EXCEPT ![t].save = NoSave]
      /\ UNCHANGED <<server, saves, opens, faults>>

\* The fetch fails, whatever becomes of the save on the server.
LoseAnswer(t) ==
  /\ editor[t].save # NoSave
  /\ faults < MaxFaults
  /\ faults' = faults + 1
  /\ editor' = [editor EXCEPT ![t].save = NoSave]
  /\ UNCHANGED <<server, saves, opens>>

-----------------------------------------------------------------------------
Next ==
  \/ \E t \in Tab : \/ Open(t) \/ ReadReport(t) \/ ShowReport(t)
                     \/ LoadFails(t) \/ Close(t) \/ Type(t) \/ Save(t)
                     \/ ShowSaved(t) \/ ShowError(t) \/ LoseAnswer(t)
  \/ \E i \in 1..Len(saves) : \/ Accept(i) \/ Refuse(i) \/ SaveFails(i)
                               \/ Commit(i) \/ CommitFails(i)

Spec == Init /\ [][Next]_vars

-----------------------------------------------------------------------------
\* No analyst overwrites what they were not shown: a save that commits over a
\* report was sent from an editor that showed exactly this report, version
\* and text, though editors are opened and answered while saves are being
\* committed, answers get lost and saves go on without their editor.  The
\* exception is an editor that was told of a report which a failing commit
\* then took back: its version may meanwhile belong to another text.
NoBlindOverwrite ==
  [][report' # report =>
       \E i \in 1..Len(saves) :
         /\ lock = i
         /\ report' = Saved(i)
         /\ saves[i].shown \in {report} \union lost]_vars
=============================================================================
