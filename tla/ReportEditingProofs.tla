------------------------- MODULE ReportEditingProofs -------------------------
(***************************************************************************)
(* Proof that no analyst overwrites what they were not shown, for any      *)
(* number of tabs, texts, saves and faults.                                *)
(***************************************************************************)
EXTENDS ReportEditing, TLAPS

Reports == [version : Nat, text : Text \union {NoText}]
Editors == [state : {"closed", "loading", "answered", "open", "failed"},
            shown : Reports, fields : Text \union {NoText}, save : Nat \union {NoSave}]
Saves == [tab : Tab, shown : Reports, text : Text \union {NoText},
          stage : {"sent", "flushed", "ended"}, answer : {"saved", "refused", NoAnswer}]

\* Every variable that the argument needs has its type.
EditType ==
  /\ report \in Reports
  /\ saves \in Seq(Saves)
  /\ lock \in (1..Len(saves)) \union {NoSave}
  /\ editor \in [Tab -> Editors]
  /\ \A t \in Tab : editor[t].save # NoSave => editor[t].save \in 1..Len(saves)

\* What a client may have been shown: a report older than the stored one, the
\* stored one, the one that is being committed, or one that was taken back.
Known(x) ==
  \/ x.version < report.version
  \/ x = report
  \/ x \in lost
  \/ lock # NoSave /\ x = Saved(lock)

\* The inductive invariant.  A version alone does not tell a report: what
\* makes the check of versions sound is that all that was ever shown is known.
EditInv ==
  /\ EditType
  /\ report.version = 0 => report = Report(0, NoText)
  /\ \A t \in Tab : Known(editor[t].shown)
  /\ \A i \in 1..Len(saves) :
       Known(saves[i].shown) /\ (saves[i].answer = "saved" => Known(Saved(i)))
  /\ lock # NoSave => /\ saves[lock].shown.version = report.version
                      /\ saves[lock].stage = "flushed" /\ saves[lock].answer = "saved"

-----------------------------------------------------------------------------
(***************************************************************************)
(* What the actions have in common                                         *)
(***************************************************************************)
\* A step of an editor alone: what it shows next must be known, and it waits
\* for no save or for one that was sent.
LEMMA EditorStep ==
  ASSUME EditInv, NEW t \in Tab, NEW e \in Editors,
         UNCHANGED <<server, saves>>, editor' = [editor EXCEPT ![t] = e],
         Known(e.shown), e.save # NoSave => e.save \in 1..Len(saves)
  PROVE  EditInv'
  <1>1. \A u \in Tab : editor'[u] = IF u = t THEN e ELSE editor[u]
    BY DEF EditInv, EditType
  <1>2. EditType'
    BY <1>1 DEF EditInv, EditType, server
  <1>3. \A u \in Tab : Known(editor[u].shown)'
    BY <1>1 DEF EditInv, Known, Saved, server
  <1> QED
    BY <1>2, <1>3 DEF EditInv, Known, Saved, server

\* The first empty report is known for ever.
LEMMA EmptyIsKnown ==
  ASSUME EditInv
  PROVE  Known(Report(0, NoText)) /\ Closed \in Editors
  BY DEF EditInv, EditType, Known, Report, Reports, Closed, Editors

\* A save is marked: what it would store stays.
LEMMA MarkedSave ==
  ASSUME EditInv, NEW i \in 1..Len(saves), NEW stage \in {"sent", "flushed", "ended"},
         NEW answer \in {"saved", "refused", NoAnswer},
         saves' = [saves EXCEPT ![i] = [saves[i] EXCEPT !.stage = stage, !.answer = answer]]
  PROVE  /\ saves' \in Seq(Saves) /\ Len(saves') = Len(saves)
         /\ \A j \in 1..Len(saves) : j # i => saves'[j] = saves[j]
         /\ saves'[i].shown = saves[i].shown /\ saves'[i].text = saves[i].text
         /\ saves'[i].stage = stage /\ saves'[i].answer = answer
  <1>1. saves \in Seq(Saves) /\ saves[i] \in Saves
    BY DEF EditInv, EditType
  <1> DEFINE e == [saves[i] EXCEPT !.stage = stage, !.answer = answer]
  <1>2. /\ e \in Saves /\ e.shown = saves[i].shown /\ e.text = saves[i].text
        /\ e.stage = stage /\ e.answer = answer
    BY <1>1 DEF Saves
  <1> HIDE DEF e
  <1>3. \A j \in 1..Len(saves) : saves'[j] = IF j = i THEN e ELSE saves[j]
    BY <1>1 DEF e
  <1>4. saves' \in Seq(Saves) /\ Len(saves') = Len(saves)
    BY <1>1, <1>2 DEF e
  <1> QED
    BY <1>1, <1>2, <1>3, <1>4

-----------------------------------------------------------------------------
(***************************************************************************)
(* Every action preserves the invariant                                    *)
(***************************************************************************)
LEMMA InitEditInv == Init => EditInv
  BY SentinelAssumption
  DEF Init, EditInv, EditType, Report, Reports, Closed, Editors, Saves, Known

\* The actions of a tab that send nothing.
LEMMA TabStep ==
  ASSUME EditInv, NEW t \in Tab,
         \/ Open(t) \/ ReadReport(t) \/ ShowReport(t) \/ LoadFails(t) \/ Close(t)
         \/ Type(t) \/ ShowSaved(t) \/ ShowError(t) \/ LoseAnswer(t)
  PROVE  EditInv'
  <1>1. /\ editor \in [Tab -> Editors] /\ editor[t] \in Editors /\ Known(editor[t].shown)
        /\ editor[t].save # NoSave => editor[t].save \in 1..Len(saves)
    BY DEF EditInv, EditType
  <1>2. ASSUME NEW e \in Editors, editor' = [editor EXCEPT ![t] = e], Known(e.shown),
               e.save \in {NoSave, editor[t].save}, UNCHANGED <<server, saves>>
        PROVE  EditInv'
    BY <1>1, <1>2, EditorStep
  <1>3. CASE Open(t) \/ LoadFails(t)
    <2>1. PICK st \in {"loading", "failed"} :
            /\ editor' = [editor EXCEPT ![t] = [editor[t] EXCEPT !.state = st]]
            /\ UNCHANGED <<server, saves>>
      BY <1>3 DEF Open, LoadFails
    <2>2. /\ [editor[t] EXCEPT !.state = st] \in Editors
          /\ [editor[t] EXCEPT !.state = st].shown = editor[t].shown
          /\ [editor[t] EXCEPT !.state = st].save = editor[t].save
      BY <1>1 DEF Editors
    <2> QED
      BY <1>1, <1>2, <2>1, <2>2
  <1>4. CASE ReadReport(t)
    <2> DEFINE e == [editor[t] EXCEPT !.state = "answered", !.shown = report]
    <2>1. editor' = [editor EXCEPT ![t] = e] /\ UNCHANGED <<server, saves>>
      BY <1>1, <1>4 DEF ReadReport
    <2>2. e \in Editors /\ e.shown = report /\ e.save = editor[t].save
      BY <1>1 DEF Editors, EditInv, EditType
    <2>3. Known(report)
      BY DEF Known
    <2> HIDE DEF e
    <2> QED
      BY <1>2, <2>1, <2>2, <2>3
  <1>5. CASE ShowReport(t)
    <2> DEFINE e == [editor[t] EXCEPT !.state = "open", !.fields = editor[t].shown.text]
    <2>1. editor' = [editor EXCEPT ![t] = e] /\ UNCHANGED <<server, saves>>
      BY <1>1, <1>5 DEF ShowReport
    <2>2. e \in Editors /\ e.shown = editor[t].shown /\ e.save = editor[t].save
      BY <1>1 DEF Editors, Reports
    <2> HIDE DEF e
    <2> QED
      BY <1>1, <1>2, <2>1, <2>2
  <1>6. CASE Close(t)
    <2>1. editor' = [editor EXCEPT ![t] = Closed] /\ UNCHANGED <<server, saves>>
      BY <1>6 DEF Close
    <2>2. Closed.shown = Report(0, NoText) /\ Closed.save = NoSave
      BY DEF Closed
    <2> QED
      BY <1>2, <2>1, <2>2, EmptyIsKnown
  <1>7. CASE Type(t)
    <2>1. PICK x \in Text : editor' = [editor EXCEPT ![t] = [editor[t] EXCEPT !.fields = x]]
      BY <1>1, <1>7 DEF Type
    <2>2. /\ [editor[t] EXCEPT !.fields = x] \in Editors
          /\ [editor[t] EXCEPT !.fields = x].shown = editor[t].shown
          /\ [editor[t] EXCEPT !.fields = x].save = editor[t].save
      BY <1>1 DEF Editors
    <2>3. UNCHANGED <<server, saves>>
      BY <1>7 DEF Type
    <2> QED
      BY <1>1, <1>2, <2>1, <2>2, <2>3
  <1>8. CASE ShowSaved(t)
    <2> DEFINE i == editor[t].save
               e == [editor[t] EXCEPT !.shown = Saved(i), !.fields = Saved(i).text,
                                      !.save = NoSave]
    <2>1. /\ editor' = [editor EXCEPT ![t] = e] /\ UNCHANGED <<server, saves>>
          /\ i # NoSave /\ saves[i].answer = "saved"
      BY <1>1, <1>8 DEF ShowSaved
    <2>2. i \in 1..Len(saves) /\ saves[i] \in Saves /\ Known(Saved(i))
      BY <1>1, <2>1 DEF EditInv, EditType
    <2>3. Saved(i) \in Reports
      BY <2>2 DEF Saved, Report, Reports, Saves
    <2>4. e \in Editors /\ e.shown = Saved(i) /\ e.save = NoSave
      BY <1>1, <2>3 DEF Editors, Reports
    <2> HIDE DEF e, i
    <2> QED
      BY <1>2, <2>1, <2>2, <2>4
  <1>9. CASE ShowError(t) \/ LoseAnswer(t)
    <2>1. /\ editor' = [editor EXCEPT ![t] = [editor[t] EXCEPT !.save = NoSave]]
          /\ UNCHANGED <<server, saves>>
      BY <1>9 DEF ShowError, LoseAnswer
    <2>2. /\ [editor[t] EXCEPT !.save = NoSave] \in Editors
          /\ [editor[t] EXCEPT !.save = NoSave].shown = editor[t].shown
          /\ [editor[t] EXCEPT !.save = NoSave].save = NoSave
      BY <1>1 DEF Editors
    <2> QED
      BY <1>1, <1>2, <2>1, <2>2
  <1> QED
    BY <1>3, <1>4, <1>5, <1>6, <1>7, <1>8, <1>9

\* A save is sent with the report its editor shows.
LEMMA SaveStep ==
  ASSUME EditInv, NEW t \in Tab, Save(t)
  PROVE  EditInv'
  <1> DEFINE n == Len(saves)
             new == [tab |-> t, shown |-> editor[t].shown, text |-> editor[t].fields,
                     stage |-> "sent", answer |-> NoAnswer]
             e == [editor[t] EXCEPT !.save = n + 1]
  <1>1. /\ saves' = Append(saves, new) /\ editor' = [editor EXCEPT ![t] = e]
        /\ UNCHANGED server
    BY DEF Save, EditInv, EditType
  <1>2. /\ saves \in Seq(Saves) /\ editor \in [Tab -> Editors] /\ editor[t] \in Editors
        /\ n \in Nat
    BY DEF EditInv, EditType
  <1>3. new \in Saves /\ e \in Editors /\ e.shown = editor[t].shown /\ e.save = n + 1
    BY <1>2 DEF Editors, Saves
  <1> HIDE DEF e
  <1>4. /\ saves' \in Seq(Saves) /\ Len(saves') = n + 1 /\ saves'[n + 1] = new
        /\ \A i \in 1..n : saves'[i] = saves[i]
    <2> HIDE DEF new
    <2> QED
      BY <1>1, <1>2, <1>3
  <1>5. \A u \in Tab : editor'[u] = IF u = t THEN e ELSE editor[u]
    BY <1>1, <1>2
  <1>6. EditType'
    <2>1. lock' \in (1..Len(saves')) \union {NoSave}
      BY <1>1, <1>2, <1>4 DEF EditInv, EditType, server
    <2>2. \A u \in Tab : editor'[u].save # NoSave => editor'[u].save \in 1..Len(saves')
      BY <1>2, <1>3, <1>4, <1>5 DEF EditInv, EditType
    <2> QED
      BY <1>1, <1>2, <1>3, <1>4, <2>1, <2>2 DEF EditInv, EditType, server
  <1>7. ASSUME NEW x, Known(x) PROVE Known(x)'
    BY <1>1, <1>4, <1>7 DEF Known, Saved, EditInv, EditType, server
  <1>8. \A i \in 1..n : Saved(i)' = Saved(i)
    BY <1>4 DEF Saved
  <1>9. \A u \in Tab : Known(editor[u].shown)'
    BY <1>3, <1>5, <1>7 DEF EditInv
  <1>10. \A i \in 1..Len(saves') :
           Known(saves[i].shown)' /\ (saves'[i].answer = "saved" => Known(Saved(i))')
    <2> SUFFICES ASSUME NEW i \in 1..n + 1
                 PROVE  Known(saves[i].shown)' /\ (saves'[i].answer = "saved" => Known(Saved(i))')
      BY <1>4
    <2>1. CASE i = n + 1
      BY <1>4, <1>7, <2>1, SentinelAssumption DEF EditInv
    <2>2. CASE i \in 1..n
      BY <1>4, <1>7, <1>8, <2>2 DEF EditInv
    <2> QED
      BY <1>2, <2>1, <2>2
  <1> QED
    BY <1>1, <1>4, <1>6, <1>9, <1>10 DEF EditInv, EditType, server

\* The server's steps: what was known stays known, because a commit turns the
\* report in flight into the stored one and a failed commit into a lost one.
LEMMA ServerStep ==
  ASSUME EditInv, NEW i \in 1..Len(saves),
         Accept(i) \/ Refuse(i) \/ SaveFails(i) \/ Commit(i) \/ CommitFails(i)
  PROVE  EditInv'
  <1>1. PICK stage \in {"sent", "flushed", "ended"}, answer \in {"saved", "refused", NoAnswer} :
          /\ saves' = [saves EXCEPT ![i] = [saves[i] EXCEPT !.stage = stage,
                                                           !.answer = answer]]
          /\ answer = "saved" => Accept(i) \/ saves[i].answer = "saved"
          /\ lock' # NoSave => lock' = i \/ lock' = lock
    <2>1. saves \in Seq(Saves) /\ saves[i] \in Saves
      BY DEF EditInv, EditType
    <2>2. saves[i].answer \in {"saved", "refused", NoAnswer}
      BY <2>1 DEF Saves
    <2>3. CASE Commit(i) \/ CommitFails(i)
      <3>1. saves' = [saves EXCEPT ![i] = [saves[i] EXCEPT !.stage = "ended"]] /\ lock' = NoSave
        BY <2>1, <2>3 DEF Commit, CommitFails
      <3>2. [saves[i] EXCEPT !.stage = "ended"]
              = [saves[i] EXCEPT !.stage = "ended", !.answer = saves[i].answer]
        BY <2>1 DEF Saves
      <3> QED
        BY <2>2, <3>1, <3>2
    <2>4. CASE Accept(i)
      BY <2>1, <2>4 DEF Accept
    <2>5. CASE Refuse(i) \/ SaveFails(i)
      BY <2>1, <2>5 DEF Refuse, SaveFails, server
    <2> QED
      BY <2>3, <2>4, <2>5
  <1>2. /\ saves' \in Seq(Saves) /\ Len(saves') = Len(saves)
        /\ \A j \in 1..Len(saves) :
             /\ saves[j] \in Saves /\ saves'[j] \in Saves
             /\ saves'[j].shown = saves[j].shown /\ saves'[j].text = saves[j].text
             /\ saves'[j].answer = IF j = i THEN answer ELSE saves[j].answer
             /\ saves'[j].stage = IF j = i THEN stage ELSE saves[j].stage
    <2>1. /\ saves' \in Seq(Saves) /\ Len(saves') = Len(saves)
          /\ \A j \in 1..Len(saves) : j # i => saves'[j] = saves[j]
          /\ saves'[i].shown = saves[i].shown /\ saves'[i].text = saves[i].text
          /\ saves'[i].stage = stage /\ saves'[i].answer = answer
      BY <1>1, MarkedSave
    <2>2. saves \in Seq(Saves)
      BY DEF EditInv, EditType
    <2> QED
      BY <2>1, <2>2
  <1>3. \A j \in 1..Len(saves) : Saved(j)' = Saved(j) /\ Saved(j) \in Reports
    BY <1>2 DEF Saved, Report, Reports, Saves
  <1>4. lock \in (1..Len(saves)) \union {NoSave} /\ report \in Reports /\ NoSave \notin 1..Len(saves)
    BY SentinelAssumption DEF EditInv, EditType
  <1>5. editor' = editor
    BY DEF Accept, Refuse, SaveFails, Commit, CommitFails
  <1>6. \/ UNCHANGED <<report, lost, lock>>
        \/ UNCHANGED <<report, lost>> /\ lock = NoSave
        \/ Commit(i)
        \/ CommitFails(i)
    <2>1. CASE Accept(i)
      BY <2>1 DEF Accept, Handled
    <2>2. CASE Refuse(i) \/ SaveFails(i)
      <3>1. UNCHANGED server
        BY <2>2 DEF Refuse, SaveFails
      <3> QED
        BY <3>1 DEF server
    <2> QED
      BY <2>1, <2>2
  <1>7. ASSUME NEW x, Known(x), x.version \in Nat PROVE Known(x)'
    <2>1. CASE UNCHANGED <<report, lost, lock>>
      BY <1>3, <1>4, <1>7, <2>1 DEF Known
    <2>2. CASE UNCHANGED <<report, lost>> /\ lock = NoSave
      BY <1>7, <2>2 DEF Known
    <2>3. CASE Commit(i)
      <3>1. report' = Saved(i) /\ Saved(i).version = report.version + 1 /\ lost' = lost /\ lock = i
        BY <1>4, <2>3 DEF Commit, Saved, Report, EditInv
      <3> QED
        BY <1>4, <1>7, <3>1 DEF Known, Reports
    <2>4. CASE CommitFails(i)
      BY <1>7, <2>4 DEF CommitFails, Known
    <2> QED
      BY <1>6, <2>1, <2>2, <2>3, <2>4
  <1>8. EditType'
    <2>1. report' \in Reports
      BY <1>3, <1>4, <1>6 DEF Commit, CommitFails
    <2>2. lock' \in (1..Len(saves')) \union {NoSave}
      BY <1>1, <1>2, <1>4
    <2> QED
      BY <1>2, <1>5, <2>1, <2>2 DEF EditInv, EditType
  <1>9. report'.version = 0 => report' = Report(0, NoText)
    <2>1. CASE Commit(i)
      BY <1>2, <2>1 DEF Commit, Saved, Report, Saves, Reports
    <2>2. CASE report' = report
      BY <2>2 DEF EditInv
    <2> QED
      BY <1>6, <2>1, <2>2 DEF CommitFails
  <1>10. \A t \in Tab : Known(editor[t].shown)'
    BY <1>5, <1>7 DEF EditInv, EditType, Editors, Reports
  <1>11. \A j \in 1..Len(saves') :
           Known(saves[j].shown)' /\ (saves'[j].answer = "saved" => Known(Saved(j))')
    <2> SUFFICES ASSUME NEW j \in 1..Len(saves)
                 PROVE  Known(saves[j].shown)' /\ (saves'[j].answer = "saved" => Known(Saved(j))')
      BY <1>2
    <2>1. Known(saves[j].shown) /\ saves[j].shown.version \in Nat /\ Saved(j).version \in Nat
      BY <1>2, <1>3 DEF EditInv, Saves, Reports
    <2>2. Known(saves[j].shown)'
      BY <1>2, <1>7, <2>1
    <2>3. ASSUME saves'[j].answer = "saved" PROVE Known(Saved(j))'
      <3>1. CASE saves[j].answer = "saved"
        BY <1>3, <1>7, <2>1, <3>1 DEF EditInv
      <3>2. CASE saves[j].answer # "saved"
        <4>1. j = i /\ Accept(i)
          BY <1>1, <1>2, <2>3, <3>2
        <4>2. lock' = i /\ lock' # NoSave
          BY <1>4, <4>1 DEF Accept
        <4> QED
          BY <4>1, <4>2 DEF Known
      <3> QED
        BY <3>1, <3>2
    <2> QED
      BY <2>2, <2>3
  <1>12. lock' # NoSave => /\ saves'[lock'].shown.version = report'.version
                           /\ saves'[lock'].stage = "flushed"
                           /\ saves'[lock'].answer = "saved"
    <2>1. CASE Accept(i)
      <3>1. saves \in Seq(Saves) /\ saves[i] \in Saves
        BY DEF EditInv, EditType
      <3>2. saves'[i].stage = "flushed" /\ saves'[i].answer = "saved"
        BY <2>1, <3>1 DEF Accept, Saves
      <3> QED
        BY <1>2, <2>1, <3>2 DEF Accept
    <2>2. CASE Refuse(i) \/ SaveFails(i)
      <3>1. UNCHANGED server
        BY <2>2 DEF Refuse, SaveFails
      <3>2. lock # NoSave => lock # i
        BY <2>2 DEF Refuse, SaveFails, Handled, EditInv
      <3> QED
        BY <1>2, <1>4, <3>1, <3>2 DEF EditInv, server
    <2>3. CASE Commit(i) \/ CommitFails(i)
      BY <2>3 DEF Commit, CommitFails
    <2> QED
      BY <2>1, <2>2, <2>3
  <1> QED
    BY <1>8, <1>9, <1>10, <1>11, <1>12 DEF EditInv

-----------------------------------------------------------------------------
(***************************************************************************)
(* The theorems                                                            *)
(***************************************************************************)
\* All that clients were ever shown is known.
THEOREM EditInvariant == Spec => []EditInv
  <1>1. ASSUME EditInv, UNCHANGED vars PROVE EditInv'
    BY <1>1 DEF vars, EditInv, EditType, Known, Saved
  <1>2. EditInv /\ [Next]_vars => EditInv'
    BY <1>1, TabStep, SaveStep, ServerStep DEF Next
  <1> QED
    BY InitEditInv, <1>2, PTL DEF Spec

\* save_incident_report and the report editor: a save that commits over a
\* report was sent from an editor that showed exactly this report, or one that
\* a failing commit had taken back.
THEOREM BlindOverwriteTheorem == Spec => NoBlindOverwrite
  <1> DEFINE Seen == \E i \in 1..Len(saves) : /\ lock = i
                                              /\ report' = Saved(i)
                                              /\ saves[i].shown \in {report} \union lost
  <1>1. ASSUME EditInv, Next, report' # report PROVE Seen
    <2>1. PICK i \in 1..Len(saves) : Commit(i)
      BY <1>1 DEF Next, Open, ReadReport, ShowReport, LoadFails, Close, Type, Save,
                  ShowSaved, ShowError, LoseAnswer, Accept, Refuse, SaveFails,
                  CommitFails, server
    <2>2. lock = i /\ report' = Saved(i) /\ i # NoSave
      BY <2>1, SentinelAssumption DEF Commit
    <2>3. /\ Known(saves[i].shown) /\ saves[i].shown.version = report.version
          /\ report \in Reports /\ saves[i] \in Saves
      BY <1>1, <2>2 DEF EditInv, EditType
    <2>4. saves[i].shown # Saved(i)
      BY <2>3 DEF Saved, Report, Reports, Saves
    <2> QED
      BY <2>2, <2>3, <2>4 DEF Known, Reports
  <1>2. EditInv /\ [Next]_vars => [report' # report => Seen]_vars
    BY <1>1
  <1> QED
    BY <1>2, EditInvariant, PTL DEF Spec, NoBlindOverwrite
=============================================================================
