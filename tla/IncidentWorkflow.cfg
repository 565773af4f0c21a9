SPECIFICATION ReaderSpec
CONSTANTS
  NoTxn = NoTxn
  NoKey = NoKey
  NoRow = NoRow
  NoRun = NoRun
  NoUser = NoUser
  NoText = NoText
  NoRequest = NoRequest
  NoFinding = NoFinding
  NoScope = NoScope
  NoDetail = NoDetail
  p1 = p1
  p2 = p2
  p3 = p3
  p4 = p4
  c1 = c1
  c2 = c2
  c3 = c3
  c4 = c4
  r1 = r1
  r2 = r2
  u1 = u1
  u2 = u2
  x1 = x1
  User = {u1, u2}
  Assignable = {u1}
  Text = {x1}
  Evidence <- MCEvidence
  Run <- MCRun
  RunOf <- MCRunOf
  Rule <- MCRule
  Txn = {t1, t2}
  Key <- WorkflowKeys
  Request <- WorkflowRequests
  MaxRequests = 4
SYMMETRY Symmetry
INVARIANTS
  HistoryExplainsRow
  PageIsExplained
  ReportIsNewestRevision
PROPERTY
  ChangesFollowTheRow
