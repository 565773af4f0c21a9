SPECIFICATION Spec
CONSTANTS
  Txn = {t1, t2}
  Name = {1, 2, 3}
  Founder = {1, 2}
  Sid = {s1, s2, s3}
  Password = {pw1, pw2}
  FirstPassword = pw1
  OpenSession <- MCOpenSession
  Request <- MCRequests
  MaxRequests = 3
  s1 = s1
  s2 = s2
  s3 = s3
  pw1 = pw1
  pw2 = pw2
  NoTxn = NoTxn
  NoUser = NoUser
  NoRow = NoRow
  NoSession = NoSession
  NoRequest = NoRequest
PROPERTY
  VersionAdvances
