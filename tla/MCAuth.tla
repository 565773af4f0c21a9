------------------------------- MODULE MCAuth -------------------------------
(***************************************************************************)
(* Instances of AuthSessions for TLC: two administrators, each logged in,  *)
(* and a third name that one of them may create.                           *)
(***************************************************************************)
EXTENDS AuthSessions, TLC

CONSTANTS s1, s2, s3, pw1, pw2

MCOpenSession == s1 :> 1 @@ s2 :> 2

Update(sids, names, roles, actives, renames, expected) ==
  {[op |-> "update", sid |-> s, name |-> n, role |-> r, active |-> a,
    rename |-> w, expected |-> v]
     : s \in sids, n \in names, r \in roles, a \in actives, w \in renames,
       v \in expected}
Reset(sids, names, expected) ==
  {[op |-> "reset", sid |-> s, name |-> n, password |-> pw2, expected |-> v]
     : s \in sids, n \in names, v \in expected}
Login(names) ==
  {[op |-> "login", name |-> n, password |-> p]
     : n \in names, p \in {pw1, pw2}}
LogoutOf(sids) == {[op |-> "logout", sid |-> s] : s \in sids}
Create(sids, roles) ==
  {[op |-> "create", sid |-> s, name |-> 3, role |-> r, password |-> pw1]
     : s \in sids, r \in roles}

\* Both administrators demote, disable, activate and reset each other,
\* themselves and the third user, with the first version or the one after it;
\* logins and logouts race them, and the rows of both are wanted in either
\* order.
MCRequests ==
  UNION {Update({s1}, {2}, {"READ_ONLY"}, {"same"}, {FALSE}, {1}),
         Update({s2}, {1, 2}, {"READ_ONLY"}, {"same"}, {FALSE}, {1}),
         Update({s2}, {1}, {"READ_ONLY"}, {"same"}, {FALSE}, {2}),
         Update({s1}, {2, 3}, {"same"}, {"no"}, {FALSE}, {1}),
         Update({s1}, {2}, {"same"}, {"yes"}, {TRUE}, {2}),
         Reset({s1}, {1, 2}, {1}), Reset({s2}, {1}, {1}),
         Create({s1}, {"ADMIN"}),
         Login({2}), LogoutOf({s1})}
=============================================================================
