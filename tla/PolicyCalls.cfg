\* Two calls that share two conditions, with any step of a registration failing.
SPECIFICATION FairSpec
CONSTANTS
  r1 = r1
  r2 = r2
  dbe = dbe
  xid = xid
  Reg = {r1, r2}
  Cond = {dbe, xid}
  Requests <- MCRequests
INVARIANTS TypeOK ReportsInOrder CallbackHasReceiver
PROPERTIES CallbackReturns MergeEnds
\* When every call has failed nothing is left to happen.
CHECK_DEADLOCK FALSE
