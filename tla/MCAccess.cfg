SPECIFICATION FairSpec
CONSTANTS
  root = root
  bob = bob
  web = web
  t1 = t1
  t2 = t2
  ops = ops
  c1 = c1
  c2 = c2
  None = None
  Emails = {root, bob}
  AdminEmails = {root}
  Projects = {web}
  Tags = {t1, t2}
  Keys = {ops}
  InitialTags <- MCInitialTags
  Clients = {c1, c2}
  Requests <- MCRequests
  MaxRequests = 2
INVARIANTS TypeOK AnsweredByRights GrantsSound
PROPERTIES RaisedByAdminsOnly StartSucceeds
CHECK_DEADLOCK FALSE
