SPECIFICATION FairSpec
CONSTANTS
  t1 = t1  t2 = t2  t3 = t3
  app = app  ext = ext
  stored = stored  embedded = embedded
  early = early  late = late  refused = refused
  NoValue = NoValue
  Threads = {t1, t2, t3}
  Processes = {app, ext}
  ProcessOf <- MCProcessOf
  Paths = {stored, embedded}
  StoredPaths = {stored}
  Args = {early, late, refused}
  Values = {early, late}
  Generate <- MCGenerate
  Media = {"readonly", "locked"}
  Removable = TRUE
  Serialised = FALSE
INVARIANTS TypeOK SettledAnswer
PROPERTY FinallyStable
