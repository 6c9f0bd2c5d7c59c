SPECIFICATION Spec
CONSTANTS
  exe = exe  dll = dll  pak = pak
  r1 = r1  r2 = r2
  e1 = e1  e2 = e2  d1 = d1  p1 = p1
  None = None  Torn = Torn  Junk = Junk
  File = {exe, dll, pak}
  Exe = exe
  ComponentOf <- Components
  Release = {r1, r2}
  Listed <- Releases
  VersionOf <- Versions
  Content = {e1, e2, d1, p1}
  SizeOf <- Sizes
  MaxAttempts = 2
  MaxPublished = 1
PROPERTIES RejectedNeverInstalled
CHECK_DEADLOCK FALSE
