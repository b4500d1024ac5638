SPECIFICATION Spec
CONSTANTS
  Torrents = {t1, t2}  OneTorrent = {t1}  None = None
  Rates = {1, 2}  Turtle = 0  Day = 2  Wrap = 3  IdleAfter = 1
  Ssids = {s1}  NoSsid = nos  Profiles = {n1}  Contents = {c1, c2}
  Nothing = nothing
  MaxActive = 3  MaxRows = 1
  Peers = {p1, p2}  Private = {p1}  MaxBytes = 1  MaxNow = 1  MaxAge = 0
  Blocks = 2
  Items = {1, 2}  Magnets = {2}  MaxChecks = 2
  Files = {f1, f2}  MaxTries = 2
  Names = {n1, n2}  Patterns = {p1}
  Links = {m1}
  Launches = {p1, p2}
  Clients = {c1, c2}  MaxTokens = 2
  MaxReal = 4  Base = 3
  Fields = {"proxy", "rate"}  Excluded = {"proxy"}  Values = {0, 1}
  Default = 0  Corrupt = Corrupt  Keep = 1  TrimAt = 2  MaxLog = 3
  Tags = {g}  Categories = {c1}
  Places = {a, b, c}  Denied = {c}  MaxTold = 2
  Mounts = {m1}  Paths = {d1}
  Interval = 2  MaxDays = 5
  Revisions = {r1, r2}  MaxTimers = 2
  Downloads = {d1, d2}
  Queued = {t1, t2, t3}  NoDeadline = NoDeadline  HeadPieces = 2  MaxSize = 3
  Scans = {b1}  Fetches = {b2}  Extractions = {}  Creations = {b3}
  Queries = {b4}  Threads = 1
INVARIANTS TypeOK InForce StoresFollow CountedOnce GivenOnce CheckedFirst
  AgreesWithReference  PageIsCurrent
PROPERTIES LateAnswersIgnored NothingOutOfTurn WaitsEnd
CHECK_DEADLOCK FALSE
