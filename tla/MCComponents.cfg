\* Each component on its own; README, section 3.
CONSTANTS
  Parts = {"memory", "log", "transfer", "lock", "tree", "document", "socket",
           "multipart", "containers", "calendar", "digest", "streams", "files", "options",
           "addresses"}
  Locks = {a, b, c}
  Priorities = {1, 2}
  MaxDepth = 2
  spare = spare
  Elements = {e1, e2, spare}
  Texts = {t1, t2}
  Nil = Nil
  BufferSize = 2
  MaxSent = 3
  Addresses = {1, 2, 3, 5}
  Sizes = {0, 2}
  Buckets = 2
  ChunkUnits = 2
  GuardWords = 2
  MaxUnits = 4
  MaxCalls = 3
  Writers = {t1, t2}
  NoWriter = NoWriter
  Streams = {s1}
  FileLoggers = {f1}
  Debug = {s1}
  MaxMessages = 3
  MaxNested = 1
  Requests = {q1, q2, q3}
  NoRequest = NoRequest
  Unsaved = {q3}
  MaxBodyFragments = 2
  PartLists <- mcPartLists
  MaxFragments = 4
  Keys = {1, 2}
  MaxInserts = 3
  Months = 3
  DaysIn <- mcDaysIn
  MaxDay = 4
  WeekDays = 3
  Hours = 2
  Minutes = 2
  LastYear = 3
  MaxTokens = 3
  Askable <- mcAskable
  BlockSize = 4
  WordRange = 64
  ChunkSize = 3
  MaxMessage = 11
  BuffSize = 2
  Strings <- mcStrings
  Searched <- mcSearched
  MaxWritten = 2
  Names = {a, b}
  MaxVersion = 1
  MaxClock = 1
  Arguments = {"port"}
  Flags = {"v"}
  Values = {0, 1}
  MaxArgs = 3
  Fields = {f1, f2}
  Hosts = {h1, h2}
  Nobody = Nobody
  IPs = {1, 2}
SPECIFICATION mcSpec
INVARIANTS SyncKeepsWhole OptionsAsGiven OwnerKnows ParsedInOrder StreamsInOrder BlocksAreAccounted LogsAgree EndsAreTold PartsAsSent NearestMatch DigestsTheMessage ReadsBack AnswersAreCurrent
PROPERTIES NoOvertaking ImplementsTree OrderIsKept SearchAdvances
\* Programs end, bounds are reached.
CHECK_DEADLOCK FALSE
