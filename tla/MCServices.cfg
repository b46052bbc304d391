CONSTANTS
  Parts = {"diarization", "download", "obs", "connection", "editors", "engine", "shell",
           "settings", "credentials", "media", "merge"}
  Jobs = {j1, j2}
  NoJob = NoJob
  Own = {own1, own2}
  NoName = NoName
  Ops = {c1, c2}
  Scopes = {s1, s2, managed}
  Keyless = {managed}
  SecretNames = {apiKey, other}
  ApiKey = apiKey
  Speakers = {A, B}
  NoSpeaker = NoSpeaker
  MaxRounds = 3
  MaxFaults = 1
  AssetSize = 3
  MaxDownloads = 4
  MaxUser = 1
  MaxOps = 2
  MaxConnects = 2
  Uses <- EditorUses
  Lines <- SummaryLines
  Budget = 5
  Tags = 1
  Floor = 5
  Titles = {"a", "b"}
  MaxChapters = 1
  MaxRequests = 3
  MaxQuits = 2
  MaxTyped = 2
  MaxCalls = 3
  FewTyped = 1
  FewCalls = 2
  MaxSize = 5
  Spoken <- SpokenWords
  Horizon = 3
  MaxSegments = 2
SPECIFICATION Spec
CHECK_DEADLOCK FALSE
INVARIANTS
  TypeOK
  ShutdownReleasesVram
  NotStuck
  DamageIsNotResumedTwice
  LeaseKnowsTheWay
  OwnIsNotReconfigured
  CancelledIsNotConnected
  ViewIsCurrent
  SavedEditsSurvive
  SpokenOrder
  EvidenceIsGrounded
  QuitIsAllOrNothing
  StoredIsEntered
  AlgorithmsAreExact
PROPERTIES
  PromotedIsTheAsset
  RestoredBeforeForgotten
  EverythingSettles
