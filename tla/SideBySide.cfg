CONSTANTS
  Requests = {a, b}
  Checks = {h}
  Stops = {s}
  NoCall = NoCall
  MaxConns = 2
  Budget <- SmallBudget
  Cooldown <- SmallCooldown
  Hour = 1
  Contexts = {"muted", "meeting", "fullscreen"}
  Window = 1
  MaxTime = 2
  MaxFeedback = 3
  NumTurns = 3
  MaxRetries = 2
  MaxEntries = 2
  MaxTokens = 4
  MaxFaults = 1
  None = None
  NumTokens = 2
  NumSegments = 2
  MaxAudio = 2
  Fallback = Fallback
  Sessions = {s1, s2, s3}
  AllSessions = AllSessions
  MaxTurns = 5
  BatchSize = 2
  MaxEvents = 5
  MaxLimit = 3
  MaxWrites = 2
SPECIFICATION SSpec
CHECK_DEADLOCK FALSE
INVARIANTS
  WaitingIsRead
  OneLiveConnection
  ShakenOrCancelled
  LimitsKept
  HistoryFollowsLedger
  TextTurnsAreSettled
  ConsumerIsWoken
  PagesMissNothing
  RuntimeIsThere
PROPERTIES
  CancelSilences
