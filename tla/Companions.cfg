SPECIFICATION Spec
CONSTANTS
  Files = {f1, f2}
  Shas = {A, B}
  Runs = {r1, r2}
  MaxNoise = 1
  Requests = {q1, q2}
  Pages = {v1, v2}
  Window = 2
  Cap = 2
  MaxKeys = 2
  MaxTime = 2
  Repos = {ra, rb, rc}
  TelegramIds = {u1, u2, u3}
  Handlers = {h1, h2}
  Readers = {s1, s2}
  SuccessTtl = 3
  NegativeTtl = 2
  CallTicks = 1
  LastTick = 5
  Callers = {c1, c2}
INVARIANTS CompanionsTypeOK  OnlyUnnoticedGapsAverage MergeHasConsent CountedMergesHappened RunsMergeWhatTheyScored OrphansAreReported DuplicateNamesTheTracked BotEventsBounded GuessesBounded OtpKeysBounded FallbackServesTheCaller
PROPERTIES RowsSettleOnce ServedTextIsGenuine ReloadsDoNotPay GateComesToAnEnd RowsHearOfTheMerge PrimaryComesBack
CHECK_DEADLOCK FALSE
