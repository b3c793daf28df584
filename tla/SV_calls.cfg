SPECIFICATION Spec
CONSTANTS
  m1 = m1
  m2 = m2
  zen = zen
  deepseek = deepseek
  c1 = c1
  c2 = c2
  c3 = c3
  c4 = c4
  Parts = {"llm", "gate", "config", "shutdown"}
  Candidates = {m1, m2}
  ProviderIds = {zen, deepseek}
  Deployments <- MCDeployments
  Pooled = {zen}
  ShortTTL = 1
  QuotaTTL = 2
  BanTTL = 3
  FailThreshold = 2
  ForbiddenThreshold = 2
  Calls = {c1, c2}
  Loads <- MCLoads
  MaxRetries = 1
  Callers = {"x", "y", "z"}
  Gap = 1
  Pause = 2
  Models = {m1, m2}
  ConfigKeys = {"LLM_PROVIDER"}
  Values = {"deepseek"}
  Admins = {"adm1", "adm2", "adm3"}
  Tasks = {"t1"}
  MaxRecords = 2
  BatchSize = 2
  MaxFailures = 1
INVARIANTS ForbiddenVerdictEarned AckedExclusionStays EachRecordOnce EventsSurviveShutdown
PROPERTIES RefusedIsLeftAlone PauseCovered SpacedUnlessOvertaken
PROPERTIES EveryLlmCallEnds RecordsReachTheTable
CHECK_DEADLOCK FALSE
