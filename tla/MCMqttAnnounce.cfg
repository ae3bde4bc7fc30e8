SPECIFICATION SafetySpec

CONSTANTS
  States = {"ok", "warmer", "failed", "other"}
  Configs = {"one", "two"}
  Docs = {"cpu_sensor", "disk_sensor"}
  Sources = {"cpu", "disk"}
  ConfigOf <- MCConfigOf
  StatusOf <- MCStatusOf
  KeyOf <- MCKeyOf
  DocsOf <- MCDocsOf
  MaxFaults = 2
  MaxNews = 2

INVARIANT NothingForgotten
INVARIANT TrustedIsRetained
INVARIANT StoppedStaysDown
PROPERTY OnlineMeansComplete
CHECK_DEADLOCK FALSE
