SPECIFICATION Spec

CONSTANTS
  States = {"ok", "other"}
  Configs = {"one", "two"}
  Docs = {"cpu_sensor", "disk_sensor"}
  Sources = {"cpu", "disk"}
  ConfigOf <- MCConfigOf
  StatusOf <- MCStatusOf
  KeyOf <- MCKeyOf
  DocsOf <- MCDocsOf
  MaxFaults = 1
  MaxNews = 3

PROPERTY UrgentConverges
PROPERTY BirthAnswered
CHECK_DEADLOCK FALSE
