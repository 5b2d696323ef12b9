CONSTANTS
  a = a  plain = plain  including = including  r1 = r1  r2 = r2
  home = home  missing = missing
  Texts = {plain}
  NoText = NoText
  Uris <- OneFile
  MaxVersion = 2
  Paths <- OneFile
  Target <- TargetOf
  Scanned <- OneFile
  Bases = {home}
  Parent <- ParentOf
  Requests = {missing}
  EmptyRequest = missing
  Locate <- LocateOf
  Includes <- IncludesOf
  FileUris <- OneFile
  PathOf <- PathOfA
  Runners = {r1, r2}
  NoRunner = NoRunner
  Discovered = r1
  Configs <- OnChangeConfigs
  Slots = {s1}
  NoSlot = NoSlot
  TaskIds = {t1, t2}
  NoTask = NoTask
  MaxInbox = 1
  YieldPoints <- IoPoints
  RestartVersions = FALSE
SPECIFICATION Spec
INVARIANTS DiagnosticsAreCurrent
