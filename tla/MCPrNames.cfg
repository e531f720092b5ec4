SPECIFICATION MCSpec
CONSTANTS
  h1 = h1
  h2 = h2
  p = p
  q = q
  root = root
  dir = dir
  other = other
  sub = sub
  Hooks = {h1, h2}
  Id <- MCId
  Context <- MCContext
  Pipelines = {p, q}
  Configs <- MCConfigs
  MaxSends <- MCMaxSends
  MaxFails = 2
  ActivePipelines = {root, dir, other, sub}
  PipelineRow <- MCPipeline
  ParsedHooks <- MCHooks
  IgnoreBy = {"bot"}
  RestrictPR = "fork-admin"
  PRs = {1, 10}
  PartOf <- Included
  Restricted = {}
  OnClosed = {p}
  Scripts <- TwoPrs
  MaxHooks = 4
  MaxPrFails = 0
  Tasks = {t1, t2}
  Signals = {s1, s2}
INVARIANTS
  OwnBuildsOnly
CHECK_DEADLOCK FALSE
