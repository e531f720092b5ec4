SPECIFICATION MCSpec
CONSTANTS
  r1 = r1
  r2 = r2
  u1 = u1
  u2 = u2
  Requests = {r1, r2}
  Ids = {1, 2}
  Names = {"n"}
  MaxValue = 3
  CatalogKinds = {"template", "command", "pipeline"}
  Creds <- MCCreds
  Tags = {"t"}
  MaxVersions = 2
  MaxFails = 1
  MaxAsked = 5
  Users = {u1, u2}
  CollectionNames = {"My Pipelines", "other"}
  MaxCollections = 2
  Pipelines = {"p"}
  Contexts = {"github", "gitlab"}
  ContextOf <- MCContextOf
  Admins = {u1}
  ClusterNames = {"n"}
  ClusterIds = {1}
  MaxWrites = 4
  MaxSyncs = 2
INVARIANTS
  RevokedStaysOut
  CatalogSound
  ReadsAreWhole
  DefaultCollection
  OnlyStaleUndoes
CHECK_DEADLOCK FALSE
