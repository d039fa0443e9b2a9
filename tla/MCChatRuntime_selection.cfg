CONSTANTS
  ca = ca
  cb = cb
  pa = pa
  pb = pb
  ma = ma
  mb = mb
  Askers = {ca, cb}
  Profiles = {pa, pb}
  Models = {ma, mb}
  HealthyModels = {ma}
  MaxChatCalls = 3
  MaxVersions = 2
  Nothing = Nothing
SPECIFICATION ChatSpec
INVARIANT ChatServed
PROPERTY FailedPublicationRestores
CHECK_DEADLOCK FALSE
PROPERTY StatusConverges
