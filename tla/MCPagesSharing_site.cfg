CONSTANTS
  ba = ba
  bb = bb
  ca = ca
  cb = cb
  pa = pa
  pb = pb
  ta = ta
  Owners = {ca, cb}
  Bundles = {ba, bb}
  Texts = {ta}
  Urls = {pa, pb}
  MaxRevision = 3
  MaxChanges = 2
  MaxUploads = 1
  None = None
SPECIFICATION Spec
INVARIANT ShownWasReviewed
INVARIANT SiteIsOfOneMoment
INVARIANT VerifiedWasServed
SYMMETRY Interchangeable
CHECK_DEADLOCK FALSE
