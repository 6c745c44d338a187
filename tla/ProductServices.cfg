SPECIFICATION ServicesSpec
CONSTANTS
  Codes = {"mqtt", "video", "ota"}
  Services = {"mqtt", "video", "ota"}
  Contents <- MCContents
  Versions = {1, 2}
  Starts <- MCStarts
  Runs = {r1, r2}
  Quantity = 1
  Enrollments = {q1, q2}
  Jobs = {j1, j2}
  Updates = {u1}
  NoRun = NoRun
  NoPreview = NoPreview
SYMMETRY ProductSymmetry
CHECK_DEADLOCK FALSE
INVARIANTS CatalogAndGrantsAgree FactoryWithinRun CompletedIsApplied BatchIsAsPreviewed
PROPERTIES GrantIsWhatWasSeen
