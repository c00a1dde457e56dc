SPECIFICATION GatesSpec
CONSTANTS
  FileNames <- MCFileNames
  Contents <- MCContents
  InitialManifest <- MCManifest
  InitialFiles <- MCFiles
  MaxEdits = 3
  KnownParameters = {"512", "768"}
  MaxU64 = 9
  ReviewModules <- MCReviewModules
  FirstReviews <- MCFirstReviews
  MaxReviewEdits = 3
INVARIANTS
  PassesOnlyIntactFiles
  RunnerAgreesWithGate
  NoParameterSetUnreported
  GreenMeansAnswered
  SummariesAddUp
  ReviewsStayTracked
CHECK_DEADLOCK FALSE
