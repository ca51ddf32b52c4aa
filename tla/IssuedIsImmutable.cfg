SPECIFICATION ReportingSpec
CONSTANTS
  Occurrences = {1, 2}
  IssueOf <- MCIssueOf
  PlaceOf <- MCPlaceOf
  Sightings <- MCSightings
  Detects = {"tech"}
  Inferred = {}
  CveNamed = {}
  ControlsOf <- MCCatalogue
  TechniquesOf <- MCCatalogue
  ReportScans = {"s1"}
  Clerks = {"c1", "c2"}
  Drafts = {"d1"}
  MaxIngests = 1
PROPERTY IssuedIsImmutable
CHECK_DEADLOCK FALSE
