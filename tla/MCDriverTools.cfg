SPECIFICATION MCSpec
CONSTANTS
  Endpoint = {"e1", "e2"}
  Name = {"a", "b"}
  MaxLines = 3
  MaxRetries = 1
  Path <- Paths
  Capturing = {TRUE, FALSE}
  Assertion = {"c1", "c2"}
  Width = 2
  Height = 2
  Pixel = {0, 1}
  Limits <- Bounds
  Reading = {"c1", "c2"}
  Releaser = {"r1", "r2"}
  Text = {"Probe", "Select"}
  Expectation <- Expected
  Box <- Boxes
  MaxAttempts = 2
  MaxWords = 2
  Origin = 1
  Scale = 2
  Window = {1, 2, 3, 4}
  Roots = {1, 4}
  Below <- Beneath
  MaxDepth = 2
  MaxRecent = 4
  MaxRequests = 3
  Attachments <- Requested
  SafeSegment <- Segments
  Earlier <- EarlierFiles
INVARIANTS
  SelectionIsComplete
  CommandIsHonest
  ComparisonIsExact
  ReadingIsSound
  BundleIsTrue
CHECK_DEADLOCK FALSE
