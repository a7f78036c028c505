SPECIFICATION MCSpec
CONSTANTS
  Endpoint = {"e1", "e2"}
  Name = {"a", "b"}
  MaxLines = 1
  MaxRetries = 1
  Path <- Paths
  Capturing = {TRUE}
  Assertion = {"c1", "c2"}
  Width = 1
  Height = 1
  Pixel = {0, 1}
  Limits <- Bounds
  Reading = {"c1", "c2"}
  Releaser = {"r1", "r2"}
  Text = {"Probe", "Select"}
  Expectation <- Expected
  Box <- Boxes
  MaxAttempts = 1
  MaxWords = 1
  Origin = 1
  Scale = 2
  Window = {1, 2, 3, 4}
  Roots = {1, 4}
  Below <- Beneath
  MaxDepth = 2
  MaxRecent = 4
  MaxRequests = 3
  Attachments <- Requested
  SafeSegment <- Segments
  Earlier <- EarlierFiles
INVARIANT RequiredAttachmentsThrow
CHECK_DEADLOCK FALSE
