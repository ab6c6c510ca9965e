\* A configuration file of at most two lines.
CONSTANTS
  Sections = {"global"}
  Keys = {"k"}
  Values = {"1"}
  MaxLines = 2
SPECIFICATION Spec
CHECK_DEADLOCK FALSE
INVARIANT EmptyLinesAreIgnored
