\* Staging directories of up to two elements.
SPECIFICATION Spec
CONSTANTS
  Cwd <- Here
  Root <- Roots
  Staging <- AnyStaging
  Entry <- Entries
  Destination <- Destinations
  Line <- Lines
  MaxArgs = 1
INVARIANTS
  StagingBelowRoot
CHECK_DEADLOCK FALSE
