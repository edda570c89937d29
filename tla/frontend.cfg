\* Command lines of two arguments, roots and staging directories written in every way.
SPECIFICATION Spec
CONSTANTS
  Cwd <- Here
  Root <- Roots
  Staging <- NamedStaging
  Entry <- Entries
  Destination <- Destinations
  Line <- Lines
  MaxArgs = 2
INVARIANTS
  TypeOK
  ArgumentsObeyed
  OwnCandidateAccepted
  ForeignCandidateRefused
  RelocationInsideRoot
  PagerStaysPlain
  ColorIsCosmetic
CHECK_DEADLOCK FALSE
