SPECIFICATION Spec
CONSTANTS
  c1 = c1
  c2 = c2
  e1 = e1
  e2 = e2
  Doc <- MCDoc
  Client <- MCClient
  Edit <- MCEdit
  BaseNo <- MCBaseNo
  MaxVersion = 3
  ByNumber = FALSE
  IsSubmittable = TRUE
SYMMETRY Symmetry
INVARIANTS TypeOK RevisionTrail NoLostUpdate PostedWhileSubmitted
PROPERTIES ImmutableOnceSubmitted ImplementsHistory
