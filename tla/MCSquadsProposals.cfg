SPECIFICATION Spec
CONSTANTS
  Proposer = {c1, c2}
  Member = {m1, m2, m3}
  Threshold = 2
  MaxLag = 1
  MaxNet = 2
SYMMETRY Symmetry
INVARIANTS
  TypeOK
  ResolvedOwnsIndex
  VotesAreForTheirProposal
PROPERTIES
  ImplementsAgreement
CHECK_DEADLOCK FALSE
