SPECIFICATION CipherSpec
CONSTANTS
  Order = 17
  Double <- MCDouble
  BlockSize = 3
  Rate = 3
  Capacity = 3
  Rounds <- MCRounds
  Xof <- MCXof
  Operands <- MCOperands
  Secrets = {2, 9}
  Nonces <- MCNonces
  States <- MCStates
  Plaintexts <- MCPlaintexts
  Matrices <- MCMatrices
INVARIANTS
  FieldArithmeticIsExact
  DecryptionInverts
  SingularIsFound
CHECK_DEADLOCK FALSE
