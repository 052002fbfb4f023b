SPECIFICATION Spec
CONSTANTS
  MaxLag = 1
  Get = {g1}
  Update = {u1, u2}
  Given = {{"name"}, {"uri"}}
  Present = {"metaplex", "token-extensions"}
  First = "metaplex"
INVARIANTS
  TypeOK
  SourcesNeverMix
  EntryIsYoungerThanUpdates
PROPERTIES
  UndisturbedUpdateRetains
CHECK_DEADLOCK FALSE
