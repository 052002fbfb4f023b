SPECIFICATION Spec
CONSTANTS
  Get = {}
  Update = {u1}
  Given = {{"name"}}
  Present = {"metaplex"}
  First = "metaplex"
  MaxLag = 0
PROPERTY UpdateRetains
CHECK_DEADLOCK FALSE
