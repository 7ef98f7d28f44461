CONSTANTS
  Ids <- MCIds
  Anonymous = anonymous
  Preds <- MCPreds
  Texts <- MCTexts
  Documents <- MCDocuments
  Packages <- MCPackages
  Results = {"PASS", "FAIL", "MAYBE"}
  ShapeIds = {"", "SkillGateResultShape", "ClosedShape", "NoteShape", "BlankShape", "NoSuchShape"}
  MoreShapes <- MCMoreShapes
  IntOf <- MCIntOf
SPECIFICATION Spec
INVARIANTS TypeOK JudgedByTheDocument ConformingIsSovereign
CHECK_DEADLOCK FALSE
