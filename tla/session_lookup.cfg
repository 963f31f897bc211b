SPECIFICATION Spec
CONSTANTS
  i1 = i1
  Interps = {i1}
  Names <- MCNames
  Library <- MCLibrary
  Refused <- MCRefused
  Rules <- MCRules
  Custom <- MCCustom
  Now = "time.now_ns"
  Texts <- MCTexts
  Valid <- MCValid
  NoQuery = NoQuery
  Calls <- MCCalls
  Lists <- MCLists
  MaxCalls = 3
  MaxNest = 2
INVARIANT IsBuiltInAnswers
