SPECIFICATION Spec
CONSTANTS
  i1 = i1
  i2 = i2
  Interps = {i1, i2}
  Names <- MCNames
  Library <- MCLibrary
  Refused <- MCRefused
  Rules <- MCRules
  Custom <- MCCustom
  Now = "time.now_ns"
  Texts <- MCTexts
  Valid <- MCValid
  NoQuery = NoQuery
  Calls <- MCCalls
  Lists <- MCLists
  MaxCalls = 4
  MaxNest = 2
SYMMETRY Same
INVARIANTS RegistryFollowsList SameWithinQuery FreshQuery
