CONSTANTS
  body = body
  leg = leg
  NoFamily = none
  NoObject = nothing
  Families <- MCFamilies
  Count <- MCCount
  Parent <- MCParent
  Leftovers <- MCLeftovers
  BuildPayloads <- MCBuildPayloads
  PlacePayloads <- MCPlacePayloads
SPECIFICATION Spec
INVARIANT
  ParentsAreBuiltObjects
CHECK_DEADLOCK FALSE
