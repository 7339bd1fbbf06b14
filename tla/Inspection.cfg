CONSTANTS
  body = body
  leg = leg
  NoFamily = none
  NoObject = nothing
  Families <- MCFamilies
  Count <- MCCount
  Parent <- MCParent
  Leftovers <- MCLeftovers
  BuildPayloads <- MCBuildPayloads
  PlacePayloads <- MCPlacePayloads
  AtRest = {}
SPECIFICATION RunSpec
INVARIANTS
  RunTypeOK
  ApprovedPartsStand
  PlacedModelIsComplete
  SnapshotIsCovered
PROPERTIES
  SoundPlanIsRepaired
CHECK_DEADLOCK FALSE
