SPECIFICATION Spec
CONSTANT MaxPositions = 255
CHECK_DEADLOCK FALSE
INVARIANTS
  HeightsAgree
  PeaksAgree
  MMRIVERPeaksAgree
  LeafIndicesAgree
  OffsetsLeadToFamily
  PathsAgree
