SPECIFICATION Spec
CONSTANT NoScore = NoScore
INVARIANTS
  RowsHaveParents
  SeededIsWhole
  SeededIsLawful
  SeededTellsItsStory
