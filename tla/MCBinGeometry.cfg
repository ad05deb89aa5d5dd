SPECIFICATION Spec
CONSTANTS
  Options <- Published
  Lens <- SmallTiles
INVARIANTS BinMeansCell CurrentAroundCell LeftIffOutside
PROPERTIES StaysIffSameCell
