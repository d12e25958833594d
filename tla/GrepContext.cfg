SPECIFICATION GrepSpec
CONSTANTS
  Limits <- MCLimits
  Row <- MCRow
  Deco <- MCDeco
  Trees <- MCTrees
  Contents <- MCContents
  Options <- MCOptions
  MaxChanges = 1
  MaxNumber = 8
INVARIANT MatchesLookLikeMatches
