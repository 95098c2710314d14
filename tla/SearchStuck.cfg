SPECIFICATION Spec
CONSTANTS
  Terms = {"", "fox", "dog"}
  Matches <- MCMatches
  MaxSearches = 4
INVARIANTS
  ShowsNext
