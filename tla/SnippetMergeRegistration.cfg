SPECIFICATION Spec
CONSTANTS
  Projectors = {p1, p2}
  Snippets <- MCSnippets
  Blocks <- MCBlocks
  Rows <- MCRows
  RowLength <- MCRowLength
  ProjectedRows <- MCProjectedRows
  Projected <- MCProjected
  ProjectedLength <- MCProjectedLength
  BUFFER_SIZE = 2
  Results <- MCResults
  BlocksOf <- MCBlocksOf
  NoSnippet = NoSnippet
  Absent = Absent
  Nothing = Nothing
  RacesBite = TRUE
SYMMETRY Symmetry
CHECK_DEADLOCK FALSE
INVARIANTS CompleteIsReleased
