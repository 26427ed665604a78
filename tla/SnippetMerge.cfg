SPECIFICATION FairSpec
CONSTANTS
  Projectors = {p1, p2}
  Snippets <- MCSnippets
  Blocks <- MCBlocks
  Rows <- MCRows
  RowLength <- MCRowLength
  ProjectedRows <- MCProjectedRows
  Projected <- MCProjected
  ProjectedLength <- MCProjectedLength
  BUFFER_SIZE = 2
  Results <- MCResults
  BlocksOf <- MCBlocksOf
  NoSnippet = NoSnippet
  Absent = Absent
  Nothing = Nothing
  RacesBite = TRUE
CHECK_DEADLOCK FALSE
INVARIANTS MergeInv ReleaseOnlyWhenComplete
  BlocksReturnedOnce RowsReturnedOnce BufferNeverOverflows
PROPERTIES SnippetIsReturned
