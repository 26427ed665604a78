SPECIFICATION FairSpec
CONSTANTS
  Scanners = {s1, s2}
  Filters = {f1, f2}
  Projectors = {p1, p2}
  Returners = {r1}
  Snippets <- MCSnippets
  Workloads <- MCWorkloads
  Blocks <- MCBlocks
  Rows <- MCRows
  RowLength <- MCRowLength
  ProjectedRows <- MCProjectedRows
  Projected <- MCProjected
  ProjectedLength <- MCProjectedLength
  Passing <- MCPassing
  BUFFER_SIZE = 4
  NUM_OF_BLOCKS = 2
  MaxFailures = 1
  RacesBite = FALSE
  NoSnippet = NoSnippet
  Absent = Absent
  Nothing = Nothing
CHECK_DEADLOCK FALSE
INVARIANTS ReleaseOnlyWhenComplete CompleteIsReleased AnswerIsExact NothingTwice
  ScanBufferNeverOverflows SocketsAreClosed
PROPERTIES SnippetIsAnswered
