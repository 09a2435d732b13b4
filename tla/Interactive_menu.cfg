\* Scripts of up to five lines: a write and a read, or two reads and the end, or any mistake.
SPECIFICATION FairSpec
CONSTANTS
  word = word
  Garbage = Garbage
  NULL = NULL
  Line <- MCLine
  MaxLines = 5
  MaxRuns = 3
INVARIANTS TypeOK CommandsAsTyped
PROPERTY EndsWhenAsked
CHECK_DEADLOCK FALSE
