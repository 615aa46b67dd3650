SPECIFICATION FairSpec
CONSTANTS
  IndexSize = 8
  Sizes = {0, 1, 2}
  MaxLog2 = 1
  Entries <- RingEntries
  MainWords = 4
  EntryWords = 1
  Line = 2
  Bases = {0, 1, 2, 4}
  Tags = {t1, t2}
INVARIANT RingInv
PROPERTIES InOrder HeadIsAnswered
