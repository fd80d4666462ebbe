SPECIFICATION Spec
CONSTANTS
  Entries <- MCEntries
  MaxEntries = 3
  Limits <- MCLimits
  Defaults <- MCDefaults
  Chunk = 2
  Slack = 1
  RogueStatuses <- MCRogueStatuses
  RogueSlots = {0, 1, 2, 3}
  RogueSizes = {3, 6}
INVARIANTS
  TypeOK
  DiskWithinBudget
  HonestAnswerKept
  KeptWithinLimits
  SlotUsedOnce
  SlotsMatchFiles
  NothingLostSilently
CHECK_DEADLOCK FALSE
