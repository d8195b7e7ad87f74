SPECIFICATION FairSpec
CONSTANTS
  Modes = {"10half", "100full", "1000full", "2500full"}
  DefaultMode = "100full"
  Down = "down"
  Phys = {"latched", "compared"}
  Flaky = {"compared"}
INVARIANT TypeOK
