\* What the code does not satisfy (README, section 3): the property is violated.
\* The commented one, in its place, gives another counterexample.
SPECIFICATION Spec
CONSTANTS
  Modes = {"10half", "100full", "1000full", "2500full"}
  DefaultMode = "100full"
  Down = "down"
  Phys = {"compared"}
  Flaky = {}
INVARIANT ReplugIsNoticed
\* PROPERTY ChangeSurvivesTimeout   Phys = {"latched"} and Flaky = {"latched"}
