SPECIFICATION SimulatorFairSpec
CONSTANTS
  Dates = {"20260215"}
  Times = {}
  ISAWidth = 3
  Within <- Names
  Today <- Day
  N = 3
  Preferred <- OfEach
  MaxAttempts = 2
  Operators = {"first", "second"}
  Wants <- Disagree
INVARIANTS SimulatorTypeOK PauseTakesHold ToldWhatWasAsked CorruptionKeptOut OnlyXmlFails
PROPERTIES SignalHeeded
\* A simulator that was stopped stays so.
CHECK_DEADLOCK FALSE
