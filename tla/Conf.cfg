SPECIFICATION Spec
CONSTANTS
  Plain = {"gpus", "palette"}
  Colour = {"palette"}
  Value = {"a", "b"}
  MaxRead = 2
INVARIANTS
  CommandLineWins
  SeatComplete
