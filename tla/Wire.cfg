SPECIFICATION Spec
CONSTANTS
  GroupSize = 4
  Modulus = 32
  MaxNodes = 3
  Bytes = {0, 1, 10, 39, 255}
INVARIANTS TypeOK NoLeadingZero VarintSpelled RendersMagnitude
PROPERTY StepsPaid
