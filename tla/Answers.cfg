SPECIFICATION Spec
CONSTANTS
    MaxPrints = 3
    SizeBits = 10
    OutOfRange = OutOfRange
    nullopt = nullopt
    SeparatorOf <- MCSeparatorOf
INVARIANTS TypeOK NeverOutOfRange CodeTellsVerdict AnswerShowsOutput
