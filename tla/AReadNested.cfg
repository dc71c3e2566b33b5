SPECIFICATION Spec
CONSTANTS
    Buffers = {result}
    NumBlocks = 3
    None = None
    MaxNest = 2
    Prompt = TRUE
INVARIANT DeliveredInOrder
CHECK_DEADLOCK FALSE
