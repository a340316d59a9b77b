CONSTANTS
    Uplinked <- Received
    Buffers = {341, 342}
    SequenceSpace = 4
    MaxHot = 2
SPECIFICATION Spec
INVARIANT ChecksumsAreValid
CHECK_DEADLOCK FALSE
