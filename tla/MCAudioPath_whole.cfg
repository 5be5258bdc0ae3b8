SPECIFICATION PathSpec
CONSTANTS
    Frame = 2
    Silence = 2
    FrameCap = 2
    SequenceMod = 4
    TimestampMod = 16
    Step = 6
    Period = 8
    MaxTime = 12
    MaxStreams = 2
    FrameBytes = 2
    Sizes <- SmallSizes
INVARIANTS TypeOK Paced NonceFresh WholeSource NoDrift
PROPERTY Spaced
