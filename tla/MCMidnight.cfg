INIT ControlsInit
NEXT ControlsNext
CONSTANTS
    None = None
    Junk = Junk
    Minutes = {0, 480, 1200}
    MaxEdits = 2
    MaxReads = 1
PROPERTY OtherPartsKept
CHECK_DEADLOCK FALSE
