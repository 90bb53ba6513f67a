\* Serial thread and keyboard both edit the line.
CONSTANTS
    a = a
    shell = shell
    prog = prog
    serial = serial
    None = None
    EofMark = EofMark
    Chars = {a}
    LINE_BUFFER_SIZE = 3
    LINE_HISTORY_SIZE = 2
    Readers = {shell, prog}
    capacity <- ShortCapacity
    SerialInput = TRUE
    Keyboard = TRUE
SPECIFICATION Spec
PROPERTY SubmittedLineKept
