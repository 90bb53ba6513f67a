\* The console: line discipline, readers, screen, key decoding, output, shell.
CONSTANTS
    a = a
    shell = shell
    prog = prog
    serial = serial
    None = None
    EofMark = EofMark
    Chars = {a}
    LINE_BUFFER_SIZE = 3
    LINE_HISTORY_SIZE = 2
    Readers = {shell, prog}
    capacity <- FullCapacity
    SerialInput = TRUE
    Keyboard = FALSE
    ROWS = 2
    COLS = 2
    LINES = 2
    TabStop = 2
    Glyphs = {"a", "b"}
    MaxChars = 6
    MaxSerial = 5
    MaxStrokes = 5
    MaxLost = 1
    Attempts = 3
    MaxPolls = 2
    Word = 256
    TmpBytes = 4
    Formats <- SomeFormats
    BufferSizes = {0, 1, 2, 4, 5, 8}
    MemoryBytes = 9
    SHELL_LINE_CAPACITY = 9
    ArgvSize = 4
    TypedLines <- SomeLines
    External <- Programs
    HexValue <- HexDigits
    Shown <- SomeFiles
    Newline = "newline"
    BufferBytes = 3
    RowBytes = 2
    MORE_PAGE_LINES = 2
    Records <- SomeRecords
SPECIFICATION ConsoleSpec
INVARIANTS EditingSound ScreenSound InputFaithful ExpansionFits ShellDoesLine
    OutputHonest
PROPERTIES DeliversLines SerialLineRead
