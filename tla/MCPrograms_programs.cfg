\* Mazes of two rows are the smallest in which a walk meets a room it has visited
\* from elsewhere; lines of 5 strings hold both redirections and a trailing &;
\* strings of 4 characters give strtok up to two tokens and repeated delimiters;
\* words of 8 bits have four bytes of 2 bits; lines of 1 unit fit both
\* buffers of a connection, of 2 only the client's, of 5 neither.
SPECIFICATION Spec
CONSTANTS
    Sizes <- MCSizes
    FileSizes <- MCFileSizes
    MaxTokens = 5
    Chars = {1, 2}
    MaxLength = 4
    MaxCalls = 4
    LogByte = 1
    LineLengths = {0, 1, 2, 5}
    MaxLines = 3
    QBUF = 5
    CBUF = 2
INVARIANTS
    PerfectMaze
    SolvesMaze
    ParseExact
    DescriptorsRestored
    StringsCorrect
    BitsCorrect
    WireInStep
