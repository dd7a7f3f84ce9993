SPECIFICATION Spec
CONSTANTS
    w1 = w1
    w2 = w2
    c1 = c1
    c2 = c2
    Writers <- MCWriters
    Closers <- MCClosers
    ReadLoop = ReadLoop
    WriteLoop = WriteLoop
    QueueCap = 2
    MaxWrites = 4
\* The device ends when every goroutine has returned.
CHECK_DEADLOCK FALSE
INVARIANTS
    TypeOK
    ShutdownOnce
    WriterOwnsHandle
    QueueOrder
PROPERTIES
    NothingSentAfterClose
    CloseReturns
    WritersReleased
    LoopsEnd
