CONSTANTS
    NCONS = 2
    INPUT_BUF_SIZE = 2
    W = 4
    Readers = {p1, p2}
    ReadFrom = {0}
    MaxRead = 2
    ConswAnyTime = FALSE
    Nobody = Nobody
    Intr = Intr
    Writers = {w1, w2}
    UART_TX_BUF_SIZE = 2
    TxW = 4
    MaxWrite = 2
    CPU = {c1, c2}
    Boot = c1
    T = {t1, t2}
    TickW = 3
    Naps <- MCNaps
    TickLock = TickLock
SPECIFICATION MCSpec
INVARIANTS  UartSends IntrMatched 
PROPERTY EofRead
SYMMETRY Symmetry
