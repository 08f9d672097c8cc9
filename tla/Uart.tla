-------------------------------- MODULE Uart --------------------------------
(***************************************************************************)
(* Output to the UART, kernel/uart.c, and consolewrite() that feeds it.    *)
(*                                                                         *)
(* Writers put bytes into the transmit buffer and sleep when it is full;   *)
(* uartstart(), called by them and by the interrupt handler, moves a byte  *)
(* to the device when the device is idle.  uartputc_sync() (echo, printf)  *)
(* bypasses the buffer and spins until the device is idle.  A step is a    *)
(* section under uart_tx_lock.                                             *)
(***************************************************************************)
EXTENDS Integers, Sequences

CONSTANTS
    Writers,
    UART_TX_BUF_SIZE,
    W,                  \* uart_tx_w and uart_tx_r are counted modulo W (2^64)
    MaxWrite            \* bound: bytes of one write()

Assumption ==
    /\ UART_TX_BUF_SIZE \in Nat \ {0} /\ MaxWrite \in Nat
    /\ W \in Nat /\ W % UART_TX_BUF_SIZE = 0 /\ W > UART_TX_BUF_SIZE

VARIABLES
    tx,                 \* uart_tx_buf, uart_tx_w, uart_tx_r
    thr,                \* the device is busy with a byte (LSR_TX_IDLE is 0)
    irq,                \* an interrupt is pending at the PLIC
    handler,            \* uartintr() is running
    writer,             \* process -> position, bytes left
    queued              \* history: the bytes put and not sent, by their writer

vars == <<tx, thr, irq, handler, writer, queued>>

Init ==
    /\ tx = [buf |-> [k \in 0..(UART_TX_BUF_SIZE - 1) |-> 0], w |-> 0, r |-> 0]
    /\ thr = FALSE /\ irq = FALSE /\ handler = FALSE
    /\ writer = [p \in Writers |-> [pc |-> "user", n |-> 0]]
    /\ queued = <<>>

\* wakeup(&uart_tx_r).
Wake(wr) == [p \in Writers |-> IF wr[p].pc = "sleep" THEN [wr[p] EXCEPT !.pc = "putc"] ELSE wr[p]]

\* uartstart(): the byte at uart_tx_r goes to the device if that is idle.  (A device
\* that is idle again at once is a UartSent before the next call.)
uartstart(t, wr, q) ==
    IF t.w = t.r \/ thr
    THEN tx' = t /\ writer' = wr /\ queued' = q /\ UNCHANGED thr
    ELSE /\ tx' = [t EXCEPT !.r = (@ + 1) % W, !.buf[t.r % UART_TX_BUF_SIZE] = 0]
         /\ writer' = Wake(wr)
         /\ queued' = Tail(q)
         /\ thr' = TRUE

\* consolewrite(): a byte is put if the console is the current one, skipped if not;
\* either_copyin() may fail.
Write(p) ==
    /\ writer[p].pc = "user"
    /\ \E n \in 1..MaxWrite : writer' = [writer EXCEPT ![p] = [pc |-> "next", n |-> n]]
    /\ UNCHANGED <<tx, thr, irq, handler, queued>>
consolewrite(p) ==
    /\ writer[p].pc = "next"
    /\ \/ writer' = [writer EXCEPT ![p] = [pc |-> "user", n |-> 0]]
       \/ writer[p].n > 0 /\ writer' = [writer EXCEPT ![p].n = @ - 1]
       \/ writer[p].n > 0 /\ writer' = [writer EXCEPT ![p].pc = "putc"]
    /\ UNCHANGED <<tx, thr, irq, handler, queued>>

uartputc(p) ==
    /\ writer[p].pc = "putc"
    /\ IF tx.w = (tx.r + UART_TX_BUF_SIZE) % W
       THEN writer' = [writer EXCEPT ![p].pc = "sleep"] /\ UNCHANGED <<tx, thr, queued>>
       ELSE uartstart([tx EXCEPT !.w = (@ + 1) % W, !.buf[tx.w % UART_TX_BUF_SIZE] = p],
                      [writer EXCEPT ![p] = [pc |-> "next", n |-> @.n - 1]],
                      Append(queued, p))
    /\ UNCHANGED <<irq, handler>>

\* uartintr(): input is read and echoed, then uartstart().
IntrBegin ==
    /\ irq /\ ~handler
    /\ irq' = FALSE /\ handler' = TRUE
    /\ UNCHANGED <<tx, thr, writer, queued>>
uartputc_sync ==
    /\ ~thr
    /\ thr' = TRUE
    /\ UNCHANGED <<tx, irq, handler, writer, queued>>
\* Mutant: the handler reads input only.
MutIntrEndNoStart ==
    /\ handler
    /\ handler' = FALSE
    /\ UNCHANGED <<tx, thr, irq, writer, queued>>

IntrEnd ==
    /\ handler
    /\ handler' = FALSE
    /\ uartstart(tx, writer, queued)
    /\ UNCHANGED irq

\* The device has sent its byte, or a character has arrived.
UartSent ==
    /\ thr /\ thr' = FALSE
    /\ irq' = TRUE
    /\ UNCHANGED <<tx, handler, writer, queued>>
UartReceived ==
    /\ ~irq /\ irq' = TRUE
    /\ UNCHANGED <<tx, thr, handler, writer, queued>>

Next ==
    \/ IntrBegin \/ uartputc_sync \/ IntrEnd \/ UartSent \/ UartReceived
    \/ \E p \in Writers : Write(p) \/ consolewrite(p) \/ uartputc(p)

Spec == Init /\ [][Next]_vars

-----------------------------------------------------------------------------
TypeOK ==
    /\ {tx.w, tx.r} \subseteq 0..(W - 1)
    /\ {thr, irq, handler} \subseteq BOOLEAN
    /\ writer \in [Writers -> [pc : {"user", "next", "putc", "sleep"}, n : 0..MaxWrite]]

\* The transmit buffer between uart_tx_r and uart_tx_w holds the bytes put and not yet
\* sent, in order, across the wrap of the indexes: no byte is overwritten or skipped.
TxInOrder ==
    [k \in 1..((tx.w - tx.r) % W) |-> tx.buf[(tx.r + k - 1) % UART_TX_BUF_SIZE]] = queued

\* A byte in the buffer is never forgotten: the device is busy and will interrupt, an
\* interrupt is pending, or the handler is about to call uartstart().
TxGoesOn == queued # <<>> => thr \/ irq \/ handler

\* A writer sleeps only while the buffer is full.
WriterWoken == \A p \in Writers : writer[p].pc = "sleep" => Len(queued) = UART_TX_BUF_SIZE

=============================================================================
