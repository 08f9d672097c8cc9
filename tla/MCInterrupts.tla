---------------------------- MODULE MCInterrupts ----------------------------
(***************************************************************************)
(* Three parts of the kernel in which an interrupt handler and the         *)
(* processes share data: input of the console (Console), output through    *)
(* the UART (Uart), and the clock with the interrupt state of harts        *)
(* (Trap).  No variable is in two of them, so a behaviour moves one, which *)
(* part chooses.                                                           *)
(***************************************************************************)
EXTENDS Console, TLC

CONSTANTS
    Writers, UART_TX_BUF_SIZE, TxW, MaxWrite,
    CPU, Boot, T, TickW, Naps, TickLock

VARIABLES
    tx, thr, irq, handler, writer, queued,
    cpu, lock, ctx, state, ticks, nap, victims, elapsed, panicked,
    part

uvars == <<tx, thr, irq, handler, writer, queued>>
kvars == <<cpu, lock, ctx, state, ticks, nap, victims, elapsed, panicked>>

U == INSTANCE Uart WITH W <- TxW
K == INSTANCE Trap WITH W <- TickW, killed <- victims

ASSUME UartAssumption == U!Assumption
ASSUME TrapAssumption == K!Assumption

MCInit == Init /\ U!Init /\ K!Init /\ part \in {"console", "uart", "clock"}
MCNext ==
    \/ part = "console" /\ Next /\ UNCHANGED <<uvars, kvars, part>>
    \/ part = "uart" /\ U!Next /\ UNCHANGED <<vars, kvars, part>>
    \/ part = "clock" /\ K!Next /\ UNCHANGED <<vars, uvars, part>>
MCSpec == MCInit /\ [][MCNext]_<<vars, uvars, kvars, part>>

\* Uart: bytes leave uart_tx_buf in the order in which uartputc() put them, each once;
\* while bytes wait the device is busy, or an interrupt or a call of uartstart() is
\* still to come; no uartputc() sleeps while there is room.
UartSends == part = "uart" => U!TypeOK /\ U!TxInOrder /\ U!TxGoesOn /\ U!WriterWoken

\* Trap: none of the panics of acquire(), release(), pop_off() and sched() happens; noff
\* counts the locks of a hart, and outside of locks interrupts are on again, on whatever
\* hart a process goes on.
IntrMatched == part = "clock" => K!TypeOK /\ K!NoPanic /\ K!IntrMatched

\* No action or property names a reader or a process.
Symmetry == Permutations(Readers) \cup Permutations(T)
\* A negative argument, which sys_sleep() takes as 0, and a tick.
MCNaps == {-1, 1}
=============================================================================
