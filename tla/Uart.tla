-------------------------------- MODULE Uart --------------------------------
(***************************************************************************)
(* kernel/uart.c with consolewrite(): writers fill uart_tx_buf, uartstart()  *)
(* feeds the port from it, called by the writers and by the interrupt        *)
(* handler.  The echo of input (under cons.lock) and the kernel's printf()   *)
(* (under pr.lock: scheduler(), yield(), fork(), exit()) go to the port      *)
(* directly, uartputc_sync(), each on whatever hart it runs.  uart_tx_lock   *)
(* is held within a step only, and the writer's sleep releases it.  A byte   *)
(* is the number it has in the output, modulo TXWRAP.                        *)
(***************************************************************************)
EXTENDS Integers

CONSTANTS
  Writers,
  UART_TX_BUF_SIZE,
  TXWRAP,             \* uart_tx_w and uart_tx_r are taken modulo this (2^64)
  MAXWRITE            \* the longest write()

ASSUME UartAssumption ==
  /\ {UART_TX_BUF_SIZE, TXWRAP, MAXWRITE} \subseteq Nat \ {0}
  /\ TXWRAP % UART_TX_BUF_SIZE = 0 /\ TXWRAP > UART_TX_BUF_SIZE

VARIABLES
  txbuf, tx_w, tx_r,  \* uart_tx_buf, uart_tx_w, uart_tx_r
  fifo, txint,        \* the port: characters it holds; its transmit interrupt
  rx,                 \* a character has been received
  hpc,                \* the interrupt handler
  ppc,                \* the printf() that holds pr.lock
  wpc, left           \* each writer: its place and the bytes it still has

uartVars == <<txbuf, tx_w, tx_r, fifo, txint, rx, hpc, ppc, wpc, left>>

\* uartinit() leaves the port idle with both interrupts enabled.
UartInit ==
  /\ txbuf = [i \in 0 .. UART_TX_BUF_SIZE - 1 |-> 0] /\ tx_w = 0 /\ tx_r = 0
  /\ fifo = 0 /\ txint = FALSE /\ rx = FALSE /\ hpc = "none" /\ ppc = "none"
  /\ wpc = [p \in Writers |-> "idle"] /\ left = [p \in Writers |-> 0]

\* LSR_TX_IDLE
IdleAlways == TRUE  \* mutant: the status register is not looked at
Idle == fifo = 0
AwakeNot(f) == f  \* mutant: no wakeup(&uart_tx_r)
Awake(f) == [p \in Writers |-> IF f[p] = "asleep" THEN "awake" ELSE f[p]]

\* uartstart() when the bytes from tx_r up to `end' wait and the writers are at f.
\* Its loop goes on with a second byte if the port has sent the first by then.
\* Writing to the port clears its transmit interrupt; so does reading ISR, once
\* nothing is left.
uartstart(end, f) ==
  \/ tx_r = end /\ txint' = FALSE /\ wpc' = f /\ UNCHANGED <<tx_r, fifo>>
  \/ tx_r # end /\ ~Idle /\ wpc' = f /\ UNCHANGED <<tx_r, fifo, txint>>
  \/ /\ tx_r # end /\ Idle
     /\ \E k \in 1 .. (end - tx_r) % TXWRAP : tx_r' = (tx_r + k) % TXWRAP
     /\ fifo' = fifo + 1 \/ (tx_r' = end /\ fifo' = fifo)
     /\ txint' = FALSE
     /\ wpc' = Awake(f)

-----------------------------------------------------------------------------
(* consolewrite(): uartputc() for each byte; ending early is a failed copyin. *)

WriteCall(p, k) ==
  /\ wpc[p] = "idle"
  /\ wpc' = [wpc EXCEPT ![p] = "writing"] /\ left' = [left EXCEPT ![p] = k]
  /\ UNCHANGED <<txbuf, tx_w, tx_r, fifo, txint, rx, hpc, ppc>>

FullLate == (tx_w - tx_r) % TXWRAP = UART_TX_BUF_SIZE + 1  \* mutant: off by one
Full == (tx_w - tx_r) % TXWRAP = UART_TX_BUF_SIZE

uartputc(p) ==
  LET end == (tx_w + 1) % TXWRAP
  IN  /\ wpc[p] \in {"writing", "awake"} /\ left[p] > 0 /\ ~Full
      /\ txbuf' = [txbuf EXCEPT ![tx_w % UART_TX_BUF_SIZE] = tx_w] /\ tx_w' = end
      /\ left' = [left EXCEPT ![p] = @ - 1]
      /\ uartstart(end, [wpc EXCEPT ![p] = "writing"])
      /\ UNCHANGED <<rx, hpc, ppc>>

\* sleep(&uart_tx_r, &uart_tx_lock); kill() ends the sleep, not the loop.
WriteSleep(p) ==
  /\ wpc[p] \in {"writing", "awake"} /\ left[p] > 0 /\ Full
  /\ wpc' = [wpc EXCEPT ![p] = "asleep"]
  /\ UNCHANGED <<txbuf, tx_w, tx_r, fifo, txint, rx, hpc, ppc, left>>

WriteKill(p) ==
  /\ wpc[p] = "asleep" /\ wpc' = [wpc EXCEPT ![p] = "awake"]
  /\ UNCHANGED <<txbuf, tx_w, tx_r, fifo, txint, rx, hpc, ppc, left>>

WriteEnd(p) ==
  /\ wpc[p] = "writing"
  /\ wpc' = [wpc EXCEPT ![p] = "idle"] /\ left' = [left EXCEPT ![p] = 0]
  /\ UNCHANGED <<txbuf, tx_w, tx_r, fifo, txint, rx, hpc, ppc>>

-----------------------------------------------------------------------------
(* uartintr(): all received characters, then uartstart(). *)

IntrEnter ==
  /\ hpc = "none" /\ (rx \/ txint) /\ hpc' = "getc"
  /\ UNCHANGED <<txbuf, tx_w, tx_r, fifo, txint, rx, ppc, wpc, left>>

\* uartgetc() and consoleintr(), which has something to echo or not.  (An echo of
\* several characters is that of several keys.)
Getc ==
  /\ hpc = "getc"
  /\ IF rx THEN rx' = FALSE /\ hpc' \in {"getc", "echo"}
     ELSE hpc' = "start" /\ UNCHANGED rx
  /\ UNCHANGED <<txbuf, tx_w, tx_r, fifo, txint, ppc, wpc, left>>

\* uartputc_sync() spins on the status register without uart_tx_lock ...
EchoWait ==
  /\ hpc = "echo" /\ Idle /\ hpc' = "put"
  /\ UNCHANGED <<txbuf, tx_w, tx_r, fifo, txint, rx, ppc, wpc, left>>

\* ... and then writes.
EchoPut ==
  /\ hpc = "put" /\ fifo' = fifo + 1 /\ txint' = FALSE /\ hpc' = "getc"
  /\ UNCHANGED <<txbuf, tx_w, tx_r, rx, ppc, wpc, left>>

NoRestart ==  \* mutant: the interrupt is acknowledged, uartstart() is not called
  hpc' = "none" /\ txint' = FALSE /\ UNCHANGED <<tx_r, fifo, wpc>>
Restart == hpc' = "none" /\ uartstart(tx_w, wpc)
IntrStart == hpc = "start" /\ Restart /\ UNCHANGED <<txbuf, tx_w, rx, ppc, left>>

-----------------------------------------------------------------------------
(* printf(): uartputc_sync() for each of its characters.  pr.lock lets one     *)
(* printf() at a time come here, and keeps nobody else from the port.          *)

PrintChar ==
  /\ ppc = "none" /\ ppc' = "wait"
  /\ UNCHANGED <<txbuf, tx_w, tx_r, fifo, txint, rx, hpc, wpc, left>>

PrintWait ==
  /\ ppc = "wait" /\ Idle /\ ppc' = "put"
  /\ UNCHANGED <<txbuf, tx_w, tx_r, fifo, txint, rx, hpc, wpc, left>>

PrintPut ==
  /\ ppc = "put" /\ fifo' = fifo + 1 /\ txint' = FALSE /\ ppc' = "none"
  /\ UNCHANGED <<txbuf, tx_w, tx_r, rx, hpc, wpc, left>>

-----------------------------------------------------------------------------
(* The port: it sends, and raises its interrupt when it has sent everything; it *)
(* receives.                                                                    *)

Drain ==
  /\ fifo > 0 /\ fifo' = fifo - 1 /\ txint' = (txint \/ fifo = 1)
  /\ UNCHANGED <<txbuf, tx_w, tx_r, rx, hpc, ppc, wpc, left>>

Receive ==
  /\ ~rx /\ rx' = TRUE
  /\ UNCHANGED <<txbuf, tx_w, tx_r, fifo, txint, hpc, ppc, wpc, left>>

WriteStep(p) == uartputc(p) \/ WriteSleep(p) \/ WriteEnd(p)
UartHandler == IntrEnter \/ Getc \/ EchoWait \/ EchoPut \/ IntrStart

PrintGo == PrintWait \/ PrintPut

UartNext ==
  \/ \E p \in Writers : WriteStep(p) \/ WriteKill(p)
                        \/ \E k \in 1 .. MAXWRITE : WriteCall(p, k)
  \/ UartHandler \/ PrintChar \/ PrintGo \/ Drain \/ Receive

\* Some writer that can go on goes on (no given one: scheduler() scans from slot
\* 0), the handler and a printf() that has begun run on, and the port sends.
\* Nothing has to be printed or to arrive.
UartFair ==
  /\ WF_uartVars(\E p \in Writers : WriteStep(p))
  /\ WF_uartVars(UartHandler) /\ WF_uartVars(PrintGo) /\ WF_uartVars(Drain)

-----------------------------------------------------------------------------

\* Every variable keeps its type.
UartTypeOK ==
  /\ txbuf \in [0 .. UART_TX_BUF_SIZE - 1 -> 0 .. TXWRAP - 1]
  /\ {tx_w, tx_r} \subseteq 0 .. TXWRAP - 1
  /\ fifo \in Nat /\ {txint, rx} \subseteq BOOLEAN
  /\ hpc \in {"none", "getc", "echo", "put", "start"}
  /\ ppc \in {"none", "wait", "put"}
  /\ wpc \in [Writers -> {"idle", "writing", "asleep", "awake"}]
  /\ left \in [Writers -> 0 .. MAXWRITE]

\* The bytes of uart_tx_buf are sent once each and in the order in which they
\* were put there: at uart_tx_r lies the byte whose turn it is.
OutputInOrder ==
  [][\A i \in 0 .. ((tx_r' - tx_r) % TXWRAP) - 1 :
       txbuf'[(tx_r + i) % UART_TX_BUF_SIZE] = (tx_r + i) % TXWRAP]_uartVars

\* As long as bytes wait in uart_tx_buf something is under way that will call
\* uartstart() again: the port is sending, its interrupt is pending, or the
\* handler is running.  The echo and printf(), which clear the interrupt without
\* holding uart_tx_lock, do not lose it.
NoStuckOutput == tx_w # tx_r => fifo > 0 \/ txint \/ hpc # "none"

\* uartstart(), the echo and printf() look at the port under three different
\* locks, so each may find it idle before any of them writes: it is given up to
\* three characters at once, and never more, whose FIFO holds 16.
PortRoom == fifo <= 3

\* write() to the console returns, provided that the rest comes to rest: no new
\* write() or printf(), no further key, nobody killed.  Otherwise it may not: with
\* keys arriving faster than they are echoed uartintr() does not get out of its
\* loop to call uartstart(), and a woken writer need not be dispatched.
NoNewOutput ==
  /\ ~PrintChar /\ ~Receive
  /\ \A p \in Writers : ~WriteKill(p) /\ \A k \in 1 .. MAXWRITE : ~WriteCall(p, k)
WriteReturns ==
  <>[][NoNewOutput]_uartVars => \A p \in Writers : wpc[p] = "writing" ~> wpc[p] = "idle"
=============================================================================
