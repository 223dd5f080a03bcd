----------------------------- MODULE MCDevices ------------------------------
(* The console, the serial port and the clock share no state: one run explores *)
(* each of them in turn.                                                       *)
EXTENDS Console, Uart, Clock

VARIABLE unit

vars == <<unit, consoleVars, uartVars, clockVars>>

Init == unit \in {"console", "uart", "clock"} /\ ConsoleInit /\ UartInit /\ ClockInit
        /\ (unit # "clock" => ticks = 0)

Next ==
  /\ UNCHANGED unit
  /\ \/ unit = "console" /\ ConsoleNext /\ UNCHANGED <<uartVars, clockVars>>
     \/ unit = "uart" /\ UartNext /\ UNCHANGED <<consoleVars, clockVars>>
     \/ unit = "clock" /\ ClockNext /\ UNCHANGED <<consoleVars, uartVars>>

Spec == Init /\ [][Next]_vars

\* The fairness of the units; the clock of a run that explores another unit stands.
FairSpec ==
  /\ Spec /\ UartFair
  /\ WF_clockVars(unit = "clock" /\ clockintr)
  /\ WF_clockVars(\E p \in Sleepers : SleepStep(p))

\* Nobody waits for what has happened: readers of the console (consoleread()),
\* writers to the port and the port itself (uartputc(), uartstart()), and
\* sleepers on the clock (sys_sleep()), who do not wake early either.
NobodyStuck ==
  /\ ConsoleTypeOK /\ UartTypeOK
  /\ FullIsReadable /\ NoStuckReader
  /\ NoStuckOutput /\ PortRoom
  /\ SleepsLongEnough /\ NobodyOversleeps

\* What is waited for comes: control-D gives an empty read, and once no new calls
\* start, a write() to the console returns and a sleep() ends.
DevicesAnswer == EofReadsZero /\ WriteReturns /\ SleepEnds
=============================================================================
