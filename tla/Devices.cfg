SPECIFICATION FairSpec
CONSTANTS
  Readers = {r1, r2}
  INPUT_BUF_SIZE = 2
  WRAP = 4
  MAXREAD = 2
  None = None
  Writers = {w1, w2}
  UART_TX_BUF_SIZE = 2
  TXWRAP = 4
  MAXWRITE = 2
  Sleepers = {s1, s2}
  TICKWRAP = 5
  MAXSLEEP = 2
INVARIANTS NobodyStuck
PROPERTIES RefinesLines OutputInOrder DevicesAnswer
