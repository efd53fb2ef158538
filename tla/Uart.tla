-------------------------------- MODULE Uart --------------------------------
(***************************************************************************)
(* The uart (src/src/devices/uart.c) between the program, which reads and  *)
(* writes its DATA register, and the host, which pushes input and carries  *)
(* the output to its console (src/src/main.c).  Each direction is a ring   *)
(* whose head and tail wrap around; no operation looks whether it is full. *)
(***************************************************************************)
EXTENDS Integers, Sequences
LOCAL INSTANCE SequencesExt

CONSTANTS
  Char,        \* the characters
  Slots,       \* slots of a ring (256)
  ConsoleMax,  \* characters the window's console takes in one frame (255)
  MaxPush      \* bound: characters pushed in one call of uartPushInput

ASSUME UartAssumption ==
  Slots \in Nat \ {0} /\ ConsoleMax \in Nat /\ MaxPush \in Nat
\* The window's console takes all that a ring can hold.
ASSUME ConsoleAssumption == Slots <= ConsoleMax + 1

VARIABLES
  rx, tx,      \* the rings: [buf, head, tail]
  rxrdy,       \* UART_STATUS_RXRDY
  received,    \* what the program's last read of DATA returned, as a sequence
  console      \* what the host's last use of uartPullOutput passed on

uartVars == <<rx, tx, rxrdy, received, console>>

----------------------------------------------------------------------------
(* Rings *)

NoChar == 0
EmptyRing == [buf |-> [i \in 0 .. Slots - 1 |-> NoChar], head |-> 0, tail |-> 0]

Advance(i) == (i + 1) % Slots
Put(r, ch) == [r EXCEPT !.buf[r.head] = ch, !.head = Advance(r.head)]

\* The ring after a sequence of characters is put into it, one after the other.
PutAll(r, s) == FoldLeft(Put, r, s)

IsEmpty(r) == r.head = r.tail
Drop(r, n) == [r EXCEPT !.tail = (r.tail + n) % Slots]

\* What is unread in a ring, the oldest first.
Contents(r) == [i \in 1 .. (r.head - r.tail) % Slots |-> r.buf[(r.tail + i - 1) % Slots]]

----------------------------------------------------------------------------
\* uartCreate and uartReset
UartInit ==
  /\ rx = EmptyRing /\ tx = EmptyRing /\ rxrdy = FALSE
  /\ received = <<>> /\ console = <<>>

uartReset ==
  /\ rx' = EmptyRing /\ tx' = EmptyRing /\ rxrdy' = FALSE
  /\ received' = <<>> /\ console' = <<>>

\* The host pushes up to MaxPush characters: RXRDY is set whatever
\* the count, 0 included.
Pushes == UNION {[1 .. n -> Char] : n \in 0 .. MaxPush}
uartPushInput ==
  /\ \E data \in Pushes : rx' = PutAll(rx, data)
  /\ rxrdy' = TRUE
  /\ received' = <<>>
  /\ UNCHANGED <<tx, console>>

\* A mutant of the next: RXRDY is cleared by every read.
ReadDataClearing ==
  /\ received' = IF IsEmpty(rx) THEN <<>> ELSE <<rx.buf[rx.tail]>>
  /\ rx' = IF IsEmpty(rx) THEN rx ELSE Drop(rx, 1)
  /\ rxrdy' = FALSE
  /\ UNCHANGED <<tx, console>>

\* uartReadByte and uartReadWord of DATA: an empty ring gives 0 and keeps RXRDY.
ReadData ==
  /\ received' = IF IsEmpty(rx) THEN <<>> ELSE <<rx.buf[rx.tail]>>
  /\ rx' = IF IsEmpty(rx) THEN rx ELSE Drop(rx, 1)
  /\ rxrdy' = (rxrdy /\ (IsEmpty(rx) \/ ~IsEmpty(rx')))
  /\ UNCHANGED <<tx, console>>

\* A mutant of the next: the head comes back to slot 1.
WriteDataWrapping(ch) ==
  /\ tx' = [Put(tx, ch) EXCEPT !.head = IF tx.head = Slots - 1 THEN 1 ELSE tx.head + 1]
  /\ console' = <<>>
  /\ UNCHANGED <<rx, rxrdy, received>>

\* uartWriteByte and uartWriteWord of DATA: TXRDY and TXEMPTY are always set.
WriteData(ch) ==
  /\ tx' = Put(tx, ch)
  /\ console' = <<>>
  /\ UNCHANGED <<rx, rxrdy, received>>

\* uartPullOutput of at most max characters.
Pullable(max) == IF Len(Contents(tx)) <= max THEN Len(Contents(tx)) ELSE max

\* The window's loop, after each frame, pulls one character at a time and asks
\* only then whether its buffer has room, so one more may be pulled and lost.
WindowPulls == Pullable(ConsoleMax + 1)
WindowKeeps == SubSeq(Contents(tx), 1, Pullable(ConsoleMax))

WindowConsole ==
  /\ console' = WindowKeeps
  /\ tx' = Drop(tx, WindowPulls)
  /\ UNCHANGED <<rx, rxrdy, received>>

\* The console-only loop, after each machine step, passes all of it on.
TextConsole ==
  /\ console' = Contents(tx)
  /\ tx' = Drop(tx, Len(Contents(tx)))
  /\ UNCHANGED <<rx, rxrdy, received>>

UartNext ==
  \/ uartPushInput \/ ReadData \/ (\E ch \in Char : WriteData(ch))
  \/ WindowConsole \/ TextConsole \/ uartReset

UartSpec == UartInit /\ [][UartNext]_uartVars

----------------------------------------------------------------------------
(* Each direction implements Channel: characters are read, and reach the      *)
(* console, in the order in which they came in, none twice, and those that    *)
(* are lost are lost Slots at a time (head meets tail in a full ring).        *)
Rx == INSTANCE Channel WITH
        queue <- Contents(rx), delivered <- received, Bursts <- Pushes
Tx == INSTANCE Channel WITH
        queue <- Contents(tx), delivered <- console, Bursts <- {<<ch>> : ch \in Char}
CharactersInOrder == Rx!ChannelSpec /\ Tx!ChannelSpec

(* Unread input keeps the interrupt line up, so that it is not left behind:    *)
(* RXRDY is cleared by the read that empties the ring and by no other.         *)
InputSignalled == ~IsEmpty(rx) => rxrdy

(* What the code does not do: uart.h calls bit 2 "Transmit ready", and a       *)
(* program that finds it set writes.  So each character written is still in    *)
(* the ring, or on the console, after the write.                               *)
ReadyToTransmit ==
  [][\A ch \in Char : WriteData(ch) => Contents(tx') = Append(Contents(tx), ch)]_uartVars
=============================================================================
