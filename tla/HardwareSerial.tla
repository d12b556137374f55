---------------------------- MODULE HardwareSerial ----------------------------
(***************************************************************************)
(* Serial, Serial1 and Serial2 (src/platforms/arduino_esp32/               *)
(* hardware_serial.cpp) over the UART channels (src/core/uart_channel.cpp).*)
(* The sketch prints to and reads from its objects, a test drains and      *)
(* feeds the channels by number.                                           *)
(*                                                                         *)
(* A byte is the port it was meant for and the number of its printing or   *)
(* injection; how values are formatted is left out.  A text is its length, *)
(* that of a printf also the place of the first NUL that it holds.         *)
(***************************************************************************)
EXTENDS Strict

CONSTANTS
  Ports,        \* the HardwareSerial objects, by their uart_num_
  Indices,      \* the numbers a test passes to Sim::uart
  Lengths,      \* the lengths of the texts
  PrintfLimit   \* the most that printf emits (255)

ASSUME SerialAssumption ==
  /\ Ports \subseteq 0..2 /\ 0 \in Ports
  /\ Indices \subseteq Nat /\ Lengths \subseteq Nat
  /\ PrintfLimit \in Nat

VARIABLES
  began,        \* HardwareSerial::began_ of each object
  txDrainable,  \* UartChannel::tx_drainable_
  txHistory,    \* UartChannel::tx_full_history_
  rxBuffer,     \* UartChannel::rx_buffer_
  printed,      \* history: how many bytes the sketch has asked to print
  drained,      \* history: all that drain_tx has returned
  returned,     \* history: the sum of what print, println, printf, write returned
  hidden,       \* history: how many bytes of printf's texts stood behind a NUL
  injected,     \* history: how many bytes tests have injected
  wanted,       \* history: those meant for each channel, in order
  received      \* history: the bytes that read has returned

serialHistory == <<printed, drained, returned, hidden, injected, wanted, received>>
serialVars == <<began, txDrainable, txHistory, rxBuffer, serialHistory>>

NoBytes == [p \in Ports |-> <<>>]

SerialInit ==
  /\ began = [p \in Ports |-> FALSE]
  /\ txDrainable = NoBytes /\ txHistory = NoBytes /\ rxBuffer = NoBytes
  /\ printed = 0 /\ injected = 0
  /\ drained = NoBytes /\ wanted = NoBytes /\ received = NoBytes
  /\ returned = [p \in Ports |-> 0] /\ hidden = [p \in Ports |-> 0]

-----------------------------------------------------------------------------
(* Mutated forms of the operators below, used by no definition: printf     *)
(* returning what vsnprintf does, an inspection instead of a read, a check *)
(* of Serial for whatever object.                                          *)
Untruncated(k) == k
Peeked(p) == rxBuffer[p]
FirstBegun(p) == began[0]

-----------------------------------------------------------------------------
(* UartChannel::for_index: a number without a channel means channel 0.     *)
ForIndex(n) == IF n \in Ports THEN n ELSE 0

Fresh(p, from, k) == [i \in 1..k |-> <<p, from + i>>]

(* tx_write_byte for each of `bytes`.                                      *)
TxWrite(p, bytes) ==
  /\ txDrainable' = [txDrainable EXCEPT ![p] = @ \o bytes]
  /\ txHistory' = [txHistory EXCEPT ![p] = @ \o bytes]
  /\ UNCHANGED <<began, rxBuffer, drained, injected, wanted, received>>

Begun(p) == began[p]

(* check_begin, `times` times.                                             *)
CheckBegin(p, times) ==
  IF Begun(p) THEN NoViolation ELSE Violation("E010", "WARNING", p, times)

(* Of k bytes that the sketch asks for, `fit` are emitted, after `checks`  *)
(* checks, and the call returns `ret`.                                     *)
Emit(p, k, fit, checks, ret) ==
  /\ printed' = printed + k
  /\ CheckBegin(p, checks)
  /\ TxWrite(p, Fresh(p, printed, fit))
  /\ returned' = [returned EXCEPT ![p] = @ + ret]

Hidden(p, k) == hidden' = [hidden EXCEPT ![p] = @ + k]

(* A text that is emitted as it is.                                        *)
Whole(p, k, checks) == Emit(p, k, k, checks, k) /\ Hidden(p, 0)

Eol == 2  \* "\r\n"

(* print and write of a string or a byte; the write of a buffer, which is  *)
(* not checked; println of a text or of a null pointer (no text, length 0).*)
PrintText(p, k)   == Whole(p, k, 1)
WriteBuffer(p, k) == Whole(p, k, 0)
Println(p, k)     == Whole(p, k + Eol, 2)
PrintlnNull(p)    == Whole(p, Eol, 1)

(* printf of a text of k bytes, the first NUL after `e` of them: a buffer  *)
(* of PrintfLimit + 1 cuts the text, emit_ stops at the NUL, and the size  *)
(* that is returned is that of the text as it was cut, NUL or not.         *)
Cut(k)          == IF k > PrintfLimit THEN PrintfLimit ELSE k
Returned(k)     == IF k > PrintfLimit THEN PrintfLimit ELSE k
UpToNul(k, e)   == IF e < Cut(k) THEN e ELSE Cut(k)
Printf(p, k, e) == /\ Emit(p, k, UpToNul(k, e), 1, Returned(k))
                   /\ Hidden(p, Cut(k) - UpToNul(k, e))

(* vsnprintf fails on its format: nothing is emitted or checked.           *)
PrintfFails(p, k) == Emit(p, k, 0, 0, 0) /\ Hidden(p, 0)

SerialBegin(p, on) ==
  /\ began' = [began EXCEPT ![p] = on]
  /\ UNCHANGED <<txDrainable, txHistory, rxBuffer, serialHistory>>
  /\ NoViolation

(* read: the front of the buffer, or -1.                                   *)
AfterRead(p) == Tail(rxBuffer[p])

Read(p) ==
  /\ CheckBegin(p, 1)
  /\ IF rxBuffer[p] = <<>>
     THEN UNCHANGED <<rxBuffer, received>>
     ELSE /\ rxBuffer' = [rxBuffer EXCEPT ![p] = AfterRead(p)]
          /\ received' = [received EXCEPT ![p] = Append(@, Head(rxBuffer[p]))]
  /\ UNCHANGED <<began, txDrainable, txHistory, printed, drained, returned, hidden, injected, wanted>>

-----------------------------------------------------------------------------
(* What a test does: Sim::uart(n).drainTx() and inject(s).                 *)
DrainTx(n) ==
  LET p == ForIndex(n)
  IN  /\ txDrainable' = [txDrainable EXCEPT ![p] = <<>>]
      /\ drained' = [drained EXCEPT ![p] = @ \o txDrainable[p]]
      /\ UNCHANGED <<began, txHistory, rxBuffer, printed, returned, hidden, injected, wanted,
                     received>>
      /\ NoViolation

Inject(n, k) ==
  LET p == ForIndex(n)
      s == Fresh(p, injected, k)
  IN  /\ injected' = injected + k
      /\ rxBuffer' = [rxBuffer EXCEPT ![p] = @ \o s]
      /\ wanted' = [wanted EXCEPT ![p] = @ \o s]
      /\ UNCHANGED <<began, txDrainable, txHistory, printed, drained, returned, hidden, received>>
      /\ NoViolation

(* UartChannel::reset_all and reset_began, both called by Sim::reset.      *)
SerialReset ==
  /\ began' = [p \in Ports |-> FALSE]
  /\ txDrainable' = NoBytes /\ txHistory' = NoBytes /\ rxBuffer' = NoBytes
  /\ printed' = 0 /\ injected' = 0
  /\ drained' = NoBytes /\ wanted' = NoBytes /\ received' = NoBytes
  /\ returned' = [p \in Ports |-> 0] /\ hidden' = [p \in Ports |-> 0]

SerialNext ==
  \/ \E p \in Ports :
       \/ \E k \in Lengths :
            \/ PrintText(p, k) \/ WriteBuffer(p, k) \/ Println(p, k)
            \/ \E e \in 0..k : Printf(p, k, e)
            \/ PrintfFails(p, k)
       \/ PrintlnNull(p)
       \/ Read(p)
  \/ \E n \in Indices : DrainTx(n) \/ \E k \in Lengths : Inject(n, k)

-----------------------------------------------------------------------------
(* Properties.                                                             *)

(* Nothing printed is lost, doubled, reordered or sent to another port on  *)
(* its way to the test: what drainTx() has returned piece by piece and what*)
(* it would return now make up txAll(), and the sizes that print, println, *)
(* printf and write have returned add up to its length, a text cut by      *)
(* printf included, but for what printf has counted and lost behind a NUL. *)
(* Likewise, what read() has returned and what waits make up what was      *)
(* injected (uart_channel.cpp:27-51, hardware_serial.cpp:31-151).          *)
SerialExact ==
  \A p \in Ports :
    /\ drained[p] \o txDrainable[p] = txHistory[p]
    /\ returned[p] = Len(txHistory[p]) + hidden[p]
    /\ \A i \in DOMAIN txHistory[p] : txHistory[p][i][1] = p
    /\ \A i, j \in DOMAIN txHistory[p] : i < j => txHistory[p][i][2] < txHistory[p][j][2]
    /\ received[p] \o rxBuffer[p] = wanted[p]
=============================================================================
