-------------------------------- MODULE I2c --------------------------------
(***************************************************************************)
(* I2C: TwoWire (src/platforms/arduino_esp32/wire.cpp) over the bus        *)
(* (src/core/i2c_bus.cpp) and one device with a register file, as the fake *)
(* DS3231, BMP280 and MCP23017 are (src/peripherals/).  A transfer takes   *)
(* several calls, and what has been said so far is kept in the one Wire    *)
(* object: sketch code that runs in the middle of another's transfer (an   *)
(* ISR, a callback of the clock) and uses Wire itself gets into it.        *)
(* Strict mode (src/core/strict.cpp), which setUp() has enabled, is to     *)
(* tell when that happens.                                                 *)
(***************************************************************************)
EXTENDS Integers, Sequences, SequencesExt

CONSTANTS
  Addresses,   \* the addresses used on the bus
  Places,      \* bound: those of them at which the device may be
  Settings,    \* bound: registers, with the values, that tests set
  Registers,   \* the number of registers of the device (sizeof regs_)
  Latches,     \* pairs of registers: a write to the first also sets the second
  Bytes,       \* the number of values of a byte and of the register pointer,
               \* 256 in the code
  Capacity,    \* the size of tx_buf_ and of rx_buf_, 64 in the code
  Programs,    \* the transfers that code makes, see Program
  MaxTransfers     \* bound: transfers in progress, one inside another

(* A transfer: begin with an address; write a register number and bytes    *)
(* for it and the ones after it; end; then, if any, request n bytes and    *)
(* read them one by one.                                                   *)
Byte    == 0..(Bytes - 1)
Program == [addr : Addresses, reg : Byte, bytes : Seq(Byte), n : Nat]

ASSUME I2cAssumption ==
  /\ Registers \in Nat \ {0} /\ Bytes \in Nat /\ Registers <= Bytes
  /\ Latches \subseteq (0..(Registers - 1)) \X (0..(Registers - 1))
  /\ Addresses \subseteq 0..127 /\ Places \subseteq Addresses
  /\ Settings \subseteq (0..(Registers - 1)) \X Byte
  /\ Capacity \in Nat \ {0} /\ Capacity <= Bytes /\ MaxTransfers \in Nat
  /\ \A p \in Programs : p \in Program

VARIABLES
  deviceAt,   \* the address at which the device is, or None
  regs,       \* regs_ of the device
  pointer,    \* reg_pointer_ of the device
  open,       \* in_transmission_
  addr,       \* tx_addr_, None as long as it has its initial value
  tx,         \* tx_buf_, as far as tx_len_
  rx,         \* rx_buf_, from rx_pos_ to rx_len_
  reported,   \* does strict mode's list hold an error?
  users,      \* the transfers in progress, innermost last
  misused,    \* history: has code broken into, or not ended, a transmission?
  corrupted   \* history: has an end sent other bytes than its program's, or
              \* to another address?

device == <<deviceAt, regs, pointer>>
wire   == <<open, addr, tx, rx>>
wireVars   == <<device, wire, reported, users, misused, corrupted>>

None    == -1   \* no device, no address
NoByte  == -1   \* what read() returns when there is nothing to read

(* A user is what its program still has to do: made counts its calls of    *)
(* write, then those of read.  History: others says that others have used  *)
(* the wire or the bus meanwhile; as long as none has, want is what the    *)
(* program should read, and exact says that it has read that so far.       *)
User == [program : Programs,
         pc : {"begin", "write", "end", "request", "read", "done"},
         made : Nat, others : BOOLEAN,
         want : Seq(Byte \cup {NoByte}), exact : BOOLEAN]

WireTypeOK ==
  /\ deviceAt \in Places \cup {None}
  /\ regs \in [0..(Registers - 1) -> Byte]
  /\ pointer \in Byte
  /\ open \in BOOLEAN /\ addr \in Addresses \cup {None}
  /\ tx \in Seq(Byte) /\ Len(tx) <= Capacity
  /\ rx \in Seq(Byte) /\ Len(rx) <= Capacity
  /\ reported \in BOOLEAN /\ misused \in BOOLEAN /\ corrupted \in BOOLEAN
  /\ users \in Seq(User)

WireInit ==
  /\ deviceAt = None
  /\ regs = [r \in 0..(Registers - 1) |-> 0]
  /\ pointer = 0
  /\ open = FALSE /\ addr = None /\ tx = <<>> /\ rx = <<>>
  /\ reported = FALSE
  /\ users = <<>>
  /\ misused = FALSE /\ corrupted = FALSE

-----------------------------------------------------------------------------
TopUser == Last(users)

Payload(p) == <<p.reg>> \o p.bytes

(* The program goes on at pc.                                              *)
GoOn(pc) == users' = [users EXCEPT ![Len(users)].pc = pc]

Running(pc) == users # <<>> /\ TopUser.pc = pc

-----------------------------------------------------------------------------
(* Mutated forms of the operators below, used by no definition: a begin    *)
(* that does not look whether one is open, an end that leaves it open, a   *)
(* failed request that leaves the bytes of an earlier one to be read.      *)

Unnoticed == FALSE

StaysOpen == open

Leftover == rx

-----------------------------------------------------------------------------
(* The device: on_write and on_read.                                       *)

(* One byte goes to the register the pointer is at, if there is one, and   *)
(* the pointer goes on, modulo its width.                                  *)
Store(d, b) ==
  [regs    |-> [r \in DOMAIN regs |->
                  IF r = d.pointer \/ <<d.pointer, r>> \in Latches
                  THEN b ELSE d.regs[r]],
   pointer |-> (d.pointer + 1) % Bytes]

OnWrite(data) ==
  IF data = <<>> THEN UNCHANGED <<regs, pointer>>
  ELSE LET d == FoldLeft(Store, [regs |-> regs, pointer |-> data[1]], Tail(data))
       IN  regs' = d.regs /\ pointer' = d.pointer

(* What n reads in a row from register r return: 0 beyond the last.        *)
Contents(r, n) ==
  [i \in 1..n |-> LET at == (r + i - 1) % Bytes
                  IN  IF at < Registers THEN regs[at] ELSE 0]

After(n) == (pointer + n) % Bytes

-----------------------------------------------------------------------------
(* TwoWire, as a program in progress calls it.                             *)

(* E022, and E020 in write: not while another transmission is open, and    *)
(* not outside of one.                                                     *)
OpenAlready == open

BeginTransmission ==
  /\ Running("begin")
  /\ reported' = (reported \/ OpenAlready)
  /\ open' = TRUE /\ addr' = TopUser.program.addr /\ tx' = <<>>
  /\ GoOn("write")
  /\ UNCHANGED <<device, rx, misused, corrupted>>

(* A byte too many is dropped.                                             *)
WriteByte ==
  /\ Running("write")
  /\ LET data == Payload(TopUser.program)
     IN  /\ tx' = IF Len(tx) < Capacity THEN Append(tx, data[TopUser.made + 1]) ELSE tx
         /\ users' = [users EXCEPT
              ![Len(users)].made = @ + 1,
              ![Len(users)].pc = IF TopUser.made + 1 = Len(data) THEN "end" ELSE @]
  /\ reported' = (reported \/ ~open)
  /\ UNCHANGED <<device, open, addr, rx, misused, corrupted>>

AtMost(n) == IF n < Capacity THEN n ELSE Capacity

(* The bytes that should arrive, as far as the buffer holds them.          *)
Intended(p) == SubSeq(Payload(p), 1, AtMost(Len(Payload(p))))

OpenAfterEnd == FALSE

EndTransmission ==
  /\ Running("end")
  /\ IF addr = deviceAt /\ deviceAt # None
     THEN OnWrite(tx)
     ELSE UNCHANGED <<regs, pointer>>
  /\ open' = OpenAfterEnd /\ tx' = <<>>
  /\ corrupted' = (corrupted \/ addr # TopUser.program.addr
                              \/ tx # Intended(TopUser.program))
  /\ GoOn(IF TopUser.program.n > 0 THEN "request" ELSE "done")
  /\ UNCHANGED <<deviceAt, addr, rx, reported, misused>>

(* What a failed request leaves to be read.                                *)
Refused == <<>>

(* What p should read: what the registers from the one it names hold, as   *)
(* far as the buffer goes, if the device is there.                         *)
Wanted(p) ==
  [i \in 1..p.n |-> IF p.addr = deviceAt /\ i <= Capacity
                    THEN Contents(p.reg, p.n)[i] ELSE NoByte]

RequestFrom ==
  LET p == TopUser.program
      n == AtMost(p.n)
  IN  /\ Running("request")
      /\ IF p.addr = deviceAt
         THEN rx' = Contents(pointer, n) /\ pointer' = After(n)
         ELSE rx' = Refused /\ UNCHANGED pointer
      /\ users' = [users EXCEPT
           ![Len(users)].made = 0,
           ![Len(users)].want = IF TopUser.others THEN <<>> ELSE Wanted(p),
           ![Len(users)].pc = "read"]
      /\ UNCHANGED <<deviceAt, regs, open, addr, tx, reported, misused, corrupted>>

Read ==
  /\ Running("read")
  /\ LET byte == IF rx = <<>> THEN NoByte ELSE Head(rx)
         made == TopUser.made + 1
     IN  users' = [users EXCEPT
           ![Len(users)].made = made,
           ![Len(users)].exact = @ /\ (TopUser.others \/ byte = TopUser.want[made]),
           ![Len(users)].pc = IF made = TopUser.program.n THEN "done" ELSE @]
  /\ rx' = IF rx = <<>> THEN rx ELSE Tail(rx)
  /\ UNCHANGED <<device, open, addr, tx, reported, misused, corrupted>>

-----------------------------------------------------------------------------
(* The code around these calls.                                            *)

Disturbed ==
  [i \in DOMAIN users |-> [users[i] EXCEPT !.others = TRUE, !.want = <<>>,
                                           !.exact = TRUE]]

(* Other code runs, now or in the middle of the transfers in progress.     *)
Start(p) ==
  /\ Len(users) < MaxTransfers
  /\ users' = Append(Disturbed,
                     [program |-> p, pc |-> "begin", made |-> 0,
                      others |-> FALSE, want |-> <<>>, exact |-> TRUE])
  /\ misused' = (misused \/ open)
  /\ UNCHANGED <<device, wire, reported, corrupted>>

Return ==
  /\ Running("done")
  /\ users' = Front(users)
  /\ UNCHANGED <<device, wire, reported, misused, corrupted>>

(* A program may give up half-way, as after an early return.               *)
GiveUp ==
  /\ users # <<>> /\ TopUser.pc \in {"write", "end", "request", "read"}
  /\ users' = Front(users)
  /\ misused' = (misused \/ TopUser.pc \in {"write", "end"})
  /\ UNCHANGED <<device, wire, reported, corrupted>>

(* I2CBus::attach, detach and reset_all.                                   *)
Attach(a) ==
  /\ deviceAt # a
  /\ deviceAt' = a
  /\ users' = Disturbed
  /\ UNCHANGED <<regs, pointer, wire, reported, misused, corrupted>>

(* The test-side setters of the fakes: setTime, setPin, ...                *)
SetRegister(r, b) ==
  /\ regs' = [regs EXCEPT ![r] = b]
  /\ UNCHANGED <<deviceAt, pointer, wire, reported, users, misused, corrupted>>

(* Sim::reset, through reset_state: a test may have ended half-way; the    *)
(* address, the devices and their registers stay.                          *)
WireReset ==
  /\ open' = FALSE /\ tx' = <<>> /\ rx' = <<>>
  /\ reported' = FALSE
  /\ users' = <<>>
  /\ misused' = FALSE /\ corrupted' = FALSE
  /\ UNCHANGED <<device, addr>>

-----------------------------------------------------------------------------
WireNext ==
  \/ BeginTransmission \/ WriteByte \/ EndTransmission \/ RequestFrom \/ Read
  \/ \E p \in Programs : Start(p)
  \/ Return \/ GiveUp
  \/ \E a \in Places \cup {None} : Attach(a)
  \/ \E s \in Settings : SetRegister(s[1], s[2])
  \/ WireReset

WireSpec == WireInit /\ [][WireNext]_wireVars

-----------------------------------------------------------------------------
(* Properties.                                                             *)

(* "silent data loss" and "protocol violation" are what E020 and E022 are  *)
(* for (docs/user/reference/strict-mode.md:96-98): whatever code gets into *)
(* whose transfer, if an end sends other bytes than its program wrote, or  *)
(* to another address, strict mode has reported an error by then.          *)
CorruptionReported == corrupted => reported

(* And it reports none in a test whose code ends its transfers and breaks  *)
(* into none that is open.                                                 *)
NoFalseReport == reported => misused

(* A transfer that other transfers have left alone does what it says       *)
(* (wire.cpp:63-100, the on_write and on_read of the fakes): its bytes are *)
(* in the registers from the one it names on, and what it reads is what    *)
(* these hold when it requests them; from nowhere else, so that no byte of *)
(* an earlier request is read after one that failed.                       *)
Landed(p) ==
  \A i \in 1..Len(p.bytes) :
    LET r == (p.reg + i - 1) % Bytes
    IN  i < Capacity /\ r < Registers => regs'[r] = p.bytes[i]

TransfersExact ==
  [][users # <<>> /\ ~TopUser.others /\ ~reported =>
       /\ EndTransmission /\ deviceAt = TopUser.program.addr => Landed(TopUser.program)
       /\ Return => TopUser.exact]_wireVars
=============================================================================
