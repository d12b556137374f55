------------------------------- MODULE Arduino -------------------------------
(***************************************************************************)
(* The Arduino calls on pins (src/platforms/arduino_esp32/arduino.cpp):    *)
(* pinMode, digitalWrite and digitalRead, which check the rules of the     *)
(* ESP32-S3 in strict mode and then go to the pins of module Gpio.  The    *)
(* sketch makes them from loop() and from ISRs inside a digitalWrite.      *)
(***************************************************************************)
EXTENDS Gpio, Strict

CONSTANTS
  Strays,   \* pin numbers outside the registry (above MAX_PIN)
  Rooms     \* bounds: see `room`

ASSUME ArduinoAssumption ==
  /\ Pins \subseteq 0..63 /\ Strays \subseteq 64..255
  /\ Rooms \subseteq [pins : SUBSET Pins, strays : SUBSET Strays, edges : SUBSET Edges,
                     modes : SUBSET PinModes, listeners : Nat, strict : BOOLEAN]

VARIABLES
  outputs,  \* history: the pins that the last pinMode of this test made an OUTPUT
  bare,     \* history: the pins written in strict mode while they were not
  room      \* bounds: the pins, edges, modes and listeners, strict mode or not

aVars == <<vars, strictVars, outputs, bare, room>>

AInit ==
  /\ Init /\ StrictInit
  /\ outputs = {} /\ bare = {}
  /\ room \in Rooms

ATypeOK ==
  /\ TypeOK
  /\ enabled \in BOOLEAN
  /\ outputs \subseteq Pins /\ bare \subseteq Pins \cup Strays
  /\ room \in Rooms

-----------------------------------------------------------------------------
(* The rules, check_pin_in_range, check_flash_pin, check_usb_jtag_pin and  *)
(* that for strapping pins.                                                *)
MaxPin         == 48
IsFlashPin(p)     == p \in 26..32
IsUsbJtagPin(p)   == p \in {19, 20}
IsStrappingPin(p) == p \in {0, 3, 45, 46}

Report(broken, code, severity, p) ==
  IF broken THEN <<[code |-> code, severity |-> severity, object |-> p]>> ELSE <<>>

CommonChecks(p) == Report(p > MaxPin, "E003", "ERROR", p) \o Report(IsFlashPin(p), "E002", "ERROR", p)

ModeChecks(p) ==
  CommonChecks(p) \o Report(IsUsbJtagPin(p), "E007", "WARNING", p)
                  \o Report(IsStrappingPin(p), "E006", "WARNING", p)

(* PinRegistry::get_mode: a stray pin is an input.                         *)
GetMode(p) == IF p \in Pins THEN mode[p] ELSE "INPUT"

WriteChecks(p) == CommonChecks(p) \o Report(GetMode(p) # "OUTPUT", "E001", "ERROR", p)

-----------------------------------------------------------------------------
PinMode(p, m) ==
  /\ Violations(ModeChecks(p))
  /\ IF p \in Pins
     THEN SetMode(p, m) /\ outputs' = IF m = "OUTPUT" THEN outputs \cup {p} ELSE outputs \ {p}
     ELSE InSketch /\ UNCHANGED <<vars, outputs>>
  /\ UNCHANGED <<bare, room>>

(* The report comes before the write and whatever ISRs it runs.            *)
DigitalWrite(p, v) ==
  /\ Violations(WriteChecks(p))
  /\ IF p \in Pins THEN SetLevel(p, v) ELSE InSketch /\ UNCHANGED vars
  /\ bare' = IF enabled /\ p \notin outputs THEN bare \cup {p} ELSE bare
  /\ UNCHANGED <<outputs, room>>

DigitalRead(p) ==
  /\ InSketch
  /\ Violations(CommonChecks(p))
  /\ UNCHANGED <<vars, outputs, bare, room>>

(* attachInterrupt and detachInterrupt, which check nothing, and what tests*)
(* and listeners do to the pins.                                           *)
PinStep ==
  /\ Steps(room.pins, room.edges)
  /\ NoViolation
  /\ UNCHANGED <<outputs, bare, room>>

EnableStrict ==
  /\ room.strict
  /\ \E on \in BOOLEAN : Enable(on)
  /\ UNCHANGED <<vars, outputs, bare, room>>

AReset ==
  /\ Reset /\ StrictReset
  /\ outputs' = {} /\ bare' = {}
  /\ UNCHANGED room

ANext ==
  \/ PinStep /\ \A p \in Pins : Len(listeners'[p]) <= room.listeners
  \/ \E p \in room.pins \cup room.strays :
       \/ \E m \in room.modes : PinMode(p, m)
       \/ room.strict /\ (DigitalRead(p) \/ \E v \in Levels : DigitalWrite(p, v))
  \/ EnableStrict
  \/ AReset

ASpec == AInit /\ [][ANext]_aVars
AFairSpec == ASpec /\ Fairness

-----------------------------------------------------------------------------
(* Properties.                                                             *)

(* E001 names the pins that were written in strict mode while the last     *)
(* pinMode of this test, if any, had not made them outputs, and no other:  *)
(* from an ISR inside another's digitalWrite too, and whatever an earlier  *)
(* test had made of the pin (arduino.cpp:104-113, pin_registry.cpp:11-17). *)
BareWritesReported ==
  {violations[i].object : i \in {j \in DOMAIN violations : violations[j].code = "E001"}} = bare
=============================================================================
