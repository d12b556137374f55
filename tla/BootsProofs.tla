------------------------------ MODULE BootsProofs ------------------------------
(***************************************************************************)
(* Theorems about a sketch over boots, deep sleeps and tests, for any      *)
(* ports, objects, names and keys: what is read of the store is what was   *)
(* last put, nothing printed or injected is lost, a sleep takes its own    *)
(* timer, and strict mode accuses no object that was begun.                *)
(***************************************************************************)
EXTENDS Boots, SeqLemmas

(* The bounds keep their types and never change.                           *)
LEMMA RoomFixed == Spec => [](room \in Rooms)
<1>1. Init => room \in Rooms
  BY DEF Init
<1>2. room \in Rooms /\ [Next]_vars => (room \in Rooms)'
  BY DEF Next, vars, PortStep, PrefsStep, SleepStep, EnableStep, RunSetup, Reset
<1> QED
  BY <1>1, <1>2, PTL DEF Spec

-----------------------------------------------------------------------------
(* The store and the objects over it.                                      *)

StoreOK ==
  /\ data \in [Namespaces -> [Keys -> {None} \cup Slot]]
  /\ lastPut \in [Namespaces -> [Keys -> {None} \cup (Kinds \X Values)]]
  /\ prefs \in [Objects -> [ns : Namespaces \cup {None}, opened : BOOLEAN]]
  /\ \A o \in Objects : Opened(o) => Name(o) \in Namespaces

(* A slot has the kind, and in that kind's field the value, that was last  *)
(* put there; the fields of other kinds may hold anything.                 *)
HoldsLast(slot, put) ==
  IF put = None THEN slot = None
  ELSE slot # None /\ slot.kind = put[1] /\ slot.val[put[1]] = put[2]

StoreInv ==
  /\ StoreOK
  /\ \A n \in Namespaces, k \in Keys : HoldsLast(data[n][k], lastPut[n][k])

LEMMA StoreSteps ==
  ASSUME room \in Rooms, [Next]_vars
  PROVE  \/ UNCHANGED prefsVars
         \/ \E o \in Objects : Clear(o) \/ Declare(o) \/ End(o)
         \/ \E o \in Objects, k \in Keys : RemoveKey(o, k)
         \/ \E o \in Objects, k \in Keys, kind \in Kinds, v \in Values : Put(o, k, kind, v)
         \/ \E o \in Objects, n \in Namespaces : Begin(o, n)
         \/ PrefsReset
<1>1. room.objects \subseteq Objects
  BY BootsAssumption
<1> QED
  BY <1>1 DEF Next, vars, PortStep, PrefsStep, SleepStep, EnableStep, RunSetup, Reset,
              PrefsNext

LEMMA StoreStep == StoreInv /\ room \in Rooms /\ [Next]_vars => StoreInv'
<1> SUFFICES ASSUME StoreInv, room \in Rooms, [Next]_vars
             PROVE  StoreInv'
  OBVIOUS
<1> USE DEF StoreInv, StoreOK
<1>1. CASE UNCHANGED prefsVars
  BY <1>1 DEF prefsVars, Opened, Name
<1>2. ASSUME NEW o \in Objects, Declare(o) \/ End(o)
      PROVE  StoreInv'
  <2> DEFINE P == [ns : Namespaces \cup {None}, opened : BOOLEAN]
  <2>1. UNCHANGED <<data, lastPut>>
    BY <1>2 DEF Declare, End
  <2>2. PICK c \in P : prefs' = [prefs EXCEPT ![o] = c] /\ ~c.opened
    <3>1. Closed \in P /\ ~Closed.opened
      BY DEF Closed
    <3>2. prefs[o] \in P
      OBVIOUS
    <3>3. /\ [prefs[o] EXCEPT !.opened = FALSE] \in P
          /\ ~[prefs[o] EXCEPT !.opened = FALSE].opened
      BY <3>2
    <3>4. End(o) => prefs' = [prefs EXCEPT ![o] = [prefs[o] EXCEPT !.opened = FALSE]]
      BY DEF End
    <3>5. Declare(o) => prefs' = [prefs EXCEPT ![o] = Closed]
      BY DEF Declare
    <3> HIDE DEF P
    <3> QED
      BY <1>2, <3>1, <3>3, <3>4, <3>5
  <2>3. prefs' \in [Objects -> P]
    BY <2>2
  <2>4. \A q \in Objects : Opened(q)' => prefs'[q] = prefs[q]
    BY <2>2 DEF Opened
  <2> QED
    BY <2>1, <2>3, <2>4 DEF Opened, Name
<1>3. ASSUME NEW o \in Objects, NEW n \in Namespaces, Begin(o, n)
      PROVE  StoreInv'
  BY <1>3 DEF Begin, Opened, Name
<1>4. ASSUME NEW o \in Objects, NEW k \in Keys, NEW kind \in Kinds, NEW v \in Values,
             Put(o, k, kind, v)
      PROVE  StoreInv'
  <2>1. CASE ~Opened(o)
    BY <1>4, <2>1 DEF Put, Opened, Name
  <2>2. CASE Opened(o)
    <3> DEFINE n == Name(o)
               slot == [kind |-> kind, val |-> [Fields(data[n][k]) EXCEPT ![kind] = v]]
    <3>1. n \in Namespaces
      BY <2>2
    <3>2. /\ data' = [data EXCEPT ![n][k] = slot]
          /\ lastPut' = [lastPut EXCEPT ![n][k] = <<kind, v>>]
          /\ prefs' = prefs
      BY <1>4, <2>2 DEF Put, Set
    <3>3. Fields(data[n][k]) \in [Kinds -> Values \cup {None}]
      BY <3>1 DEF Fields, Slot
    <3>4. slot \in Slot /\ slot.kind = kind /\ slot.val[kind] = v
      BY <3>3 DEF Slot
    <3> HIDE DEF n, slot
    <3>5. <<kind, v>> \in Kinds \X Values /\ <<kind, v>> # None /\ slot # None
      <4> DEFINE KV == Kinds \X Values
                 e == <<kind, v>>
      <4>1. e \in KV
        OBVIOUS
      <4> HIDE DEF e, KV
      <4>2. None \notin Slot /\ None \notin KV
        BY PreferencesAssumption DEF KV
      <4>3. e # None /\ slot # None
        BY <3>4, <4>1, <4>2
      <4> QED
        BY <4>1, <4>3 DEF e, KV
    <3>6. StoreOK'
      BY <3>1, <3>2, <3>4, <3>5 DEF Opened, Name
    <3>7. HoldsLast(slot, <<kind, v>>)
      BY <3>4, <3>5 DEF HoldsLast
    <3>8. ASSUME NEW m \in Namespaces, NEW j \in Keys
          PROVE  HoldsLast(data'[m][j], lastPut'[m][j])
      <4>1. CASE m = n /\ j = k
        BY <4>1, <3>1, <3>2, <3>7
      <4>2. CASE m # n \/ j # k
        <5>1. data'[m][j] = data[m][j] /\ lastPut'[m][j] = lastPut[m][j]
          BY <4>2, <3>1, <3>2
        <5> QED
          BY <5>1
      <4> QED
        BY <4>1, <4>2
    <3> QED
      BY <3>6, <3>8
  <2> QED
    BY <2>1, <2>2
<1>5. ASSUME NEW o \in Objects, NEW k \in Keys, RemoveKey(o, k)
      PROVE  StoreInv'
  <2> DEFINE n == Name(o)
  <2>1. n \in Namespaces
    BY <1>5 DEF RemoveKey
  <2>2. /\ data' = [data EXCEPT ![n][k] = None]
        /\ lastPut' = [lastPut EXCEPT ![n][k] = None]
        /\ prefs' = prefs
    BY <1>5 DEF RemoveKey, Erase
  <2> HIDE DEF n
  <2>3. StoreOK'
    BY <2>1, <2>2 DEF Opened, Name
  <2>4. ASSUME NEW m \in Namespaces, NEW j \in Keys
        PROVE  HoldsLast(data'[m][j], lastPut'[m][j])
    <3>1. CASE m = n /\ j = k
      <4>1. data'[m][j] = None /\ lastPut'[m][j] = None
        BY <3>1, <2>1, <2>2
      <4> QED
        BY <4>1 DEF HoldsLast
    <3>2. CASE m # n \/ j # k
      <4>1. data'[m][j] = data[m][j] /\ lastPut'[m][j] = lastPut[m][j]
        BY <3>2, <2>1, <2>2
      <4> QED
        BY <4>1
    <3> QED
      BY <3>1, <3>2
  <2> QED
    BY <2>3, <2>4
<1>6. ASSUME NEW o \in Objects, Clear(o)
      PROVE  StoreInv'
  <2>1. CASE ~Opened(o)
    BY <1>6, <2>1 DEF Clear, Opened, Name
  <2>2. CASE Opened(o)
    <3> DEFINE n == Name(o)
               none == [k \in Keys |-> None]
    <3>1. n \in Namespaces
      BY <2>2
    <3>2. /\ data' = [data EXCEPT ![n] = none]
          /\ lastPut' = [lastPut EXCEPT ![n] = none]
          /\ prefs' = prefs
      BY <1>6, <2>2 DEF Clear, ClearNamespace
    <3>3. none \in [Keys -> {None}] /\ \A k \in Keys : none[k] = None
      OBVIOUS
    <3> HIDE DEF n, none
    <3>4. none \in [Keys -> {None} \cup Slot] /\ none \in [Keys -> {None} \cup (Kinds \X Values)]
      BY <3>3
    <3>5. StoreOK'
      BY <3>1, <3>2, <3>4 DEF Opened, Name
    <3>6. ASSUME NEW m \in Namespaces, NEW j \in Keys
          PROVE  HoldsLast(data'[m][j], lastPut'[m][j])
      <4>1. CASE m = n
        BY <4>1, <3>1, <3>2, <3>3 DEF HoldsLast
      <4>2. CASE m # n
        <5>1. data'[m] = data[m] /\ lastPut'[m] = lastPut[m]
          BY <4>2, <3>1, <3>2
        <5> QED
          BY <5>1
      <4> QED
        BY <4>1, <4>2
    <3> QED
      BY <3>5, <3>6
  <2> QED
    BY <2>1, <2>2
<1>7. CASE PrefsReset
  BY <1>7 DEF PrefsReset, Empty, Opened, Name, HoldsLast
<1> QED
  BY <1>1, <1>2, <1>3, <1>4, <1>5, <1>6, <1>7, StoreSteps

(* An open object reads what was last put under the name and the key, if it*)
(* was put as the type that is asked for, and the default otherwise        *)
(* (storage.cpp:14-84, preferences.cpp:27-95).                             *)
THEOREM StoreIsExact == Spec => []ReadsLastPut
<1>1. Init => StoreInv
  BY DEF Init, PrefsInit, StoreInv, StoreOK, Empty, Closed, Opened, Name, HoldsLast
<1>2. StoreInv => ReadsLastPut
  <2> SUFFICES ASSUME StoreInv, NEW o \in Objects, NEW k \in Keys, Opened(o)
               PROVE  LET put == lastPut[Name(o)][k]
                      IN  /\ IsKey(o, k) = (put # None)
                          /\ \A kind \in Kinds, def \in Values \cup {None} :
                               Get(o, k, kind, def)
                                 = IF put # None /\ put[1] = kind THEN put[2] ELSE def
    BY DEF ReadsLastPut
  <2> DEFINE put == lastPut[Name(o)][k]
             slot == data[Name(o)][k]
  <2>1. /\ HoldsLast(slot, put)
        /\ put \in {None} \cup (Kinds \X Values)
        /\ slot \in {None} \cup Slot
    BY DEF StoreInv, StoreOK
  <2>2. IsKey(o, k) = (put # None)
    BY <2>1 DEF IsKey, Has, HoldsLast
  <2>3. ASSUME NEW kind \in Kinds, NEW def \in Values \cup {None}
        PROVE  Get(o, k, kind, def) = IF put # None /\ put[1] = kind THEN put[2] ELSE def
    <3>1. Lookup(Name(o), k, kind)
            = IF slot # None /\ slot.kind = kind THEN slot.val[kind] ELSE None
      BY DEF Lookup, IsKind
    <3>2. CASE put = None
      BY <3>1, <3>2, <2>1 DEF HoldsLast, Get
    <3>3. CASE put # None /\ put[1] = kind
      <4>1. put[2] \in Values /\ put[2] # None
        BY <3>3, <2>1, PreferencesAssumption
      <4>2. Lookup(Name(o), k, kind) = put[2]
        BY <3>1, <3>3, <2>1 DEF HoldsLast
      <4> QED
        BY <4>1, <4>2, <3>3 DEF Get
    <3>4. CASE put # None /\ put[1] # kind
      BY <3>1, <3>4, <2>1 DEF HoldsLast, Get
    <3> QED
      BY <3>2, <3>3, <3>4
  <2> QED
    BY <2>2, <2>3
<1> QED
  BY <1>1, <1>2, StoreStep, RoomFixed, PTL DEF Spec

-----------------------------------------------------------------------------
(* Deep sleep.                                                             *)

(* What the test asked for is what esp_sleep.cpp and sleep.cpp hold.       *)
SleepInv ==
  /\ slept \in Seq([us : Nat, cause : Causes])
  /\ timer = pendingTimer /\ timer \in Nat
  /\ arranged = nextWake /\ arranged \in Causes
  /\ SleepExact

LEMMA SleepSteps ==
  ASSUME [Next]_vars
  PROVE  \/ UNCHANGED <<sleepVars, sleepHistory>>
         \/ \E us \in Durations : EnableTimer(us)
         \/ \E c \in Causes : SetNextWake(c)
         \/ DeepSleepStart
         \/ Reset
BY DEF Next, vars, PortStep, PrefsStep, SleepStep, EnableStep, RunSetup

LEMMA SleepStepInv ==
  "pending" \notin Liberties => (SleepInv /\ [Next]_vars => SleepInv')
<1> SUFFICES ASSUME "pending" \notin Liberties, SleepInv, [Next]_vars
             PROVE  SleepInv'
  OBVIOUS
<1> USE DEF SleepInv, SleepExact, WakeupCause
<1>1. CASE UNCHANGED <<sleepVars, sleepHistory>>
  BY <1>1 DEF sleepVars, sleepHistory
<1>2. ASSUME NEW us \in Durations, EnableTimer(us)
      PROVE  SleepInv'
  BY <1>2, BootsAssumption DEF EnableTimer
<1>3. ASSUME NEW c \in Causes, SetNextWake(c)
      PROVE  SleepInv'
  BY <1>3 DEF SetNextWake
<1>4. CASE DeepSleepStart
  <2> DEFINE e == [us |-> timer, cause |-> arranged]
             t == Append(slept, e)
  <2>1. /\ slept' = t /\ timer' = 0 /\ pendingTimer' = 0
        /\ lastSleepUs' = timer /\ lastWake' = arranged /\ sleepCount' = Len(slept) + 1
        /\ UNCHANGED <<arranged, nextWake>>
    BY <1>4 DEF DeepSleepStart, RecordDeepSleep, TimerAfterSleep
  <2>2. e \in [us : Nat, cause : Causes] /\ e.us = timer /\ e.cause = arranged
    OBVIOUS
  <2> HIDE DEF e
  <2>3. /\ t \in Seq([us : Nat, cause : Causes]) /\ Len(t) = Len(slept) + 1
        /\ t # <<>> /\ Last(t) = e
    BY <2>2, LastOfAppend, ZenonT(40)
  <2> QED
    BY <2>1, <2>2, <2>3
<1>5. CASE Reset
  BY <1>5, BootsAssumption DEF Reset, SleepReset
<1> QED
  BY <1>1, <1>2, <1>3, <1>4, <1>5, SleepSteps

(* Provided no test ends with a timer enabled and not slept on, a sleep    *)
(* takes the timer enabled since the sleep before, and the wake finds the  *)
(* cause the test arranged last (sleep.cpp:10-21, esp_sleep.cpp:10-21).    *)
(* Boots.cfg makes the same proviso; without it the invariant is false.    *)
THEOREM SleepIsExact == "pending" \notin Liberties => (Spec => []SleepExact)
<1> SUFFICES ASSUME "pending" \notin Liberties
             PROVE  Spec => []SleepExact
  OBVIOUS
<1>1. Init => SleepInv
  BY BootsAssumption DEF Init, SleepInv, SleepExact, WakeupCause
<1>2. SleepInv /\ [Next]_vars => SleepInv'
  BY SleepStepInv
<1>3. SleepInv => SleepExact
  BY DEF SleepInv
<1> QED
  BY <1>1, <1>2, <1>3, PTL DEF Spec

-----------------------------------------------------------------------------
(* Strict mode's list.                                                     *)

Report == [code : {"E010", "E060", "E061"}, severity : Severities, object : Ports \cup Objects]

Justified(r) == r.code \in {"E010", "E060"} => r.object \notin begun

(* A step leaves the list alone, empties it, or adds n times one report    *)
(* that is justified.                                                      *)
OnlyJustified ==
  \/ violations' = violations
  \/ violations' = <<>>
  \/ \E r \in Report, n \in Nat : Justified(r) /\ violations' = violations \o [i \in 1..n |-> r]

(* What has been begun and not ended since the boot is begun for the code  *)
(* too, which a boot undoes nothing of.                                    *)
BegunInv ==
  /\ violations \in Seq(Report)
  /\ began \in [Ports -> BOOLEAN]
  /\ prefs \in [Objects -> [ns : Namespaces \cup {None}, opened : BOOLEAN]]
  /\ begun \subseteq Ports \cup Objects
  /\ \A p \in Ports : p \in begun => Begun(p)
  /\ \A o \in Objects : o \in begun => Opened(o)

LEMMA ReportOne ==
  ASSUME NEW code \in {"E010", "E060", "E061"}, NEW sev \in Severities,
         NEW x \in Ports \cup Objects, NEW n \in Nat,
         code \in {"E010", "E060"} => x \notin begun,
         Violation(code, sev, x, n)
  PROVE  OnlyJustified
<1> DEFINE r == [code |-> code, severity |-> sev, object |-> x]
<1>1. r \in Report /\ Justified(r)
  BY DEF Report, Justified
<1>2. violations' = violations \/ violations' = violations \o [i \in 1..n |-> r]
  BY DEF Violation, Violations
<1> QED
  BY <1>1, <1>2 DEF OnlyJustified

LEMMA PortReports ==
  ASSUME BegunInv, NEW p \in Ports, NEW n \in Nat, CheckBegin(p, n)
  PROVE  OnlyJustified
<1>1. CASE Begun(p)
  BY <1>1 DEF CheckBegin, NoViolation, strictVars, OnlyJustified
<1>2. CASE ~Begun(p)
  <2>1. p \notin begun
    BY <1>2 DEF BegunInv
  <2>2. Violation("E010", "WARNING", p, n)
    BY <1>2 DEF CheckBegin
  <2> QED
    BY <2>1, <2>2, ReportOne DEF Severities
<1> QED
  BY <1>1, <1>2

LEMMA ObjectReports ==
  ASSUME BegunInv, NEW o \in Objects, NEW checked \in BOOLEAN, CheckOpened(o, checked)
  PROVE  OnlyJustified
<1>1. CASE Opened(o) \/ ~checked
  BY <1>1 DEF CheckOpened, NoViolation, strictVars, OnlyJustified
<1>2. CASE ~(Opened(o) \/ ~checked)
  <2>1. o \notin begun
    BY <1>2 DEF BegunInv
  <2>2. Violation("E060", "ERROR", o, 1)
    BY <1>2 DEF CheckOpened
  <2> QED
    BY <2>1, <2>2, ReportOne DEF Severities
<1> QED
  BY <1>1, <1>2

LEMMA SerialReports ==
  ASSUME BegunInv, SerialNext
  PROVE  OnlyJustified
<1>1. ASSUME NEW p \in Ports, NEW k, NEW fit, NEW n \in Nat, NEW ret, Emit(p, k, fit, n, ret)
      PROVE  OnlyJustified
  BY <1>1, PortReports DEF Emit
<1>2. ASSUME NEW p \in Ports, NEW k \in Lengths,
             \/ PrintText(p, k) \/ WriteBuffer(p, k) \/ Println(p, k)
             \/ (\E e \in 0..k : Printf(p, k, e)) \/ PrintfFails(p, k)
      PROVE  OnlyJustified
  BY <1>1, <1>2 DEF PrintText, WriteBuffer, Println, Whole, Printf, PrintfFails
<1>3. ASSUME NEW p \in Ports, PrintlnNull(p)
      PROVE  OnlyJustified
  BY <1>1, <1>3, SerialAssumption DEF PrintlnNull, Whole, Eol
<1>4. ASSUME NEW p \in Ports, Read(p)
      PROVE  OnlyJustified
  BY <1>4, PortReports DEF Read
<1>5. ASSUME NEW n \in Indices, NEW k \in Lengths, Inject(n, k)
      PROVE  OnlyJustified
  BY <1>5 DEF Inject, NoViolation, strictVars, OnlyJustified
<1>6. ASSUME NEW n \in Indices, DrainTx(n)
      PROVE  OnlyJustified
  BY <1>6 DEF DrainTx, NoViolation, strictVars, OnlyJustified
<1> QED
  BY <1>2, <1>3, <1>4, <1>5, <1>6 DEF SerialNext

LEMMA StepReports ==
  ASSUME BegunInv, room \in Rooms, [Next]_vars
  PROVE  OnlyJustified
<1>0. room.objects \subseteq Objects
  BY BootsAssumption
<1>1. CASE PortStep
  <2>1. ASSUME NEW p \in Ports, NEW on, SerialBegin(p, on)
        PROVE  OnlyJustified
    BY <2>1 DEF SerialBegin, NoViolation, strictVars, OnlyJustified
  <2> QED
    BY <1>1, <2>1, SerialReports DEF PortStep
<1>2. CASE PrefsStep
  <2>1. ASSUME NEW o \in Objects, PrefsNext(o)
        PROVE  OnlyJustified
    <3>1. ASSUME NEW k \in Keys, RemoveKey(o, k)
          PROVE  OnlyJustified
      BY <3>1 DEF RemoveKey, NoViolation, strictVars, OnlyJustified
    <3>2. ASSUME NEW k \in Keys, NEW kind \in Kinds, NEW v \in Values, Put(o, k, kind, v)
          PROVE  OnlyJustified
      BY <3>2, ObjectReports DEF Put
    <3>3. CASE Clear(o)
      BY <3>3, ObjectReports DEF Clear
    <3> QED
      BY <2>1, <3>1, <3>2, <3>3 DEF PrefsNext
  <2>2. ASSUME NEW o \in Objects, NEW n \in Namespaces, Begin(o, n)
        PROVE  OnlyJustified
    <3>1. CASE n \in LongNames
      <4>1. Violation("E061", "WARNING", o, 1)
        BY <2>2, <3>1 DEF Begin
      <4> QED
        BY <4>1, ReportOne DEF Severities
    <3>2. CASE n \notin LongNames
      BY <2>2, <3>2 DEF Begin, NoViolation, strictVars, OnlyJustified
    <3> QED
      BY <3>1, <3>2
  <2>3. ASSUME NEW o \in Objects, Declare(o) \/ End(o)
        PROVE  OnlyJustified
    BY <2>3 DEF Declare, End, NoViolation, strictVars, OnlyJustified
  <2> QED
    BY <1>0, <1>2, <2>1, <2>2, <2>3 DEF PrefsStep
<1>3. CASE SleepStep \/ RunSetup \/ UNCHANGED vars
  BY <1>3 DEF SleepStep, RunSetup, vars, strictVars, OnlyJustified
<1>4. CASE EnableStep
  BY <1>4 DEF EnableStep, Enable, OnlyJustified
<1>5. CASE Reset
  BY <1>5 DEF Reset, StrictReset, OnlyJustified
<1> QED
  BY <1>1, <1>2, <1>3, <1>4, <1>5 DEF Next

(* What a port step leaves of `began`.                                     *)
LEMMA BeganStep ==
  ASSUME SerialNext
  PROVE  UNCHANGED began
<1>1. ASSUME NEW p, NEW k, NEW fit, NEW n, NEW ret, Emit(p, k, fit, n, ret)
      PROVE  UNCHANGED began
  BY <1>1 DEF Emit, TxWrite
<1> QED
  BY <1>1 DEF SerialNext, PrintText, WriteBuffer, Println, Whole, Printf, PrintfFails,
              PrintlnNull, Read, DrainTx, Inject

LEMMA PrefsLeft ==
  ASSUME NEW o \in Objects, PrefsNext(o)
  PROVE  UNCHANGED prefs
BY DEF PrefsNext, Clear, RemoveKey, Put

LEMMA BegunStep == BegunInv /\ room \in Rooms /\ [Next]_vars => BegunInv'
<1> SUFFICES ASSUME BegunInv, room \in Rooms, [Next]_vars
             PROVE  BegunInv'
  OBVIOUS
<1>0. room.objects \subseteq Objects /\ Ports \cap Objects = {}
  BY BootsAssumption
<1>1. violations' \in Seq(Report)
  <2>1. violations \in Seq(Report)
    BY DEF BegunInv
  <2>2. ASSUME NEW r \in Report, NEW n \in Nat, violations' = violations \o [i \in 1..n |-> r]
        PROVE  violations' \in Seq(Report)
    <3>1. violations \o [i \in 1..n |-> r] \in Seq(Report)
      BY <2>1, ConcatRepeated
    <3> QED
      BY <2>2, <3>1
  <2>3. OnlyJustified
    BY StepReports
  <2>4. <<>> \in Seq(Report)
    BY EmptySeq
  <2> QED
    BY <2>1, <2>2, <2>3, <2>4 DEF OnlyJustified
<1> DEFINE Kept == /\ began' \in [Ports -> BOOLEAN]
                   /\ prefs' \in [Objects -> [ns : Namespaces \cup {None}, opened : BOOLEAN]]
                   /\ begun' \subseteq Ports \cup Objects
                   /\ \A p \in Ports : p \in begun' => began'[p]
                   /\ \A o \in Objects : o \in begun' => prefs'[o].opened
<1> SUFFICES Kept
  BY <1>1 DEF BegunInv, Begun, Opened
<1>2. ASSUME UNCHANGED <<began, prefs>>, begun' \subseteq begun
      PROVE  Kept
  BY <1>2 DEF BegunInv, Begun, Opened
<1>3. CASE PortStep
  <2>1. UNCHANGED prefs
    BY <1>3 DEF PortStep, prefsVars
  <2>2. CASE SerialNext /\ UNCHANGED begun
    BY <1>2, <2>1, <2>2, BeganStep
  <2>3. ASSUME NEW p \in Ports, NEW on \in BOOLEAN, SerialBegin(p, on),
               begun' = IF on THEN begun \cup {p} ELSE begun \ {p}
        PROVE  Kept
    BY <1>0, <2>1, <2>3 DEF SerialBegin, BegunInv, Begun, Opened
  <2> QED
    BY <1>3, <2>2, <2>3 DEF PortStep
<1>4. CASE PrefsStep
  <2>1. UNCHANGED began
    BY <1>4 DEF PrefsStep, serialVars
  <2>2. ASSUME NEW o \in Objects, PrefsNext(o), UNCHANGED begun
        PROVE  Kept
    BY <1>2, <2>1, <2>2, PrefsLeft
  <2>3. ASSUME NEW o \in Objects, NEW n \in Namespaces, Begin(o, n), begun' = begun \cup {o}
        PROVE  Kept
    BY <1>0, <2>1, <2>3 DEF Begin, BegunInv, Begun, Opened
  <2>4. ASSUME NEW o \in Objects, Declare(o) \/ End(o), begun' = begun \ {o}
        PROVE  Kept
    <3> DEFINE P == [ns : Namespaces \cup {None}, opened : BOOLEAN]
    <3>1. prefs' \in [Objects -> P] /\ \A q \in Objects \ {o} : prefs'[q] = prefs[q]
      <4>1. CASE Declare(o)
        BY <4>1 DEF Declare, Closed, BegunInv
      <4>2. CASE End(o)
        <5>1. prefs \in [Objects -> P] /\ prefs[o] \in P
          BY DEF BegunInv
        <5>2. [prefs[o] EXCEPT !.opened = FALSE] \in P
          BY <5>1
        <5>3. prefs' = [prefs EXCEPT ![o] = [prefs[o] EXCEPT !.opened = FALSE]]
          BY <4>2 DEF End
        <5> HIDE DEF P
        <5> QED
          BY <5>1, <5>2, <5>3
      <4> QED
        BY <2>4, <4>1, <4>2
    <3> QED
      BY <1>0, <2>1, <2>4, <3>1 DEF BegunInv, Begun, Opened
  <2> QED
    BY <1>0, <1>4, <2>2, <2>3, <2>4 DEF PrefsStep
<1>5. CASE SleepStep \/ EnableStep \/ UNCHANGED vars
  BY <1>2, <1>5 DEF SleepStep, EnableStep, vars, serialVars, prefsVars
<1>6. CASE RunSetup
  BY <1>2, <1>6 DEF RunSetup, serialVars, prefsVars
<1>7. CASE Reset
  BY <1>7 DEF Reset, SerialReset, PrefsReset, BegunInv
<1> QED
  BY <1>3, <1>4, <1>5, <1>6, <1>7 DEF Next

LEMMA BegunInvariant == Spec => []BegunInv
<1>1. Init => BegunInv
  BY EmptySeq DEF Init, StrictInit, SerialInit, PrefsInit, BegunInv, Closed
<1> QED
  BY <1>1, BegunStep, RoomFixed, PTL DEF Spec

(* What is added to the list accuses only a port or an object that is not  *)
(* begun, whatever earlier boots and tests did to it                       *)
(* (hardware_serial.cpp:19-28, preferences.cpp:27-46, sim.cpp:30-36).      *)
THEOREM Justice == Spec => ReportsJustified
<1> DEFINE Added == \A i \in (Len(violations) + 1)..Len(violations') :
                      violations'[i].code \in {"E010", "E060"}
                        => violations'[i].object \notin begun
<1>1. ASSUME BegunInv, room \in Rooms, Next
      PROVE  Added
  <2>1. violations \in Seq(Report) /\ Len(violations) \in Nat
    BY <1>1 DEF BegunInv
  <2>2. CASE violations' = violations
    BY <2>1, <2>2
  <2>3. CASE violations' = <<>>
    BY <2>1, <2>3
  <2>4. ASSUME NEW r \in Report, NEW n \in Nat, Justified(r),
               violations' = violations \o [i \in 1..n |-> r]
        PROVE  Added
    <3>1. \A i \in (Len(violations) + 1)..Len(violations') : violations'[i] = r
      BY <2>1, <2>4, ConcatRepeated
    <3> QED
      BY <2>4, <3>1 DEF Justified
  <2> QED
    BY <1>1, <2>2, <2>3, <2>4, StepReports DEF OnlyJustified
<1>2. BegunInv /\ room \in Rooms /\ [Next]_vars => [Added]_vars
  BY <1>1
<1> QED
  BY <1>2, BegunInvariant, RoomFixed, PTL DEF Spec, ReportsJustified

-----------------------------------------------------------------------------
(* The serial ports.                                                       *)

Bytes == Ports \X Nat

(* Bytes for port p, numbered upwards and up to m.                         *)
Numbered(s, p, m) ==
  \A i \in DOMAIN s :
    /\ s[i][1] = p /\ s[i][2] <= m
    /\ \A j \in DOMAIN s : i < j => s[i][2] < s[j][2]

SerialTypes ==
  /\ txDrainable \in [Ports -> Seq(Bytes)] /\ txHistory \in [Ports -> Seq(Bytes)]
  /\ rxBuffer \in [Ports -> Seq(Bytes)] /\ drained \in [Ports -> Seq(Bytes)]
  /\ wanted \in [Ports -> Seq(Bytes)] /\ received \in [Ports -> Seq(Bytes)]
  /\ returned \in [Ports -> Nat] /\ hidden \in [Ports -> Nat]
  /\ printed \in Nat /\ injected \in Nat

SentInv ==
  \A p \in Ports :
    /\ drained[p] \o txDrainable[p] = txHistory[p]
    /\ returned[p] = Len(txHistory[p]) + hidden[p]
    /\ Numbered(txHistory[p], p, printed)

ReadInv == \A p \in Ports : received[p] \o rxBuffer[p] = wanted[p]

SerialInv == SerialTypes /\ SentInv /\ ReadInv

LEMMA FreshBytes ==
  ASSUME NEW p \in Ports, NEW m \in Nat, NEW k \in Nat
  PROVE  /\ Fresh(p, m, k) \in Seq(Bytes) /\ Len(Fresh(p, m, k)) = k
         /\ \A i \in 1..k : Fresh(p, m, k)[i][1] = p /\ Fresh(p, m, k)[i][2] = m + i
<1> DEFINE f == Fresh(p, m, k)
<1>1. f \in [1..k -> Bytes] /\ DOMAIN f = 1..k
  BY DEF Fresh, Bytes
<1>2. f \in Seq(Bytes)
  BY <1>1, SeqDef
<1>3. Len(f) = k
  BY <1>1, <1>2, LenProperties
<1>4. \A i \in 1..k : f[i][1] = p /\ f[i][2] = m + i
  BY DEF Fresh
<1> QED
  BY <1>2, <1>3, <1>4

(* Bytes numbered on from m keep a sequence numbered up to m numbered.     *)
LEMMA NumberedOn ==
  ASSUME NEW h \in Seq(Bytes), NEW p \in Ports, NEW m \in Nat, NEW k \in Nat, NEW n \in Nat,
         k <= n, Numbered(h, p, m)
  PROVE  /\ h \o Fresh(p, m, k) \in Seq(Bytes)
         /\ Len(h \o Fresh(p, m, k)) = Len(h) + k
         /\ Numbered(h \o Fresh(p, m, k), p, m + n)
<1> DEFINE f == Fresh(p, m, k)
           t == h \o f
           l == Len(h)
<1>1. /\ f \in Seq(Bytes) /\ Len(f) = k
      /\ \A i \in 1..k : f[i][1] = p /\ f[i][2] = m + i
  BY FreshBytes
<1>2. l \in Nat
  OBVIOUS
<1> HIDE DEF f
<1>3. /\ t \in Seq(Bytes) /\ Len(t) = l + Len(f)
      /\ \A i \in 1..(l + Len(f)) : t[i] = IF i <= l THEN h[i] ELSE f[i - l]
  BY <1>1, ConcatProperties
<1>4. DOMAIN t = 1..(l + k) /\ DOMAIN h = 1..l
  BY <1>1, <1>3, LenProperties
<1> HIDE DEF t
<1>5. \A i \in 1..l : t[i] = h[i]
  BY <1>1, <1>2, <1>3
<1>6. \A i \in (l + 1)..(l + k) : t[i][1] = p /\ t[i][2] = m + (i - l)
  <2> SUFFICES ASSUME NEW i \in (l + 1)..(l + k)
               PROVE  t[i][1] = p /\ t[i][2] = m + (i - l)
    OBVIOUS
  <2>1. i \in 1..(l + Len(f)) /\ ~(i <= l) /\ i - l \in 1..k
    BY <1>1, <1>2
  <2>2. t[i] = f[i - l]
    BY <2>1, <1>3
  <2> QED
    BY <2>1, <2>2, <1>1
<1>7. \A i \in 1..l : t[i][2] \in Nat /\ t[i][1] = p /\ t[i][2] <= m
  <2>1. \A i \in 1..l : h[i] \in Bytes
    BY ElementOfSeq
  <2> QED
    BY <2>1, <1>4, <1>5 DEF Numbered, Bytes
<1> HIDE DEF l
<1>8. ASSUME NEW i \in 1..(l + k)
      PROVE  /\ t[i][1] = p /\ t[i][2] <= m + n
             /\ \A j \in 1..(l + k) : i < j => t[i][2] < t[j][2]
  <2>1. CASE i <= l
    <3>1. i \in 1..l
      BY <1>2, <2>1
    <3>2. t[i][1] = p /\ t[i][2] \in Nat /\ t[i][2] <= m
      BY <3>1, <1>7
    <3>3. ASSUME NEW j \in 1..(l + k), i < j
          PROVE  t[i][2] < t[j][2]
      <4>1. CASE j <= l
        <5>1. j \in 1..l
          BY <1>2, <4>1
        <5>2. h[i][2] < h[j][2]
          BY <3>1, <3>3, <5>1, <1>4 DEF Numbered
        <5> QED
          BY <3>1, <5>1, <5>2, <1>5
      <4>2. CASE ~(j <= l)
        <5>1. j \in (l + 1)..(l + k)
          BY <1>2, <4>2
        <5>2. t[j][2] = m + (j - l)
          BY <5>1, <1>6
        <5> QED
          BY <1>2, <3>2, <5>1, <5>2
      <4> QED
        BY <4>1, <4>2
    <3> QED
      BY <3>2, <3>3
  <2>2. CASE ~(i <= l)
    <3>1. i \in (l + 1)..(l + k)
      BY <1>2, <2>2
    <3>2. t[i][1] = p /\ t[i][2] = m + (i - l)
      BY <3>1, <1>6
    <3>3. ASSUME NEW j \in 1..(l + k), i < j
          PROVE  t[i][2] < t[j][2]
      <4>1. j \in (l + 1)..(l + k)
        BY <1>2, <2>2, <3>3
      <4>2. t[j][2] = m + (j - l)
        BY <4>1, <1>6
      <4> QED
        BY <1>2, <3>2, <3>3, <4>2
    <3> QED
      BY <1>2, <3>1, <3>2, <3>3
  <2> QED
    BY <2>1, <2>2
<1>9. Numbered(t, p, m + n)
  BY <1>4, <1>8 DEF Numbered
<1> QED
  BY <1>1, <1>3, <1>9 DEF t, f, l

(* Every form of print emits the bytes it is asked for, or the first of    *)
(* them, and returns how many, with those that it hides.                   *)
Emission(p, k, fit, n, h) == fit <= k /\ Emit(p, k, fit, n, fit + h) /\ Hidden(p, h)

LEMMA SerialSteps ==
  ASSUME [Next]_vars
  PROVE  \/ UNCHANGED <<txDrainable, txHistory, rxBuffer, serialHistory>>
         \/ \E p \in Ports, k \in Nat, fit \in Nat, n \in Nat, h \in Nat : Emission(p, k, fit, n, h)
         \/ \E p \in Ports : Read(p)
         \/ \E n \in Indices : DrainTx(n)
         \/ \E n \in Indices, k \in Lengths : Inject(n, k)
         \/ SerialReset
<1> DEFINE Emits == \E p \in Ports, k \in Nat, fit \in Nat, n \in Nat, h \in Nat :
                      Emission(p, k, fit, n, h)
<1>0. ASSUME NEW p \in Ports, NEW k \in Nat, NEW n \in Nat, Whole(p, k, n)
      PROVE  Emits
  <2>1. k = k + 0 /\ k <= k /\ 0 \in Nat
    OBVIOUS
  <2>2. Emission(p, k, k, n, 0)
    BY <1>0, <2>1 DEF Whole, Emission
  <2> QED
    BY <2>1, <2>2
<1>1. ASSUME NEW p \in Ports, NEW k \in Lengths,
             PrintText(p, k) \/ WriteBuffer(p, k) \/ Println(p, k)
      PROVE  Emits
  <2>1. k \in Nat /\ k + Eol \in Nat /\ 0 \in Nat /\ 1 \in Nat /\ 2 \in Nat
    BY SerialAssumption DEF Eol
  <2> HIDE DEF Eol, Emits
  <2> QED
    BY <1>0, <1>1, <2>1 DEF PrintText, WriteBuffer, Println
<1>2. ASSUME NEW p \in Ports, PrintlnNull(p)
      PROVE  Emits
  <2>1. Eol \in Nat /\ 1 \in Nat
    BY DEF Eol
  <2> HIDE DEF Eol, Emits
  <2> QED
    BY <1>0, <1>2, <2>1 DEF PrintlnNull
<1>3. ASSUME NEW p \in Ports, NEW k \in Lengths, NEW e \in 0..k, Printf(p, k, e)
      PROVE  Emits
  <2> DEFINE fit == UpToNul(k, e)
             h == Cut(k) - fit
  <2>1. /\ k \in Nat /\ fit \in Nat /\ h \in Nat /\ 1 \in Nat /\ fit <= k
        /\ Returned(k) = fit + h
    BY SerialAssumption DEF Cut, Returned, UpToNul
  <2>2. Emit(p, k, fit, 1, Returned(k)) /\ Hidden(p, h)
    BY <1>3 DEF Printf
  <2> HIDE DEF fit, h
  <2>3. Emission(p, k, fit, 1, h)
    BY <2>1, <2>2 DEF Emission
  <2> QED
    BY <2>1, <2>3
<1>8. ASSUME NEW p \in Ports, NEW k \in Lengths, PrintfFails(p, k)
      PROVE  Emits
  <2>1. k \in Nat /\ 0 \in Nat /\ 0 <= k /\ 0 = 0 + 0
    BY SerialAssumption
  <2>2. Emission(p, k, 0, 0, 0)
    BY <1>8, <2>1 DEF PrintfFails, Emission
  <2> QED
    BY <2>1, <2>2
<1>4. PortStep => \/ Emits
                  \/ UNCHANGED <<txDrainable, txHistory, rxBuffer, serialHistory>>
                  \/ \E p \in Ports : Read(p)
                  \/ \E n \in Indices : DrainTx(n)
                  \/ \E n \in Indices, k \in Lengths : Inject(n, k)
  <2> HIDE DEF Emits
  <2>1. SerialNext => \/ Emits
                      \/ \E p \in Ports : Read(p)
                      \/ \E n \in Indices : DrainTx(n)
                      \/ \E n \in Indices, k \in Lengths : Inject(n, k)
    BY <1>1, <1>2, <1>3, <1>8 DEF SerialNext
  <2>2. (\E p \in Ports, on \in BOOLEAN : SerialBegin(p, on))
          => UNCHANGED <<txDrainable, txHistory, rxBuffer, serialHistory>>
    BY DEF SerialBegin
  <2> QED
    BY <2>1, <2>2 DEF PortStep
<1>5. PrefsStep \/ SleepStep \/ EnableStep \/ RunSetup \/ UNCHANGED vars
        => UNCHANGED <<txDrainable, txHistory, rxBuffer, serialHistory>>
  BY DEF PrefsStep, SleepStep, EnableStep, RunSetup, vars, serialVars
<1>6. Reset => SerialReset
  BY DEF Reset
<1> HIDE DEF Emits
<1>7. Emits => \E p \in Ports, k \in Nat, fit \in Nat, n \in Nat, h \in Nat :
                 Emission(p, k, fit, n, h)
  BY DEF Emits
<1> QED
  BY <1>4, <1>5, <1>6, <1>7 DEF Next

LEMMA ConcatBytes ==
  ASSUME NEW a \in Seq(Bytes), NEW b \in Seq(Bytes), NEW c \in Seq(Bytes)
  PROVE  a \o (b \o c) = (a \o b) \o c
BY ConcatAssociative, SMTT(30)

LEMMA EmitStep ==
  ASSUME SerialInv, NEW p \in Ports, NEW k \in Nat, NEW fit \in Nat, NEW n \in Nat,
         NEW h \in Nat, Emission(p, k, fit, n, h)
  PROVE  SerialInv'
<1> DEFINE f == Fresh(p, printed, fit)
<1>1. /\ printed' = printed + k
      /\ returned' = [returned EXCEPT ![p] = @ + (fit + h)]
      /\ hidden' = [hidden EXCEPT ![p] = @ + h]
      /\ fit <= k
      /\ txDrainable' = [txDrainable EXCEPT ![p] = @ \o f]
      /\ txHistory' = [txHistory EXCEPT ![p] = @ \o f]
      /\ UNCHANGED <<rxBuffer, drained, injected, wanted, received>>
  BY DEF Emission, Hidden, Emit, TxWrite
<1>2. SerialTypes /\ SentInv /\ ReadInv
  BY DEF SerialInv
<1>3. f \in Seq(Bytes) /\ printed \in Nat
  BY <1>2, FreshBytes DEF SerialTypes
<1>4. /\ txHistory[p] \o f \in Seq(Bytes)
      /\ Len(txHistory[p] \o f) = Len(txHistory[p]) + fit
      /\ Numbered(txHistory[p] \o f, p, printed + k)
  BY <1>1, <1>2, <1>3, NumberedOn DEF SerialTypes, SentInv
<1> HIDE DEF f
<1>5. txDrainable[p] \in Seq(Bytes) /\ drained[p] \in Seq(Bytes)
  BY <1>2 DEF SerialTypes
<1>6. txDrainable[p] \o f \in Seq(Bytes)
  BY <1>3, <1>5, ConcatProperties
<1>7. drained[p] \o (txDrainable[p] \o f) = txHistory[p] \o f
  <2>1. drained[p] \o (txDrainable[p] \o f) = (drained[p] \o txDrainable[p]) \o f
    BY <1>3, <1>5, ConcatBytes
  <2> QED
    BY <2>1, <1>2 DEF SentInv
<1>8. returned[p] + (fit + h) \in Nat /\ hidden[p] + h \in Nat
  BY <1>2 DEF SerialTypes
<1>9. SerialTypes'
  BY <1>1, <1>2, <1>4, <1>6, <1>8, SMTT(30) DEF SerialTypes
<1>10. ReadInv'
  BY <1>1, <1>2 DEF ReadInv
<1>11. ASSUME NEW q \in Ports
       PROVE  /\ drained'[q] \o txDrainable'[q] = txHistory'[q]
              /\ returned'[q] = Len(txHistory'[q]) + hidden'[q]
              /\ Numbered(txHistory'[q], q, printed')
  <2>1. CASE q = p
    <3>1. /\ drained'[q] = drained[p] /\ txDrainable'[q] = txDrainable[p] \o f
          /\ txHistory'[q] = txHistory[p] \o f
          /\ returned'[q] = returned[p] + (fit + h) /\ hidden'[q] = hidden[p] + h
      BY <1>1, <1>2, <2>1 DEF SerialTypes
    <3>2. returned[p] = Len(txHistory[p]) + hidden[p]
      BY <1>2 DEF SentInv
    <3>3. hidden[p] \in Nat /\ Len(txHistory[p]) \in Nat
      BY <1>2, LenProperties DEF SerialTypes
    <3>4. returned'[q] = Len(txHistory'[q]) + hidden'[q]
      BY <1>4, <3>1, <3>2, <3>3
    <3> QED
      BY <1>1, <1>4, <1>7, <2>1, <3>1, <3>4
  <2>2. CASE q # p
    <3>1. /\ drained'[q] = drained[q] /\ txDrainable'[q] = txDrainable[q]
          /\ txHistory'[q] = txHistory[q]
          /\ returned'[q] = returned[q] /\ hidden'[q] = hidden[q]
      BY <1>1, <1>2, <2>2 DEF SerialTypes
    <3>2. /\ drained[q] \o txDrainable[q] = txHistory[q]
          /\ returned[q] = Len(txHistory[q]) + hidden[q]
          /\ Numbered(txHistory[q], q, printed)
      BY <1>2 DEF SentInv
    <3>3. Numbered(txHistory[q], q, printed + k)
      <4>1. \A i \in DOMAIN txHistory[q] : txHistory[q][i][2] \in Nat
        <5>1. \A i \in 1..Len(txHistory[q]) : txHistory[q][i] \in Bytes
          BY <1>2, ElementOfSeq DEF SerialTypes
        <5>2. DOMAIN txHistory[q] = 1..Len(txHistory[q])
          BY <1>2, LenProperties DEF SerialTypes
        <5> QED
          BY <5>1, <5>2 DEF Bytes
      <4>2. \A x \in Nat : x <= printed => x <= printed + k
        BY <1>3
      <4> QED
        BY <3>2, <4>1, <4>2 DEF Numbered
    <3> QED
      BY <1>1, <3>1, <3>2, <3>3
  <2> QED
    BY <2>1, <2>2
<1>12. SentInv'
  BY <1>11 DEF SentInv
<1> QED
  BY <1>9, <1>10, <1>12 DEF SerialInv

LEMMA ReadStep ==
  ASSUME SerialInv, NEW p \in Ports, Read(p)
  PROVE  SerialInv'
<1>1. UNCHANGED <<txDrainable, txHistory, printed, drained, returned, hidden, injected, wanted>>
  BY DEF Read
<1>2. SerialTypes /\ SentInv /\ ReadInv
  BY DEF SerialInv
<1>3. SentInv'
  BY <1>1, <1>2 DEF SentInv
<1>4. CASE rxBuffer[p] = <<>>
  <2>1. UNCHANGED <<rxBuffer, received>>
    BY <1>4 DEF Read
  <2> QED
    BY <1>1, <1>2, <1>3, <2>1 DEF SerialTypes, ReadInv, SerialInv
<1>5. CASE rxBuffer[p] # <<>>
  <2> DEFINE b == rxBuffer[p]
             t == Tail(b)
             r == Append(received[p], Head(b))
  <2>1. rxBuffer' = [rxBuffer EXCEPT ![p] = t] /\ received' = [received EXCEPT ![p] = r]
    BY <1>5 DEF Read, AfterRead
  <2>2. b \in Seq(Bytes) /\ received[p] \in Seq(Bytes)
    BY <1>2 DEF SerialTypes
  <2>3. r \o t = received[p] \o b /\ Head(b) \in Bytes /\ t \in Seq(Bytes)
    BY <1>5, <2>2, ConcatHeadTail
  <2>4. r \in Seq(Bytes)
    BY <2>2, <2>3, AppendProperties
  <2>5. received[p] \o b = wanted[p]
    BY <1>2 DEF ReadInv
  <2> HIDE DEF b, t, r
  <2>6. SerialTypes'
    BY <1>1, <1>2, <2>1, <2>3, <2>4 DEF SerialTypes
  <2>7. ASSUME NEW q \in Ports
        PROVE  received'[q] \o rxBuffer'[q] = wanted'[q]
    <3>1. CASE q = p
      BY <1>1, <1>2, <2>1, <2>3, <2>5, <3>1 DEF SerialTypes
    <3>2. CASE q # p
      BY <1>1, <1>2, <2>1, <3>2 DEF SerialTypes, ReadInv
    <3> QED
      BY <3>1, <3>2
  <2>8. ReadInv'
    BY <2>7 DEF ReadInv
  <2> QED
    BY <1>3, <2>6, <2>8 DEF SerialInv
<1> QED
  BY <1>4, <1>5

LEMMA ForIndexPort == ASSUME NEW n PROVE ForIndex(n) \in Ports
BY SerialAssumption DEF ForIndex

LEMMA DrainStep ==
  ASSUME SerialInv, NEW n \in Indices, DrainTx(n)
  PROVE  SerialInv'
<1> DEFINE p == ForIndex(n)
           a == drained[p] \o txDrainable[p]
<1>0. p \in Ports
  BY ForIndexPort
<1>1. /\ txDrainable' = [txDrainable EXCEPT ![p] = <<>>]
      /\ drained' = [drained EXCEPT ![p] = a]
      /\ UNCHANGED <<txHistory, rxBuffer, printed, returned, hidden, injected, wanted,
                    received>>
  BY DEF DrainTx
<1> HIDE DEF p
<1>2. SerialTypes /\ SentInv /\ ReadInv
  BY DEF SerialInv
<1>3. a = txHistory[p] /\ a \in Seq(Bytes) /\ <<>> \in Seq(Bytes) /\ a \o <<>> = a
  <2>1. a = txHistory[p] /\ a \in Seq(Bytes) /\ <<>> \in Seq(Bytes)
    BY <1>0, <1>2, EmptySeq DEF SerialTypes, SentInv
  <2> HIDE DEF a
  <2>2. a \o <<>> = a
    BY <2>1, ConcatEmptySeq
  <2> QED
    BY <2>1, <2>2
<1> HIDE DEF a
<1>4. SerialTypes'
  BY <1>0, <1>1, <1>2, <1>3 DEF SerialTypes
<1>5. ReadInv'
  BY <1>1, <1>2 DEF ReadInv
<1>6. ASSUME NEW q \in Ports
      PROVE  drained'[q] \o txDrainable'[q] = txHistory'[q]
  <2>1. CASE q = p
    BY <1>0, <1>1, <1>2, <1>3, <2>1 DEF SerialTypes
  <2>2. CASE q # p
    BY <1>0, <1>1, <1>2, <2>2 DEF SerialTypes, SentInv
  <2> QED
    BY <2>1, <2>2
<1>7. SentInv'
  BY <1>1, <1>2, <1>6 DEF SentInv
<1> QED
  BY <1>4, <1>5, <1>7 DEF SerialInv

LEMMA InjectStep ==
  ASSUME SerialInv, NEW n \in Indices, NEW k \in Lengths, Inject(n, k)
  PROVE  SerialInv'
<1> DEFINE p == ForIndex(n)
           s == Fresh(p, injected, k)
<1>0. p \in Ports /\ k \in Nat
  BY ForIndexPort, SerialAssumption
<1>1. /\ injected' = injected + k
      /\ rxBuffer' = [rxBuffer EXCEPT ![p] = @ \o s]
      /\ wanted' = [wanted EXCEPT ![p] = @ \o s]
      /\ UNCHANGED <<txDrainable, txHistory, printed, drained, returned, hidden, received>>
  BY DEF Inject
<1> HIDE DEF p
<1>2. SerialTypes /\ SentInv /\ ReadInv
  BY DEF SerialInv
<1>3. s \in Seq(Bytes)
  BY <1>0, <1>2, FreshBytes DEF SerialTypes
<1> HIDE DEF s
<1>4. /\ rxBuffer[p] \in Seq(Bytes) /\ wanted[p] \in Seq(Bytes) /\ received[p] \in Seq(Bytes)
      /\ injected \in Nat /\ injected + k \in Nat
  BY <1>0, <1>2 DEF SerialTypes
<1>5. rxBuffer[p] \o s \in Seq(Bytes) /\ wanted[p] \o s \in Seq(Bytes)
  BY <1>3, <1>4, ConcatProperties
<1>6. received[p] \o (rxBuffer[p] \o s) = wanted[p] \o s
  <2>1. received[p] \o (rxBuffer[p] \o s) = (received[p] \o rxBuffer[p]) \o s
    BY <1>3, <1>4, ConcatBytes
  <2> QED
    BY <1>0, <1>2, <2>1 DEF ReadInv
<1>7. SerialTypes'
  BY <1>0, <1>1, <1>2, <1>4, <1>5 DEF SerialTypes
<1>8. SentInv'
  BY <1>1, <1>2 DEF SentInv
<1>9. ASSUME NEW q \in Ports
      PROVE  received'[q] \o rxBuffer'[q] = wanted'[q]
  <2>1. CASE q = p
    BY <1>0, <1>1, <1>2, <1>6, <2>1 DEF SerialTypes
  <2>2. CASE q # p
    BY <1>0, <1>1, <1>2, <2>2 DEF SerialTypes, ReadInv
  <2> QED
    BY <2>1, <2>2
<1>10. ReadInv'
  BY <1>9 DEF ReadInv
<1> QED
  BY <1>7, <1>8, <1>10 DEF SerialInv

(* The ports as they start and as Sim::reset leaves them.                  *)
LEMMA QuietPorts ==
  ASSUME SerialInit \/ SerialReset
  PROVE  (SerialInit => SerialInv) /\ (SerialReset => SerialInv')
<1>1. /\ NoBytes \in [Ports -> Seq(Bytes)]
      /\ \A p \in Ports : NoBytes[p] = <<>>
  BY EmptySeq DEF NoBytes
<1>2. Len(<<>>) = 0 /\ <<>> \o <<>> = <<>> /\ \A p, m : Numbered(<<>>, p, m)
  BY EmptySeq DEF Numbered
<1> HIDE DEF NoBytes
<1>3. [p \in Ports |-> 0] \in [Ports -> Nat]
  OBVIOUS
<1>4. SerialInit => SerialInv
  BY <1>1, <1>2, <1>3 DEF SerialInit, SerialInv, SerialTypes, SentInv, ReadInv
<1>5. SerialReset => SerialInv'
  BY <1>1, <1>2, <1>3 DEF SerialReset, SerialInv, SerialTypes, SentInv, ReadInv
<1> QED
  BY <1>4, <1>5

(* drainTx() loses, doubles, reorders and misdirects nothing that is       *)
(* printed, the sizes that are returned are those emitted but for what     *)
(* stands behind a NUL in a text that printf formats, and read() returns   *)
(* what is injected, in order (uart_channel.cpp:27-51,                     *)
(* hardware_serial.cpp:31-151).                                            *)
THEOREM PortsAreExact == Spec => []SerialExact
<1>1. Init => SerialInv
  BY QuietPorts DEF Init
<1>2. SerialInv /\ [Next]_vars => SerialInv'
  <2> SUFFICES ASSUME SerialInv, [Next]_vars
               PROVE  SerialInv'
    OBVIOUS
  <2>1. CASE UNCHANGED <<txDrainable, txHistory, rxBuffer, serialHistory>>
    BY <2>1 DEF serialHistory, SerialInv, SerialTypes, SentInv, ReadInv
  <2> QED
    BY <2>1, EmitStep, ReadStep, DrainStep, InjectStep, QuietPorts, SerialSteps
<1>3. SerialInv => SerialExact
  BY DEF SerialInv, SentInv, ReadInv, Numbered, SerialExact
<1> QED
  BY <1>1, <1>2, <1>3, PTL DEF Spec

-----------------------------------------------------------------------------
(* What the invariants above leave to say of the types.                    *)
SleepTypes ==
  /\ enabled \in BOOLEAN
  /\ nextWake \in Causes /\ lastWake \in Causes
  /\ lastSleepUs \in Durations \cup {0} /\ pendingTimer \in Durations \cup {0}
  /\ sleepCount \in 0..room.sleeps

LEMMA EnabledStep ==
  ASSUME [Next]_vars
  PROVE  enabled' = enabled \/ enabled' \in BOOLEAN
<1>1. ASSUME NEW code, NEW sev, NEW x, NEW n, Violation(code, sev, x, n)
      PROVE  enabled' = enabled
  BY <1>1 DEF Violation, Violations
<1>2. NoViolation => enabled' = enabled
  BY DEF NoViolation, strictVars
<1>3. ASSUME NEW p, NEW n, CheckBegin(p, n)
      PROVE  enabled' = enabled
  BY <1>1, <1>2, <1>3 DEF CheckBegin
<1>4. ASSUME NEW o, NEW checked, CheckOpened(o, checked)
      PROVE  enabled' = enabled
  BY <1>1, <1>2, <1>4 DEF CheckOpened
<1>5. PortStep => enabled' = enabled
  <2>1. ASSUME NEW p, NEW k, NEW fit, NEW n, NEW ret, Emit(p, k, fit, n, ret)
        PROVE  enabled' = enabled
    BY <1>3, <2>1 DEF Emit
  <2>2. SerialNext => enabled' = enabled
    BY <1>2, <1>3, <2>1 DEF SerialNext, PrintText, WriteBuffer, Println, Whole, Printf, PrintfFails,
                            PrintlnNull, Read, DrainTx, Inject
  <2> QED
    BY <1>2, <2>2 DEF PortStep, SerialBegin
<1>6. PrefsStep => enabled' = enabled
  <2>1. ASSUME NEW o, PrefsNext(o)
        PROVE  enabled' = enabled
    BY <1>2, <1>4, <2>1 DEF PrefsNext, Clear, RemoveKey, Put
  <2>2. ASSUME NEW o, NEW n, Begin(o, n)
        PROVE  enabled' = enabled
    BY <1>1, <1>2, <2>2 DEF Begin
  <2> QED
    BY <1>2, <2>1, <2>2 DEF PrefsStep, Declare, End
<1> QED
  BY <1>5, <1>6 DEF Next, SleepStep, EnableStep, Enable, RunSetup, Reset, StrictReset, vars,
                    strictVars

LEMMA SleepTypesStep == SleepTypes /\ room \in Rooms /\ [Next]_vars => SleepTypes'
<1> SUFFICES ASSUME SleepTypes, room \in Rooms, [Next]_vars
             PROVE  SleepTypes'
  OBVIOUS
<1>0. room.sleeps \in Nat
  BY BootsAssumption
<1>1. enabled' \in BOOLEAN
  BY EnabledStep DEF SleepTypes
<1>2. room' = room
  BY DEF Next, vars, PortStep, PrefsStep, SleepStep, EnableStep, RunSetup, Reset
<1>3. CASE UNCHANGED <<sleepVars, sleepHistory>>
  BY <1>1, <1>2, <1>3 DEF sleepVars, SleepTypes
<1>4. ASSUME NEW us \in Durations, EnableTimer(us)
      PROVE  SleepTypes'
  BY <1>1, <1>2, <1>4 DEF EnableTimer, SleepTypes
<1>5. ASSUME NEW c \in Causes, SetNextWake(c)
      PROVE  SleepTypes'
  BY <1>1, <1>2, <1>5 DEF SetNextWake, SleepTypes
<1>6. CASE DeepSleepStart
  BY <1>0, <1>1, <1>2, <1>6 DEF DeepSleepStart, RecordDeepSleep, TimerAfterSleep, SleepTypes
<1>7. CASE Reset
  BY <1>0, <1>1, <1>2, <1>7, BootsAssumption DEF Reset, SleepReset, SleepTypes
<1> QED
  BY <1>3, <1>4, <1>5, <1>6, <1>7, SleepSteps

(* The variables have the types that the headers declare.                  *)
THEOREM TypeCorrect == Spec => []TypeOK
<1>1. Init => SleepTypes /\ StoreInv
  <2>1. Init => StoreInv
    BY DEF Init, PrefsInit, StoreInv, StoreOK, Empty, Closed, Opened, Name, HoldsLast
  <2>2. Init => SleepTypes
    <3> SUFFICES ASSUME Init PROVE SleepTypes
      OBVIOUS
    <3>1. "UNDEFINED" \in Causes /\ room.sleeps \in Nat
      BY BootsAssumption DEF Init
    <3>2. /\ enabled = FALSE /\ nextWake = "UNDEFINED" /\ lastWake = "UNDEFINED"
          /\ lastSleepUs = 0 /\ sleepCount = 0 /\ pendingTimer = 0
      BY DEF Init, StrictInit
    <3>3. sleepCount \in 0..room.sleeps
      BY <3>1, <3>2
    <3> QED
      BY <3>1, <3>2, <3>3 DEF SleepTypes
  <2> QED
    BY <2>1, <2>2
<1>2. SleepTypes /\ StoreInv /\ BegunInv /\ room \in Rooms => TypeOK
  BY DEF SleepTypes, StoreInv, StoreOK, BegunInv, Report, TypeOK
<1> QED
  BY <1>1, <1>2, SleepTypesStep, StoreStep, BegunInvariant, RoomFixed, PTL DEF Spec
=============================================================================
