----------------------------- MODULE Preferences -----------------------------
(***************************************************************************)
(* Preferences (src/platforms/arduino_esp32/preferences.cpp) over the      *)
(* simulated NVS (src/core/storage.cpp).  An object of the sketch is open  *)
(* on a namespace; the store keeps, for each namespace and key, a slot     *)
(* with a kind and one field for each kind.  Setting a value sets the kind *)
(* and that kind's field, and leaves the fields of the others as they were.*)
(***************************************************************************)
EXTENDS Strict

CONSTANTS
  Objects,     \* the Preferences objects
  Namespaces,  \* the names they are opened on
  LongNames,   \* those of more than 15 characters
  Keys, Kinds, \* Value::Kind
  Values,      \* the values put, of any kind
  None         \* no value, no name, no slot

(* A slot of the store: Value, with its kind and a field for each kind.    *)
Slot == [kind : Kinds, val : [Kinds -> Values \cup {None}]]

ASSUME PreferencesAssumption ==
  /\ LongNames \subseteq Namespaces
  /\ Kinds \subseteq {"STRING", "UINT", "INT", "BOOL"}
  /\ None \notin Values \cup Namespaces
  /\ None \notin Slot /\ None \notin Kinds \X Values

VARIABLES
  data,     \* Nvs::data_
  prefs,    \* ns_ and opened_ of each object
  lastPut   \* history: the kind and value last put under a name and a key

prefsVars == <<data, prefs, lastPut>>

Closed == [ns |-> None, opened |-> FALSE]
Empty  == [n \in Namespaces |-> [k \in Keys |-> None]]

PrefsInit ==
  /\ data = Empty
  /\ prefs = [o \in Objects |-> Closed]
  /\ lastPut = Empty

Opened(o) == prefs[o].opened
Name(o)   == prefs[o].ns

-----------------------------------------------------------------------------
(* Mutated form of the operator below, used by no definition: a getter     *)
(* that does not look at the kind.                                         *)
AnyKind(slot, kind) == TRUE

-----------------------------------------------------------------------------
(* The store: get_string, get_uint, get_int, get_bool and has.             *)
IsKind(slot, kind) == slot.kind = kind

Lookup(n, k, kind) ==
  IF data[n][k] # None /\ IsKind(data[n][k], kind) THEN data[n][k].val[kind] ELSE None

Has(n, k) == data[n][k] # None

(* set_string and the others: data_[ns][key] makes the slot if need be.    *)
Fields(slot) == IF slot = None THEN [kind \in Kinds |-> None] ELSE slot.val

Set(n, k, kind, v) ==
  data' = [data EXCEPT ![n][k] = [kind |-> kind,
                                  val  |-> [Fields(data[n][k]) EXCEPT ![kind] = v]]]

Erase(n, k) == data' = [data EXCEPT ![n][k] = None]

ClearNamespace(n) == data' = [data EXCEPT ![n] = [k \in Keys |-> None]]

-----------------------------------------------------------------------------
(* The objects.  A declaration makes a closed one; begin ignores read_only *)
(* and opens whatever is asked for; end keeps the name.                    *)
Declare(o) == prefs' = [prefs EXCEPT ![o] = Closed] /\ NoViolation /\ UNCHANGED <<data, lastPut>>

Begin(o, n) ==
  /\ IF n \in LongNames THEN Violation("E061", "WARNING", o, 1) ELSE NoViolation
  /\ prefs' = [prefs EXCEPT ![o] = [ns |-> n, opened |-> TRUE]]
  /\ UNCHANGED <<data, lastPut>>

End(o) == prefs' = [prefs EXCEPT ![o].opened = FALSE] /\ NoViolation /\ UNCHANGED <<data, lastPut>>

(* putString and clear report a call on a closed object, the other calls   *)
(* that change something do not.                                           *)
CheckOpened(o, checked) ==
  IF Opened(o) \/ ~checked THEN NoViolation ELSE Violation("E060", "ERROR", o, 1)

Put(o, k, kind, v) ==
  /\ CheckOpened(o, kind = "STRING")
  /\ IF Opened(o)
     THEN /\ Set(Name(o), k, kind, v)
          /\ lastPut' = [lastPut EXCEPT ![Name(o)][k] = <<kind, v>>]
     ELSE UNCHANGED <<data, lastPut>>
  /\ UNCHANGED prefs

RemoveKey(o, k) ==
  /\ Opened(o)
  /\ Erase(Name(o), k)
  /\ lastPut' = [lastPut EXCEPT ![Name(o)][k] = None]
  /\ NoViolation
  /\ UNCHANGED prefs

Clear(o) ==
  /\ CheckOpened(o, TRUE)
  /\ IF Opened(o)
     THEN /\ ClearNamespace(Name(o))
          /\ lastPut' = [lastPut EXCEPT ![Name(o)] = [k \in Keys |-> None]]
     ELSE UNCHANGED <<data, lastPut>>
  /\ UNCHANGED prefs

(* getString and the others, and isKey.                                    *)
Get(o, k, kind, def) ==
  IF Opened(o) /\ Lookup(Name(o), k, kind) # None THEN Lookup(Name(o), k, kind) ELSE def

IsKey(o, k) == Opened(o) /\ Has(Name(o), k)

(* Nvs::reset.  The objects are the sketch's and stay as they are.         *)
PrefsReset == data' = Empty /\ lastPut' = Empty /\ UNCHANGED prefs

PrefsNext(o) ==
  \/ Clear(o)
  \/ \E k \in Keys : RemoveKey(o, k)
  \/ \E k \in Keys, kind \in Kinds, v \in Values : Put(o, k, kind, v)

-----------------------------------------------------------------------------
(* Properties.                                                             *)

(* What an open object reads under a key is what any object last put there *)
(* under the same name, if it was put as the type that is asked for, and   *)
(* the default otherwise: never a value of before that is still in the     *)
(* slot, of another namespace or of another test (storage.cpp:14-84,       *)
(* preferences.cpp:27-95).                                                 *)
ReadsLastPut ==
  \A o \in Objects, k \in Keys :
    Opened(o) =>
      LET put == lastPut[Name(o)][k]
      IN  /\ IsKey(o, k) = (put # None)
          /\ \A kind \in Kinds, def \in Values \cup {None} :
               Get(o, k, kind, def) = IF put # None /\ put[1] = kind THEN put[2] ELSE def
=============================================================================
