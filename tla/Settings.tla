-------------------------------- MODULE Settings --------------------------------
(***************************************************************************)
(* The destinations of a device as settings: keys with the number of a     *)
(* destination, or without one, which a call of initialize writes, a       *)
(* configuration file may hold, the metadata of the device keep, and both  *)
(* the opener and the status functions (crates/synclite/src/lib.rs,        *)
(* status.rs) read.                                                        *)
(***************************************************************************)
EXTENDS Integers, FiniteSets, Functions

CONSTANTS NDest,       \* bound: numbers in keys are 1..NDest; 0 stands for none
          Places,      \* databases a destination may be
          DefaultPlace \* the database of a destination that names none

ASSUME SettingsAssumption == NDest \in Nat \ {0} /\ DefaultPlace \in Places

Dests == 1..NDest
Named == {"dst-type", "dst-connection-string"}
Counted == Named \union {"dst-alias"}
NoSettings == [k \in {} |-> DefaultPlace]
Setting == UNION {[keys -> Places] : keys \in SUBSET (Counted \X (0..NDest))}

\* What initialize writes for one destination, and for a list
Single(place) == [k \in Named \X {0} |-> place]
Multiple(places) == [k \in Named \X DOMAIN places |-> places[k[2]]]

HasDestination(s) == \E k \in DOMAIN s : k[1] \in Named

\* A number counts when any of its keys is there; without one, there is destination 1.
Indices(s) ==
  LET numbered == {i \in Dests : \E base \in Counted : <<base, i>> \in DOMAIN s} IN
  IF numbered = {} THEN {1} ELSE numbered

\* The key with the number, or for destination 1 the one without
PlaceOf(s, i) ==
  LET key == <<"dst-connection-string", i>>  plain == <<"dst-connection-string", 0>> IN
  CASE key \in DOMAIN s -> s[key]
    [] key \notin DOMAIN s /\ i = 1 /\ plain \in DOMAIN s -> s[plain]
    [] OTHER -> DefaultPlace

\* A configuration: where each of its destinations is
NoConfig == [d \in {} |-> DefaultPlace]
Configured(s) == IF HasDestination(s) THEN [i \in Indices(s) |-> PlaceOf(s, i)] ELSE NoConfig

\* What was configured before, where a call names no destination of its own
Hydrated(s, before) ==
  IF HasDestination(s) THEN s
  ELSE [k \in DOMAIN s \union DOMAIN before |-> IF k \in DOMAIN s THEN s[k] ELSE before[k]]
================================================================================
