--------------------------- MODULE UncachedStores ---------------------------
(***************************************************************************)
(* What the store registry promises its callers: every call is answered    *)
(* from the configuration and the grants of that moment, as though no      *)
(* backend had been built before and no other caller had called.  It is    *)
(* the abstract specification StoreRegistry is shown to implement, with    *)
(* its cache.                                                              *)
(*                                                                         *)
(* A call that is shown the store it names gets the backend of that store  *)
(* as it is configured now.  One that names none gets the default if it is *)
(* shown that, and else some store that it is shown.  A call that no store *)
(* is there for is refused, and any other may fail, which changes nothing. *)
(***************************************************************************)
CONSTANTS
    Names, Configs, Callers,
    Omitted,     \* a call that names no store
    NoDefault,   \* the registry has no usable default
    NoCall       \* nothing has been answered since the last change

VARIABLES
    shown,     \* caller -> the stores it is shown
    config,    \* store -> what it is configured to
    default,   \* the store of a call that names none, or NoDefault
    last       \* the latest call and its answer

vars == <<shown, config, default, last>>

Settings ==
    /\ shown \in [Callers -> SUBSET Names]
    /\ config \in [Names -> Configs]
    /\ default \in Names \cup {NoDefault}

Init == Settings /\ last = NoCall

Fits(c, request, n) ==
    /\ n \in shown[c]
    /\ \/ request = n
       \/ /\ request = Omitted
          /\ default # NoDefault
          /\ default \in shown[c] => n = default

Serve(c, request, n) ==
    /\ Fits(c, request, n)
    /\ last' = [outcome |-> "ok", caller |-> c, request |-> request,
                store |-> n, backend |-> config[n]]
    /\ UNCHANGED <<shown, config, default>>

Refuse(c, request) ==
    /\ \A n \in Names : ~Fits(c, request, n)
    /\ \E outcome \in {"invalid", "denied", "unavailable"} :
         last' = [outcome |-> outcome, caller |-> c, request |-> request]
    /\ UNCHANGED <<shown, config, default>>

Fail(c, request) ==
    /\ \E n \in Names : Fits(c, request, n)
    /\ last' = [outcome |-> "not_built", caller |-> c, request |-> request]
    /\ UNCHANGED <<shown, config, default>>

(* What one caller is shown changes.                                       *)
Regrant(c) ==
    /\ \E stores \in SUBSET Names : shown' = [shown EXCEPT ![c] = stores]
    /\ last' = NoCall
    /\ UNCHANGED <<config, default>>

(* The settings change in any way.                                         *)
Reconfigure == Settings' /\ last' = NoCall

Next ==
    \/ \E c \in Callers, request \in Names \cup {Omitted} :
         \/ \E n \in Names : Serve(c, request, n)
         \/ Refuse(c, request)
         \/ Fail(c, request)
    \/ \E c \in Callers : Regrant(c)
    \/ Reconfigure

Spec == Init /\ [][Next]_vars

=============================================================================
