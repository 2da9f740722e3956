--------------------------- MODULE StoreRegistry ---------------------------
(***************************************************************************)
(* The named stores of one server process: how OBJECTSTORE_STORES and      *)
(* OBJECTSTORE_DEFAULT_STORE become a registry (load_stores and            *)
(* default_store_name of objectstore_mcp/config.py), which store a call of *)
(* which caller resolves to, and the cache of backends behind it           *)
(* (objectstore_mcp/auth.py).                                              *)
(*                                                                         *)
(* One cache serves all callers.  What a caller may reach is decided anew  *)
(* at each call by the identity service, and may change between calls; the *)
(* environment changes with a restart, or in the process when the reload   *)
(* that changes it also drops the cache.                                   *)
(***************************************************************************)
EXTENDS Naturals, Sequences

CONSTANTS
    Names, Local,   \* the store names, and the name of the implicit store
    Configs,        \* what a store may be configured to: backend, endpoint, ...
    Callers,
    Unbound,        \* callers with no bound actor (local stdio use)
    Strangers,      \* callers with an unauthenticated or tenant-less actor
    Environments,   \* the environments the process may run with
    Blank,          \* OBJECTSTORE_DEFAULT_STORE is unset or white space
    Omitted,        \* a call that gives no store, or an empty one
    Absent          \* no backend is cached

(* order is the order of the names in the JSON object, config what it says *)
(* of each, root what OBJECTSTORE_FS_ROOT makes of the implicit store.     *)
Environment ==
    [readable : BOOLEAN,
     order    : Seq(Names),
     config   : [Names -> Configs],
     root     : Configs,
     default  : Names \cup {Blank}]

ASSUME StoresAssumption ==
    /\ Local \in Names
    /\ {Blank, Omitted} \cap Names = {}
    /\ Absent \notin Configs
    /\ Environments \subseteq Environment
    /\ Unbound \subseteq Callers /\ Strangers \subseteq Callers
    /\ Unbound \cap Strangers = {}

VARIABLES
    env,     \* the environment of the process
    grants,  \* member -> the stores its roles and groups grant
    cache,   \* _BACKEND_CACHE: name -> the configuration its backend was built from
    last     \* the latest get_backend: who asked for what and got what

vars == <<env, grants, cache, last>>

(* The callers whose actor is bound and authenticated.                     *)
Members == Callers \ (Unbound \cup Strangers)

Requests == Names \cup {Omitted}

NoCall == [outcome |-> "none"]

Served == [outcome : {"ok"}, caller : Callers, request : Requests,
           store : Names, backend : Configs]

Refused == [outcome : {"invalid", "denied", "unavailable", "not_built"},
            caller : Callers, request : Requests]

-----------------------------------------------------------------------------
(* The registry (config.py).                                               *)

Configured(e) == {e.order[i] : i \in DOMAIN e.order}

Stores(e) == Configured(e) \cup {Local}

ConfigOf(e, n) == IF n \in Configured(e) THEN e.config[n] ELSE e.root

(* Faulty: a local store that is configured is not passed over.            *)
FirstStoreOfAll(e) == IF e.order = <<>> THEN Local ELSE e.order[1]

(* The first configured store but the local one, or else the local one.    *)
FirstStore(e) ==
    IF Configured(e) \subseteq {Local}
    THEN Local
    ELSE e.order[CHOOSE i \in DOMAIN e.order :
                    e.order[i] # Local /\ \A j \in 1..(i - 1) : e.order[j] = Local]

DefaultStore(e) == IF e.default # Blank THEN e.default ELSE FirstStore(e)

(* default_store_name raises when the explicit default is no store.        *)
DefaultIsStore(e) == DefaultStore(e) \in Stores(e)

-----------------------------------------------------------------------------
(* Resolution (auth.py).                                                   *)

Recognised(c) == env.readable /\ c \notin Strangers

(* For a caller that is recognised.                                        *)
Entitled(c) == IF c \in Unbound THEN Stores(env) ELSE Stores(env) \cap grants[c]

(* Faulty: a store whose backend is cached is not checked again.           *)
ResolvesToCached(c, request, n) ==
    /\ Recognised(c)
    /\ n \in Entitled(c) \/ cache[n] # Absent
    /\ \/ request = n
       \/ /\ request = Omitted
          /\ DefaultIsStore(env)
          /\ DefaultStore(env) \in Entitled(c) => n = DefaultStore(env)

(* Faulty: a caller out of reach of the default is given nothing.          *)
ResolvesToDefaultOnly(c, request, n) ==
    /\ Recognised(c)
    /\ n \in Entitled(c)
    /\ request = n \/ (request = Omitted /\ n = DefaultStore(env))

(* The request of caller c may resolve to store n: itself, or for a caller *)
(* that names none the default or, where that is out of the caller's       *)
(* reach, the first store the identity service answers.                    *)
ResolvesTo(c, request, n) ==
    /\ Recognised(c)
    /\ n \in Entitled(c)
    /\ \/ request = n
       \/ /\ request = Omitted
          /\ DefaultIsStore(env)
          /\ DefaultStore(env) \in Entitled(c) => n = DefaultStore(env)

(* Why a request that resolves to nothing is refused: settings that name   *)
(* no usable registry or default, a caller that may not, or no such store. *)
Refusal(c, request) ==
    IF ~env.readable \/ (Recognised(c) /\ request = Omitted /\ ~DefaultIsStore(env))
    THEN "invalid"
    ELSE IF c \in Strangers \/ request \in Stores(env) THEN "denied" ELSE "unavailable"

(* resolve_store refuses.                                                  *)
Refuse(c, request) ==
    /\ \A n \in Names : ~ResolvesTo(c, request, n)
    /\ last' = [outcome |-> Refusal(c, request), caller |-> c, request |-> request]
    /\ UNCHANGED <<env, grants, cache>>

(* get_backend finds the backend of the store in the cache, or builds it   *)
(* from the store's configuration and puts it there.                       *)
GetBackend(c, request, n) ==
    /\ ResolvesTo(c, request, n)
    /\ LET backend == IF cache[n] = Absent THEN ConfigOf(env, n) ELSE cache[n] IN
         /\ cache' = [cache EXCEPT ![n] = backend]
         /\ last' = [outcome |-> "ok", caller |-> c, request |-> request,
                     store |-> n, backend |-> backend]
    /\ UNCHANGED <<env, grants>>

(* Faulty: the failed build leaves an entry in the cache.                  *)
BuildFailsCached(c, request, n) ==
    /\ ResolvesTo(c, request, n)
    /\ cache[n] = Absent
    /\ cache' = [cache EXCEPT ![n] = "failed"]
    /\ last' = [outcome |-> "not_built", caller |-> c, request |-> request]
    /\ UNCHANGED <<env, grants>>

(* create_backend raises (a secret that does not resolve, an endpoint the  *)
(* egress policy refuses): nothing is cached.                              *)
BuildFails(c, request, n) ==
    /\ ResolvesTo(c, request, n)
    /\ cache[n] = Absent
    /\ last' = [outcome |-> "not_built", caller |-> c, request |-> request]
    /\ UNCHANGED <<env, grants, cache>>

(* The identity service changes what a member is granted.                  *)
Regrant(c, granted) ==
    /\ grants' = [grants EXCEPT ![c] = granted]
    /\ last' = NoCall
    /\ UNCHANGED <<env, cache>>

(* Faulty: a reload does not drop the cache.                               *)
ResetKeepingCache(e) ==
    /\ env' = e
    /\ last' = NoCall
    /\ UNCHANGED <<grants, cache>>

(* reset_backend_cache, alone or with a reload of the environment, and the *)
(* restart of the process.                                                 *)
Reset(e) ==
    /\ env' = e
    /\ cache' = [n \in Names |-> Absent]
    /\ last' = NoCall
    /\ UNCHANGED grants

Init ==
    /\ env \in Environments
    /\ grants \in [Members -> SUBSET Names]
    /\ cache = [n \in Names |-> Absent]
    /\ last = NoCall

Next ==
    \/ \E c \in Callers, request \in Requests :
         \/ Refuse(c, request)
         \/ \E n \in Names : GetBackend(c, request, n) \/ BuildFails(c, request, n)
    \/ \E c \in Members, granted \in SUBSET Names : Regrant(c, granted)
    \/ \E e \in Environments : Reset(e)

Spec == Init /\ [][Next]_vars

(* objectstore_list_stores: the stores it shows to caller c.               *)
Listed(c) == IF Recognised(c) THEN Entitled(c) ELSE {}

-----------------------------------------------------------------------------
(* Every variable has its type.                                            *)
TypeOK ==
    /\ env \in Environments
    /\ grants \in [Members -> SUBSET Names]
    /\ cache \in [Names -> Configs \cup {Absent}]
    /\ last \in {NoCall} \cup Served \cup Refused

(* What the README calls the default, "first configured store, else local" *)
(* unless one is set: told of a store, not computed as the code does.      *)
IsDefault(n) ==
    /\ n \in Stores(env)
    /\ \/ n = env.default
       \/ /\ env.default = Blank
          /\ IF n = Local THEN \A m \in Configured(env) : m = Local
             ELSE \E i \in DOMAIN env.order :
                    env.order[i] = n /\ \A j \in 1..(i - 1) : env.order[j] = Local

(* A backend handed out is that of a store list_stores shows the caller,   *)
(* the one asked for, or for no store the default unless that is out of    *)
(* the caller's reach, and is configured as the environment has it now:    *)
(* whoever had it built, whatever was granted then (auth.py get_backend).  *)
HandsOutOwn == last.outcome = "ok" =>
    /\ last.store \in Listed(last.caller)
    /\ last.request = Omitted => \E n \in Names :
         IsDefault(n) /\ (n \in Listed(last.caller) => last.store = n)
    /\ last.request # Omitted => last.store = last.request
    /\ last.backend = IF last.store \in Configured(env) THEN env.config[last.store]
                                                         ELSE env.root

(* A caller is refused a store only if list_stores does not show it, and a *)
(* call that names none only if it shows nothing or no store is the        *)
(* default (auth.py resolve_store against objectstore_list_stores).        *)
RefusesOnlyUnlisted == last.outcome \in {"invalid", "denied", "unavailable"} =>
    /\ last.request # Omitted => last.request \notin Listed(last.caller)
    /\ last.request = Omitted =>
         Listed(last.caller) = {} \/ \A n \in Names : ~IsDefault(n)

(* The inductive invariant: the cache holds only what the environment says. *)
CacheCurrent == \A n \in Names : cache[n] # Absent =>
    n \in Stores(env) /\ cache[n] = ConfigOf(env, n)

IInv == TypeOK /\ CacheCurrent /\ HandsOutOwn /\ RefusesOnlyUnlisted

(* Nobody can tell that there is a cache: each call is answered as one     *)
(* that builds its backend from the settings of the moment (auth.py        *)
(* get_backend with _BACKEND_CACHE and reset_backend_cache).               *)
Uncached == INSTANCE UncachedStores WITH
    shown <- [c \in Callers |-> Listed(c)],
    config <- [n \in Names |-> ConfigOf(env, n)],
    default <- IF DefaultIsStore(env) THEN DefaultStore(env) ELSE Blank,
    NoDefault <- Blank

UncachedSpec == Uncached!Spec

=============================================================================
