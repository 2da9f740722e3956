------------------------ MODULE StoreRegistryProofs ------------------------
(* Theorems about StoreRegistry, for every registry, caller and grant.     *)
EXTENDS StoreRegistry, WellFoundedInduction, TLAPS

(* The default of a readable environment is a name.                        *)
LEMMA EnvironmentType == \A e \in Environments : e \in Environment
  BY StoresAssumption

LEMMA StoresType == \A e \in Environments :
    Stores(e) \subseteq Names /\ \A n \in Names : ConfigOf(e, n) \in Configs
  <1> SUFFICES ASSUME NEW e \in Environments
               PROVE  Stores(e) \subseteq Names /\ \A n \in Names : ConfigOf(e, n) \in Configs
    OBVIOUS
  <1>1. e \in Environment
    BY EnvironmentType
  <1>2. e.order \in Seq(Names) /\ e.config \in [Names -> Configs] /\ e.root \in Configs
    BY <1>1 DEF Environment
  <1>3. \A i \in DOMAIN e.order : e.order[i] \in Names
    BY <1>2
  <1> QED
    BY <1>2, <1>3, StoresAssumption DEF Stores, Configured, ConfigOf

(* The computed default is the store that the README calls so.             *)
LEMMA FirstStoreIsFirst ==
    ASSUME NEW e \in Environment, ~(Configured(e) \subseteq {Local})
    PROVE  \E i \in DOMAIN e.order :
             /\ FirstStore(e) = e.order[i] /\ e.order[i] # Local
             /\ \A j \in 1..(i - 1) : e.order[j] = Local
  <1> DEFINE Others == {i \in DOMAIN e.order : e.order[i] # Local}
  <1> DEFINE Less == OpToRel(<, Nat)
  <1>1. e.order \in Seq(Names)
    BY DEF Environment
  <1>2. DOMAIN e.order = 1..Len(e.order) /\ Len(e.order) \in Nat
    BY <1>1
  <1>3. Others \subseteq Nat /\ Others # {}
    BY <1>2 DEF Configured
  <1>4. \A j, k \in Nat : j < k => <<j, k>> \in Less
    BY DEF OpToRel
  <1>5. IsWellFoundedOn(Less, Nat)
    BY NatLessThanWellFounded
  <1> HIDE DEF Less
  <1>6. PICK i \in Others : \A j \in Others : <<j, i>> \notin Less
    <2> HIDE DEF Others
    <2> QED BY <1>3, <1>5, WFMin
  <1>7. \A j \in 1..(i - 1) : j \in DOMAIN e.order /\ <<j, i>> \in Less
    BY <1>2, <1>4
  <1>8. \A j \in 1..(i - 1) : e.order[j] = Local
    BY <1>6, <1>7
  <1>9. \E k \in DOMAIN e.order : e.order[k] # Local /\ \A j \in 1..(k - 1) : e.order[j] = Local
    BY <1>6, <1>8
  <1> QED BY <1>9 DEF FirstStore

LEMMA DefaultIsDefault ==
    ASSUME env \in Environments, NEW n \in Names
    PROVE  IsDefault(n) <=> DefaultIsStore(env) /\ n = DefaultStore(env)
  <1>1. env \in Environment /\ env.order \in Seq(Names)
    BY EnvironmentType DEF Environment
  <1>2. CASE env.default # Blank
    BY <1>2 DEF IsDefault, DefaultIsStore, DefaultStore
  <1>3. CASE env.default = Blank /\ Configured(env) \subseteq {Local}
    BY <1>3, StoresAssumption
       DEF IsDefault, DefaultIsStore, DefaultStore, FirstStore, Stores, Configured
  <1>4. CASE env.default = Blank /\ ~(Configured(env) \subseteq {Local})
    <2>1. PICK i \in DOMAIN env.order :
            /\ FirstStore(env) = env.order[i] /\ env.order[i] # Local
            /\ \A j \in 1..(i - 1) : env.order[j] = Local
      BY <1>1, <1>4, FirstStoreIsFirst
    <2>2. DefaultStore(env) = env.order[i] /\ DefaultIsStore(env)
      BY <1>4, <2>1 DEF DefaultStore, DefaultIsStore, Stores, Configured
    <2>3. \A k \in DOMAIN env.order :
            env.order[k] # Local /\ (\A j \in 1..(k - 1) : env.order[j] = Local) => k = i
      <3>1. \A k \in DOMAIN env.order : k \in Nat /\ (k < i => k \in 1..(i - 1))
                                        /\ (i < k => i \in 1..(k - 1))
        BY <1>1
      <3> QED BY <1>1, <2>1, <3>1
    <2>4. IsDefault(n) <=>
            n # Local /\ \E k \in DOMAIN env.order :
              env.order[k] = n /\ \A j \in 1..(k - 1) : env.order[j] = Local
      BY <1>4, StoresAssumption DEF IsDefault, Stores, Configured
    <2> QED BY <2>1, <2>2, <2>3, <2>4
  <1> QED BY <1>2, <1>3, <1>4

(* What a request resolves to is a store that list_stores shows.           *)
LEMMA ResolvesToListed ==
    ASSUME NEW c \in Callers, NEW request \in Requests, NEW n \in Names,
           ResolvesTo(c, request, n)
    PROVE  /\ n \in Listed(c) /\ n \in Stores(env)
           /\ request = Omitted =>
                n = DefaultStore(env) \/ DefaultStore(env) \notin Listed(c)
           /\ request # Omitted => n = request
  BY StoresAssumption DEF ResolvesTo, Listed, Entitled, Requests

(* A listed store resolves, and so does no store if any is listed.         *)
LEMMA ListedResolves ==
    ASSUME NEW c \in Callers, NEW n \in Listed(c)
    PROVE  /\ ResolvesTo(c, n, n)
           /\ DefaultIsStore(env) =>
                \E m \in Listed(c) : ResolvesTo(c, Omitted, m)
  <1>1. Recognised(c) /\ n \in Entitled(c)
    BY DEF Listed
  <1>2. ResolvesTo(c, n, n)
    BY <1>1 DEF ResolvesTo
  <1>3. ASSUME DefaultIsStore(env) PROVE \E m \in Listed(c) : ResolvesTo(c, Omitted, m)
    <2>1. CASE DefaultStore(env) \in Entitled(c)
      <3>1. ResolvesTo(c, Omitted, DefaultStore(env)) /\ DefaultStore(env) \in Listed(c)
        BY <1>1, <1>3, <2>1 DEF ResolvesTo, Listed
      <3> QED
        BY <3>1
    <2>2. CASE DefaultStore(env) \notin Entitled(c)
      BY <1>1, <1>3, <2>2 DEF ResolvesTo
    <2> QED
      BY <2>1, <2>2
  <1> QED
    BY <1>2, <1>3

LEMMA ListedAreNames ==
    ASSUME env \in Environments, NEW c \in Callers
    PROVE  Listed(c) \subseteq Names
  BY StoresType DEF Listed, Entitled

LEMMA InitInv == Init => IInv
  BY DEF Init, IInv, TypeOK, CacheCurrent, HandsOutOwn, RefusesOnlyUnlisted, NoCall

LEMMA RefuseKeepsInv ==
    ASSUME IInv, NEW c \in Callers, NEW request \in Requests, Refuse(c, request)
    PROVE  IInv'
  <1>1. UNCHANGED <<env, grants, cache>>
    BY DEF Refuse
  <1>2. /\ last' = [outcome |-> Refusal(c, request), caller |-> c, request |-> request]
        /\ Refusal(c, request) \in {"invalid", "denied", "unavailable"}
    BY DEF Refuse, Refusal
  <1>3. TypeOK'
    BY <1>1, <1>2 DEF IInv, TypeOK, Refused
  <1>4. CacheCurrent'
    BY <1>1 DEF IInv, CacheCurrent
  <1>5. HandsOutOwn'
    BY <1>2 DEF HandsOutOwn
  <1>6. Listed(c) \subseteq Names
    BY ListedAreNames DEF IInv, TypeOK
  <1>7. Listed(c)' = Listed(c) /\ \A m \in Names : IsDefault(m)' = IsDefault(m)
    BY <1>1 DEF Listed, Recognised, Entitled, IsDefault
  <1>8. RefusesOnlyUnlisted'
    <2>1. ASSUME request \in Listed(c) PROVE FALSE
      BY <1>6, <2>1, ListedResolves DEF Refuse
    <2>2. ASSUME request = Omitted, NEW m \in Names, IsDefault(m), NEW n \in Listed(c)
          PROVE  FALSE
      <3>1. DefaultIsStore(env)
        BY <2>2, DefaultIsDefault DEF IInv, TypeOK
      <3> QED BY <1>6, <2>2, <3>1, ListedResolves DEF Refuse
    <2> QED
      BY <1>2, <1>7, <2>1, <2>2 DEF RefusesOnlyUnlisted
  <1> QED
    BY <1>3, <1>4, <1>5, <1>8 DEF IInv

LEMMA GetBackendKeepsInv ==
    ASSUME IInv, NEW c \in Callers, NEW request \in Requests, NEW n \in Names,
           GetBackend(c, request, n)
    PROVE  IInv'
  <1> DEFINE backend == IF cache[n] = Absent THEN ConfigOf(env, n) ELSE cache[n]
  <1>1. /\ ResolvesTo(c, request, n)
        /\ UNCHANGED <<env, grants>>
        /\ cache' = [cache EXCEPT ![n] = backend]
        /\ last' = [outcome |-> "ok", caller |-> c, request |-> request,
                    store |-> n, backend |-> backend]
    BY DEF GetBackend
  <1>2. backend = ConfigOf(env, n) /\ backend \in Configs
    BY StoresType DEF IInv, TypeOK, CacheCurrent
  <1>3. TypeOK'
    BY <1>1, <1>2 DEF IInv, TypeOK, Served
  <1>4. CacheCurrent'
    BY <1>1, <1>2, ResolvesToListed DEF IInv, TypeOK, CacheCurrent
  <1>5. Listed(c)' = Listed(c)
    BY <1>1 DEF Listed, Recognised, Entitled
  <1>6. HandsOutOwn'
    <2>1. n \in Listed(c) /\ (request # Omitted => n = request)
      BY <1>1, ResolvesToListed
    <2>2. request = Omitted => \E m \in Names : IsDefault(m) /\ (m \in Listed(c) => n = m)
      <3> SUFFICES ASSUME request = Omitted
                   PROVE  \E m \in Names : IsDefault(m) /\ (m \in Listed(c) => n = m)
        OBVIOUS
      <3>1. DefaultIsStore(env) /\ DefaultStore(env) \in Names
        BY <1>1, StoresType, StoresAssumption DEF ResolvesTo, DefaultIsStore, IInv, TypeOK
      <3>2. IsDefault(DefaultStore(env))
        BY <3>1, DefaultIsDefault DEF IInv, TypeOK
      <3> QED BY <1>1, <3>1, <3>2, ResolvesToListed
    <2>3. \A m \in Names : IsDefault(m)' = IsDefault(m)
      BY <1>1 DEF IsDefault
    <2> QED BY <1>1, <1>2, <1>5, <2>1, <2>2, <2>3 DEF HandsOutOwn, ConfigOf
  <1>7. RefusesOnlyUnlisted'
    BY <1>1 DEF RefusesOnlyUnlisted
  <1> QED
    BY <1>3, <1>4, <1>6, <1>7 DEF IInv

LEMMA NextInv == IInv /\ [Next]_vars => IInv'
  <1> SUFFICES ASSUME IInv, [Next]_vars PROVE IInv'
    OBVIOUS
  <1>1. ASSUME NEW c \in Callers, NEW request \in Requests, NEW n \in Names,
               BuildFails(c, request, n)
        PROVE  IInv'
    <2>1. /\ UNCHANGED <<env, grants, cache>>
          /\ last' = [outcome |-> "not_built", caller |-> c, request |-> request]
      BY <1>1 DEF BuildFails
    <2>2. TypeOK'
      BY <2>1 DEF IInv, TypeOK, Refused
    <2> QED
      BY <2>1, <2>2 DEF IInv, CacheCurrent, HandsOutOwn, RefusesOnlyUnlisted
  <1>2. ASSUME NEW c \in Members, NEW granted \in SUBSET Names, Regrant(c, granted)
        PROVE  IInv'
    BY <1>2 DEF Regrant, IInv, TypeOK, CacheCurrent, HandsOutOwn, RefusesOnlyUnlisted, NoCall
  <1>3. ASSUME NEW e \in Environments, Reset(e) PROVE IInv'
    BY <1>3 DEF Reset, IInv, TypeOK, CacheCurrent, HandsOutOwn, RefusesOnlyUnlisted, NoCall
  <1>4. CASE UNCHANGED vars
    <2>1. UNCHANGED <<env, grants, cache, last>>
      BY <1>4 DEF vars
    <2>2. TypeOK' /\ CacheCurrent'
      BY <2>1 DEF IInv, TypeOK, CacheCurrent
    <2>3. HandsOutOwn' /\ RefusesOnlyUnlisted'
      BY <2>1
         DEF IInv, HandsOutOwn, RefusesOnlyUnlisted, Listed, Recognised, Entitled, IsDefault
    <2> QED
      BY <2>2, <2>3 DEF IInv
  <1> QED
    BY <1>1, <1>2, <1>3, <1>4, RefuseKeepsInv, GetBackendKeepsInv DEF Next

(* The cache, the grants and the answers agree in every reachable state.   *)
THEOREM RegistryInvariance == Spec => []IInv
  BY InitInv, NextInv, PTL DEF Spec

(* Every variable of the registry keeps its type.                          *)
THEOREM RegistryTypeCorrect == Spec => []TypeOK
  BY RegistryInvariance, PTL DEF IInv

(* get_backend hands a caller only the backend of a store it may reach,    *)
(* configured as the environment has it.                                   *)
THEOREM BackendsAreOwn == Spec => []HandsOutOwn
  BY RegistryInvariance, PTL DEF IInv

(* resolve_store refuses nothing that list_stores shows.                   *)
THEOREM RefusalsAreUnlisted == Spec => []RefusesOnlyUnlisted
  BY RegistryInvariance, PTL DEF IInv

-----------------------------------------------------------------------------
(* StoreRegistry implements UncachedStores.                                *)

UncachedStep == [Uncached!Next]_(Uncached!vars)

(* The refinement mapping.                                                 *)
ShownNow == [c \in Callers |-> Listed(c)]
ConfigNow == [n \in Names |-> ConfigOf(env, n)]
DefaultNow == IF DefaultIsStore(env) THEN DefaultStore(env) ELSE Blank

(* A dangling default is a name none the less, but not a usable one.       *)
LEMMA SettingsAreTyped == TypeOK => Uncached!Settings
  <1> SUFFICES ASSUME TypeOK PROVE Uncached!Settings
    OBVIOUS
  <1>1. \A c \in Callers : Listed(c) \subseteq Names
    BY ListedAreNames DEF TypeOK
  <1>2. \A n \in Names : ConfigOf(env, n) \in Configs
    BY StoresType DEF TypeOK
  <1>3. DefaultIsStore(env) => DefaultStore(env) \in Names
    BY StoresType DEF TypeOK, DefaultIsStore
  <1> QED
    BY <1>1, <1>2, <1>3 DEF Uncached!Settings

(* While the environment and the grants stay, so does what is promised.    *)
LEMMA SamePromise ==
    ASSUME UNCHANGED <<env, grants>>
    PROVE  ShownNow' = ShownNow /\ ConfigNow' = ConfigNow /\ DefaultNow' = DefaultNow
  BY DEF ShownNow, ConfigNow, DefaultNow, Listed, Recognised, Entitled

(* A request resolves to the stores that fit it.                           *)
LEMMA FittingResolve ==
    ASSUME TypeOK, NEW c \in Callers, NEW request \in Requests, NEW n \in Names
    PROVE  ResolvesTo(c, request, n) <=> Uncached!Fits(c, request, n)
  <1>1. n \in Listed(c) <=> Recognised(c) /\ n \in Entitled(c)
    BY DEF Listed
  <1>2. DefaultNow # Blank <=> DefaultIsStore(env)
    BY StoresType, StoresAssumption DEF TypeOK, DefaultNow, DefaultIsStore
  <1>3. Recognised(c) /\ DefaultIsStore(env) =>
          (DefaultNow \in Listed(c) <=> DefaultStore(env) \in Entitled(c))
    BY DEF Listed, DefaultNow
  <1>4. DefaultIsStore(env) => DefaultNow = DefaultStore(env)
    BY DEF DefaultNow
  <1>5. Uncached!Fits(c, request, n) <=>
          /\ n \in Listed(c)
          /\ \/ request = n
             \/ /\ request = Omitted
                /\ DefaultNow # Blank
                /\ DefaultNow \in Listed(c) => n = DefaultNow
    BY DEF Uncached!Fits, DefaultNow
  <1> QED
    BY <1>1, <1>2, <1>3, <1>4, <1>5 DEF ResolvesTo

LEMMA RefuseIsPromised ==
    ASSUME IInv, NEW c \in Callers, NEW request \in Requests, Refuse(c, request)
    PROVE  UncachedStep
  <1>1. \A n \in Names : ~Uncached!Fits(c, request, n)
    BY FittingResolve DEF IInv, Refuse
  <1>2. Refusal(c, request) \in {"invalid", "denied", "unavailable"}
    BY DEF Refusal
  <1>3. Uncached!Refuse(c, request)
    BY <1>1, <1>2, SamePromise
       DEF Refuse, Uncached!Refuse, ShownNow, ConfigNow, DefaultNow
  <1> QED
    BY <1>3 DEF UncachedStep, Uncached!Next, Requests

LEMMA GetBackendIsPromised ==
    ASSUME IInv, NEW c \in Callers, NEW request \in Requests, NEW n \in Names,
           GetBackend(c, request, n)
    PROVE  UncachedStep
  <1>1. Uncached!Fits(c, request, n)
    BY FittingResolve DEF IInv, GetBackend
  <1>2. last' = [outcome |-> "ok", caller |-> c, request |-> request,
                 store |-> n, backend |-> ConfigOf(env, n)]
    BY DEF IInv, CacheCurrent, GetBackend
  <1>3. Uncached!Serve(c, request, n)
    BY <1>1, <1>2, SamePromise
       DEF GetBackend, Uncached!Serve, ShownNow, ConfigNow, DefaultNow
  <1> QED
    BY <1>3 DEF UncachedStep, Uncached!Next, Requests

LEMMA BuildFailsIsPromised ==
    ASSUME IInv, NEW c \in Callers, NEW request \in Requests, NEW n \in Names,
           BuildFails(c, request, n)
    PROVE  UncachedStep
  <1>1. Uncached!Fits(c, request, n)
    BY FittingResolve DEF IInv, BuildFails
  <1>2. Uncached!Fail(c, request)
    BY <1>1, SamePromise
       DEF BuildFails, Uncached!Fail, ShownNow, ConfigNow, DefaultNow
  <1> QED
    BY <1>2 DEF UncachedStep, Uncached!Next, Requests

(* A grant changes what its member is shown, and only that.                *)
LEMMA RegrantIsPromised ==
    ASSUME IInv, IInv', NEW c \in Members, NEW granted \in SUBSET Names, Regrant(c, granted)
    PROVE  UncachedStep
  <1>1. env' = env /\ grants' = [grants EXCEPT ![c] = granted] /\ last' = NoCall
    BY DEF Regrant
  <1>2. \A d \in Callers : d # c => Listed(d)' = Listed(d)
    <2> SUFFICES ASSUME NEW d \in Callers, d # c PROVE Listed(d)' = Listed(d)
      OBVIOUS
    <2>1. CASE d \in Members
      BY <1>1, <2>1 DEF IInv, TypeOK, Listed, Recognised, Entitled
    <2>2. CASE d \in Unbound \cup Strangers
      BY <1>1, <2>2 DEF Listed, Recognised, Entitled
    <2> QED
      BY <2>1, <2>2 DEF Members
  <1>3. c \in Callers /\ Listed(c)' \in SUBSET Names
    BY <1>1, ListedAreNames, StoresType DEF IInv, TypeOK, Members, Listed, Entitled
  <1>4. ShownNow' = [ShownNow EXCEPT ![c] = Listed(c)']
    BY <1>2, <1>3 DEF ShownNow
  <1>5. ConfigNow' = ConfigNow /\ DefaultNow' = DefaultNow
    BY <1>1 DEF ConfigNow, DefaultNow
  <1>6. Uncached!Regrant(c)
    BY <1>1, <1>3, <1>4, <1>5 DEF Uncached!Regrant, ShownNow, ConfigNow, DefaultNow
  <1> QED
    BY <1>3, <1>6 DEF UncachedStep, Uncached!Next

LEMMA ResetIsPromised ==
    ASSUME IInv', NEW e \in Environments, Reset(e)
    PROVE  UncachedStep
  <1>1. TypeOK'
    BY DEF IInv
  <1>2. Uncached!Settings'
    BY <1>1, SettingsAreTyped, PTL
  <1>3. Uncached!Reconfigure
    BY <1>2 DEF Reset, Uncached!Reconfigure
  <1> QED
    BY <1>3 DEF UncachedStep, Uncached!Next

LEMMA NextIsPromised == IInv /\ [Next]_vars => UncachedStep
  <1> SUFFICES ASSUME IInv, [Next]_vars PROVE UncachedStep
    OBVIOUS
  <1>0. IInv'
    BY NextInv
  <1>1. CASE UNCHANGED vars
    BY <1>1, SamePromise
       DEF vars, UncachedStep, Uncached!vars, ShownNow, ConfigNow, DefaultNow
  <1>2. ASSUME NEW c \in Members, NEW granted \in SUBSET Names, Regrant(c, granted)
        PROVE  UncachedStep
    BY <1>0, <1>2, RegrantIsPromised
  <1>3. ASSUME NEW e \in Environments, Reset(e) PROVE UncachedStep
    BY <1>0, <1>3, ResetIsPromised
  <1> QED
    BY <1>1, <1>2, <1>3, RefuseIsPromised, GetBackendIsPromised, BuildFailsIsPromised
       DEF Next

(* The cache is invisible: whoever had a backend built, and whatever has   *)
(* been granted, reloaded or refused since, each call is answered as one   *)
(* that builds its backend from the settings of the moment (auth.py        *)
(* get_backend and reset_backend_cache).                                   *)
THEOREM ImplementsUncachedStores == Spec => UncachedSpec
  <1>1. Uncached!Spec <=> Uncached!Init /\ [][Uncached!Next]_(Uncached!vars)
    BY DEF Uncached!Spec
  <1>2. Init => Uncached!Init
    BY InitInv, SettingsAreTyped DEF Init, IInv, Uncached!Init
  <1>3. IInv /\ [Next]_vars => [Uncached!Next]_(Uncached!vars)
    BY NextIsPromised DEF UncachedStep
  <1> QED
    BY <1>1, <1>2, <1>3, RegistryInvariance, PTL DEF Spec, UncachedSpec

=============================================================================
