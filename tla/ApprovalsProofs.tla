-------------------------- MODULE ApprovalsProofs --------------------------
(* The proofs about Approvals, on top of those about its registry.         *)
EXTENDS Approvals, StoreRegistryProofs, FiniteSetTheorems, TLAPS

(* Sets of keys are finite, and a key removed or added counts as one.      *)
LEMMA KeySets ==
    /\ \A S \in SUBSET Keys : IsFiniteSet(S) /\ Cardinality(S) \in Nat
    /\ \A S, T \in SUBSET Keys : S \subseteq T => Cardinality(S) <= Cardinality(T)
    /\ \A S \in SUBSET Keys : \A k \in S : Cardinality(S \ {k}) = Cardinality(S) - 1
    /\ \A S \in SUBSET Keys : \A k \in Keys \ S : Cardinality(S \cup {k}) = Cardinality(S) + 1
<1>1. \A S \in SUBSET Keys : IsFiniteSet(S) /\ Cardinality(S) \in Nat
  BY ApprovalsAssumption, FS_Subset, FS_CardinalityType
<1>2. ASSUME NEW S \in SUBSET Keys, NEW T \in SUBSET Keys, S \subseteq T
      PROVE  Cardinality(S) <= Cardinality(T)
  BY <1>1, <1>2, FS_Subset
<1>3. \A S \in SUBSET Keys : \A k \in S : Cardinality(S \ {k}) = Cardinality(S) - 1
  BY <1>1, FS_RemoveElement
<1>4. \A S \in SUBSET Keys : \A k \in Keys \ S : Cardinality(S \cup {k}) = Cardinality(S) + 1
  BY <1>1, FS_AddElement
<1> QED BY <1>1, <1>2, <1>3, <1>4

(* A page is no longer than the cap, and what it leaves comes after it.    *)
LEMMA PageOfListing ==
    ASSUME NEW S \in SUBSET Keys, NEW page \in SUBSET Keys, IsPage(page, S)
    PROVE  /\ page \subseteq S /\ Cardinality(page) <= BatchCap
           /\ page # S => Cardinality(page) = BatchCap
           /\ \A k \in S \ page, j \in page : j < k
<1>1. /\ page \subseteq S
      /\ \A k \in page, j \in S : j < k => j \in page
      /\ IF Cardinality(page) < BatchCap THEN page = S ELSE Cardinality(page) = BatchCap
  BY DEF IsPage
<1>2. Cardinality(page) \in Nat /\ BatchCap \in Nat
  BY KeySets, ApprovalsAssumption
<1>3. ASSUME NEW k \in S \ page, NEW j \in page PROVE j < k
  <2>1. k \in Nat /\ j \in Nat /\ k # j /\ ~(k < j)
    BY <1>1, ApprovalsAssumption
  <2> QED BY <2>1
<1> QED BY <1>1, <1>2, <1>3

(* What is listed again and was neither shown nor written since is no more *)
(* than what has gone of what was shown.                                   *)
LEMMA ListedAgain ==
    ASSUME NEW s \in Shown, NEW S \in SUBSET Keys, Shows(s, S),
           NEW page \in SUBSET Keys, IsPage(page, S)
    PROVE  Cardinality(page \ (s.shown \cup s.written)) <= Cardinality(s.shown \ S)
<1> DEFINE new == page \ (s.shown \cup s.written)
<1> DEFINE kept == s.shown \cap S
<1> DEFINE gone == s.shown \ S
<1>1. /\ s.shown \in SUBSET Keys /\ new \in SUBSET Keys
      /\ kept \in SUBSET Keys /\ gone \in SUBSET Keys
  BY DEF Shown, Batches
<1>2. /\ IsFiniteSet(s.shown) /\ IsFiniteSet(new) /\ IsFiniteSet(kept)
      /\ Cardinality(s.shown) \in Nat /\ Cardinality(new) \in Nat
      /\ Cardinality(kept) \in Nat /\ Cardinality(gone) \in Nat
      /\ Cardinality(page) \in Nat /\ BatchCap \in Nat
  <2> HIDE DEF new, kept, gone
  <2>1. BatchCap \in Nat
    BY ApprovalsAssumption
  <2> QED BY <1>1, <2>1, KeySets
<1>3. CASE new = {}
  BY <1>2, <1>3, FS_EmptySet
<1>4. CASE new # {}
  <2>1. PICK k \in new : TRUE
    BY <1>4
  <2>2. page \subseteq S /\ Cardinality(page) <= BatchCap
        /\ \A i \in page, j \in S : j < i => j \in page
    BY PageOfListing DEF IsPage
  <2>3. Cardinality(s.shown) = BatchCap /\ \A j \in s.shown : j < k
    BY <2>1, <2>2 DEF Shows
  <2>4. new \cup kept \subseteq page /\ new \cap kept = {} /\ new \cup kept \in SUBSET Keys
    BY <1>1, <2>1, <2>2, <2>3
  <2>5. Cardinality(new \cup kept) = Cardinality(new) + Cardinality(kept)
    <3> HIDE DEF new, kept
    <3>1. Cardinality(new \cup kept) = Cardinality(new) + Cardinality(kept) - Cardinality(new \cap kept)
      BY <1>2, FS_Union
    <3>2. Cardinality(new \cap kept) = 0
      BY <2>4, FS_EmptySet
    <3> QED BY <1>2, <3>1, <3>2
  <2>6. Cardinality(new \cup kept) <= Cardinality(page)
    BY <2>4, KeySets
  <2>7. Cardinality(gone) = Cardinality(s.shown) - Cardinality(kept)
    BY <1>2, FS_Difference
  <2> HIDE DEF new, kept, gone
  <2>8. Cardinality(new) <= Cardinality(gone)
    BY <1>2, <2>2, <2>3, <2>5, <2>6, <2>7
  <2> QED BY <2>8 DEF new, gone
<1> QED BY <1>3, <1>4

(* The registry's part of a step.                                          *)
LEMMA RegistryStep ==
    ASSUME ApprovalTypeOK, [ApprovalNext]_<<vars, delvars>>
    PROVE  [Next]_vars
<1>1. ASSUME NEW c \in Callers, NEW n \in Names, Rerun(c, n) PROVE Next
  <2>1. seen[c].request \in Requests /\ GetBackend(c, seen[c].request, n)
    BY <1>1 DEF Rerun, ApprovalTypeOK, Shown
  <2> QED BY <2>1 DEF Next
<1>2. ASSUME NEW c \in Callers, NEW n \in Names, NEW request \in Requests,
             Preview(c, request, n)
      PROVE  Next
  BY <1>2 DEF Preview, Next
<1>3. ASSUME NEW c \in Members, NEW granted \in SUBSET Names, GrantsChange(c, granted)
      PROVE  Next
  BY <1>3 DEF GrantsChange, Next
<1>4. ASSUME NEW e \in Environments, SettingsChange(e) PROVE Next
  BY <1>4 DEF SettingsChange, Next
<1> QED BY <1>1, <1>2, <1>3, <1>4
        DEF ApprovalNext, RemoveNext, RemoveFails, OthersWrite, OthersRemove, vars

LEMMA RegistryKept == AInv /\ [ApprovalNext]_<<vars, delvars>> => IInv'
BY RegistryStep, NextInv DEF AInv

(* The backend a call gets is that of a store in the caller's reach.       *)
LEMMA BackendInReach ==
    ASSUME AInv, NEW c \in Callers, NEW request \in Requests, NEW n \in Names,
           GetBackend(c, request, n)
    PROVE  /\ last'.backend = ConfigOf(env, n) /\ last'.backend \in Configs
           /\ last'.backend \in Reach(c)
           /\ UNCHANGED <<env, grants>>
           /\ request # Omitted => n = request
           /\ request = Omitted /\ DefaultStore(env) \in Entitled(c) => n = DefaultStore(env)
<1>1. n \in Listed(c) /\ ResolvesTo(c, request, n)
  BY ResolvesToListed DEF GetBackend
<1>2. last'.backend = ConfigOf(env, n)
  BY DEF GetBackend, AInv, IInv, CacheCurrent
<1>3. ConfigOf(env, n) \in Configs
  BY StoresType DEF AInv, IInv, TypeOK
<1>4. Omitted \notin Names
  BY StoresAssumption
<1> QED BY <1>1, <1>2, <1>3, <1>4 DEF Reach, GetBackend, ResolvesTo

-----------------------------------------------------------------------------
(* A registry that stays as it is keeps every reach.                       *)
LEMMA ReachKept ==
    ASSUME UNCHANGED <<env, grants>>
    PROVE  \A c \in Callers : Reach(c)' = Reach(c)
  BY DEF Reach, Listed, Recognised, Entitled

(* A step that changes no dry run and no store.                            *)
LEMMA ApprovedKept ==
    ASSUME Approved, UNCHANGED objects,
           \A c \in Callers : seen'[c] # Nothing => seen'[c] = seen[c]
    PROVE  Approved'
  BY DEF Approved, Shows

(* What a dry run shows stays true of a store that loses keys, and of one  *)
(* that gets a key the dry run is told of.                                 *)
LEMMA ShownStays ==
    ASSUME NEW s \in Shown, NEW S \in SUBSET Keys, Shows(s, S), NEW k \in Keys
    PROVE  /\ Shows(s, S \ {k})
           /\ [s EXCEPT !.written = @ \cup {k}] \in Shown
           /\ Shows([s EXCEPT !.written = @ \cup {k}], S \cup {k})
<1> DEFINE w == [s EXCEPT !.written = @ \cup {k}]
<1>1. w \in Shown /\ w.shown = s.shown /\ w.written = s.written \cup {k}
  <2>1. s.written \cup {k} \in SUBSET Keys
    BY DEF Shown
  <2> QED BY <2>1 DEF Shown
<1> HIDE DEF w
<1>2. Shows(s, S \ {k}) /\ Shows(w, S \cup {k})
  BY <1>1 DEF Shows
<1> QED BY <1>1, <1>2 DEF w

(* A key is removed from a store.                                          *)
LEMMA ApprovedWithout ==
    ASSUME AInv, NEW store \in Configs, NEW k \in Keys, UNCHANGED seen,
           objects' = [objects EXCEPT ![store] = @ \ {k}]
    PROVE  Approved' /\ objects' \in [Configs -> SUBSET Keys]
<1>1. objects \in [Configs -> SUBSET Keys] /\ seen \in [Callers -> Shown \cup {Nothing}]
  BY DEF AInv, ApprovalTypeOK
<1>2. ASSUME NEW c \in Callers, seen[c] # Nothing
      PROVE  Shows(seen[c], objects'[seen[c].store])
  <2>1. seen[c] \in Shown /\ seen[c].store \in Configs
    BY <1>1, <1>2 DEF Shown
  <2>2. objects[seen[c].store] \in SUBSET Keys /\ Shows(seen[c], objects[seen[c].store])
    BY <1>1, <1>2, <2>1 DEF AInv, Approved
  <2>3. \/ objects'[seen[c].store] = objects[seen[c].store]
        \/ objects'[seen[c].store] = objects[seen[c].store] \ {k}
    BY <1>1, <2>1
  <2> QED BY <2>1, <2>2, <2>3, ShownStays
<1> QED BY <1>1, <1>2 DEF Approved, Shows

(* A key is written to a store, and its dry runs are told.                 *)
LEMMA ApprovedWith ==
    ASSUME AInv, NEW store \in Configs, NEW k \in Keys, seen' = Written(store, k),
           objects' = [objects EXCEPT ![store] = @ \cup {k}]
    PROVE  /\ Approved' /\ objects' \in [Configs -> SUBSET Keys]
           /\ seen' \in [Callers -> Shown \cup {Nothing}]
<1>1. objects \in [Configs -> SUBSET Keys] /\ seen \in [Callers -> Shown \cup {Nothing}]
  BY DEF AInv, ApprovalTypeOK
<1>2. ASSUME NEW c \in Callers, seen[c] # Nothing
      PROVE  seen'[c] \in Shown /\ Shows(seen'[c], objects'[seen'[c].store])
  <2>1. seen[c] \in Shown /\ seen[c].store \in Configs
    BY <1>1, <1>2 DEF Shown
  <2>2. objects[seen[c].store] \in SUBSET Keys /\ Shows(seen[c], objects[seen[c].store])
    BY <1>1, <1>2, <2>1 DEF AInv, Approved
  <2>3. CASE seen[c].store # store
    BY <1>1, <1>2, <2>1, <2>2, <2>3 DEF Written
  <2>4. CASE seen[c].store = store
    <3>1. /\ seen'[c] = [seen[c] EXCEPT !.written = @ \cup {k}]
          /\ objects'[store] = objects[store] \cup {k}
      BY <1>1, <1>2, <2>4 DEF Written
    <3>2. seen'[c].store = store
      BY <2>1, <2>4, <3>1 DEF Shown
    <3>3. /\ [seen[c] EXCEPT !.written = @ \cup {k}] \in Shown
          /\ Shows([seen[c] EXCEPT !.written = @ \cup {k}], objects[store] \cup {k})
      BY <2>1, <2>2, <2>4, ShownStays
    <3> QED BY <3>1, <3>2, <3>3
  <2> QED BY <2>3, <2>4
<1>3. \A c \in Callers : seen[c] = Nothing => seen'[c] = Nothing
  BY DEF Written
<1>4. seen' \in [Callers -> Shown \cup {Nothing}]
  <2>1. \A c \in Callers : seen'[c] \in Shown \cup {Nothing}
    BY <1>2, <1>3
  <2>2. seen' = [c \in Callers |-> seen'[c]]
    BY DEF Written
  <2> QED BY <2>1, <2>2
<1>5. Approved'
  BY <1>2, <1>3 DEF Approved, Shows
<1> QED BY <1>1, <1>4, <1>5

-----------------------------------------------------------------------------
(* The invariant holds at first, and every step keeps it.                  *)
LEMMA ApprovalInitInv == ApprovalInit => AInv
<1> SUFFICES ASSUME ApprovalInit PROVE AInv
  OBVIOUS
<1>1. IInv
  BY InitInv DEF ApprovalInit
<1>2. BatchCap \in Nat /\ 0 <= BatchCap
  BY ApprovalsAssumption
<1> QED BY <1>1, <1>2 DEF ApprovalInit, AInv, IInv, ApprovalTypeOK, Rest, Approved,
                          OneAtATime

LEMMA OneAtATimeKept ==
    ASSUME AInv, [ApprovalNext]_<<vars, delvars>>
    PROVE  OneAtATime'
<1>1. /\ run \in [Callers -> Running \cup {Nothing}]
      /\ seen \in [Callers -> Shown \cup {Nothing}]
      /\ \A c \in Callers : seen[c] = Nothing \/ run[c] = Nothing
  BY DEF AInv, ApprovalTypeOK, OneAtATime
<1>2. ASSUME NEW c \in Callers, NEW n \in Names, NEW request \in Requests,
             Preview(c, request, n)
      PROVE  OneAtATime'
  <2>1. run[c] = Nothing /\ run' = run /\ \A d \in Callers : d # c => seen'[d] = seen[d]
    BY <1>1, <1>2 DEF Preview
  <2> QED BY <1>1, <2>1 DEF OneAtATime
<1>3. ASSUME NEW c \in Callers, NEW n \in Names, Rerun(c, n) PROVE OneAtATime'
  <2>1. /\ seen'[c] = Nothing
        /\ \A d \in Callers : d # c => seen'[d] = seen[d] /\ run'[d] = run[d]
    BY <1>1, <1>3 DEF Rerun
  <2> QED BY <1>1, <2>1 DEF OneAtATime
<1>4. ASSUME NEW c \in Callers, RemoveNext(c) PROVE OneAtATime'
  <2>1. /\ seen' = seen /\ run[c] # Nothing
        /\ \A d \in Callers : d # c => run'[d] = run[d]
    BY <1>1, <1>4 DEF RemoveNext
  <2> QED BY <1>1, <2>1 DEF OneAtATime
<1>5. ASSUME NEW c \in Callers, RemoveFails(c) PROVE OneAtATime'
  BY <1>1, <1>5 DEF RemoveFails, OneAtATime
<1>6. ASSUME NEW store \in Configs, NEW k \in Keys,
             OthersWrite(store, k) \/ OthersRemove(store, k)
      PROVE  OneAtATime'
  <2>1. run' = run /\ \A d \in Callers : seen[d] = Nothing => seen'[d] = Nothing
    BY <1>6 DEF OthersWrite, OthersRemove, Written
  <2> QED BY <1>1, <2>1 DEF OneAtATime
<1>7. ASSUME NEW c \in Members, NEW granted \in SUBSET Names, GrantsChange(c, granted)
      PROVE  OneAtATime'
  <2>1. run' = run /\ \A d \in Callers : seen[d] = Nothing => seen'[d] = Nothing
    BY <1>1, <1>7 DEF GrantsChange
  <2> QED BY <1>1, <2>1 DEF OneAtATime
<1>8. ASSUME NEW e \in Environments, SettingsChange(e) PROVE OneAtATime'
  BY <1>1, <1>8 DEF SettingsChange, OneAtATime
<1>9. CASE UNCHANGED <<vars, delvars>>
  BY <1>1, <1>9 DEF delvars, OneAtATime
<1> QED BY <1>2, <1>3, <1>4, <1>5, <1>6, <1>7, <1>8, <1>9 DEF ApprovalNext

LEMMA PreviewKeeps ==
    ASSUME AInv, IInv', OneAtATime', NEW c \in Callers, NEW request \in Requests, NEW n \in Names,
           Preview(c, request, n)
    PROVE  AInv'
<1>1. /\ ApprovalTypeOK /\ Rest /\ Approved
      /\ UNCHANGED <<objects, run, late>> /\ GetBackend(c, request, n)
  BY DEF AInv, Preview
<1>2. last'.backend \in Configs /\ UNCHANGED <<env, grants>>
  BY <1>1, BackendInReach
<1> DEFINE store == last'.backend
<1>3. PICK page \in SUBSET Keys :
        /\ IsPage(page, objects[store])
        /\ seen' = [seen EXCEPT ![c] =
             [request |-> request, store |-> store, shown |-> page, written |-> {}]]
  BY DEF Preview
<1> DEFINE s == [request |-> request, store |-> store, shown |-> page, written |-> {}]
<1>4. objects[store] \in SUBSET Keys
  BY <1>1, <1>2 DEF ApprovalTypeOK
<1>5. s \in Shown
  <2>1. page \in Batches
    BY <1>3, <1>4, PageOfListing DEF Batches
  <2> QED BY <1>2, <2>1 DEF Shown
<1>6. seen' = [seen EXCEPT ![c] = s] /\ seen \in [Callers -> Shown \cup {Nothing}]
  BY <1>1, <1>3 DEF ApprovalTypeOK
<1>7. Shows(s, objects[store]) /\ s.store = store
  BY <1>3, <1>4, PageOfListing DEF Shows
<1> HIDE DEF s, store
<1>8. ApprovalTypeOK'
  BY <1>1, <1>5, <1>6 DEF ApprovalTypeOK, IInv
<1>9. Rest'
  BY <1>1, <1>2, ReachKept DEF Rest
<1>10. Approved'
  <2>1. seen'[c] = s /\ \A d \in Callers : d # c => seen'[d] = seen[d]
    BY <1>6
  <2> QED BY <1>1, <1>7, <2>1 DEF Approved, Shows
<1> QED BY <1>8, <1>9, <1>10 DEF AInv

LEMMA RerunKeeps ==
    ASSUME AInv, IInv', OneAtATime', NEW c \in Callers, NEW n \in Names, Rerun(c, n)
    PROVE  AInv'
<1>1. /\ ApprovalTypeOK /\ Rest /\ Approved
      /\ seen[c] # Nothing /\ GetBackend(c, seen[c].request, n)
      /\ seen' = [seen EXCEPT ![c] = Nothing]
      /\ UNCHANGED <<objects, late>>
  BY DEF AInv, Rerun
<1>2. seen[c].request \in Requests
  BY <1>1 DEF ApprovalTypeOK, Shown
<1>3. last'.backend \in Configs /\ last'.backend \in Reach(c) /\ UNCHANGED <<env, grants>>
  BY <1>1, <1>2, BackendInReach
<1>4. PICK page \in SUBSET Keys :
        /\ IsPage(page, objects[last'.backend])
        /\ run' = [run EXCEPT ![c] =
             IF page = {} THEN Nothing ELSE [store |-> last'.backend, todo |-> page]]
  BY DEF Rerun
<1>5. page \in Batches
  <2>1. objects[last'.backend] \in SUBSET Keys
    BY <1>1, <1>3 DEF ApprovalTypeOK
  <2> QED BY <1>4, <2>1, PageOfListing DEF Batches
<1>6. ApprovalTypeOK'
  <2>1. run' \in [Callers -> Running \cup {Nothing}]
    BY <1>1, <1>3, <1>4, <1>5 DEF ApprovalTypeOK, Running
  <2> QED BY <1>1, <2>1 DEF ApprovalTypeOK, IInv
<1>7. Rest'
  <2> SUFFICES ASSUME NEW d \in Callers
               PROVE  /\ late[d] <= BatchCap
                      /\ run'[d] # Nothing =>
                           \/ run'[d].store \in Reach(d)
                           \/ late[d] + Cardinality(run'[d].todo) <= BatchCap
    BY <1>1, <1>3, ReachKept DEF Rest
  <2>1. CASE d = c
    <3>1. run'[d] # Nothing => run'[d] = [store |-> last'.backend, todo |-> page]
      BY <1>1, <1>4, <2>1 DEF ApprovalTypeOK
    <3> QED BY <1>1, <1>3, <2>1, <3>1 DEF Rest
  <2>2. CASE d # c
    <3>1. run'[d] = run[d]
      BY <1>1, <1>4, <2>2 DEF ApprovalTypeOK
    <3> QED BY <1>1, <3>1 DEF Rest
  <2> QED BY <2>1, <2>2
<1>8. Approved'
  <2>1. \A d \in Callers : seen'[d] # Nothing => seen'[d] = seen[d]
    BY <1>1 DEF ApprovalTypeOK
  <2> QED BY <1>1, <2>1, ApprovedKept
<1> QED BY <1>6, <1>7, <1>8 DEF AInv

LEMMA RemoveNextKeeps ==
    ASSUME AInv, IInv', OneAtATime', NEW c \in Callers, RemoveNext(c)
    PROVE  AInv'
<1> DEFINE store == run[c].store
<1> DEFINE todo == run[c].todo
<1>1. /\ ApprovalTypeOK /\ Rest /\ Approved /\ run[c] # Nothing
      /\ late' = [late EXCEPT ![c] = IF store \in Reach(c) THEN @ ELSE @ + 1]
      /\ UNCHANGED <<env, grants, seen>>
  BY DEF AInv, RemoveNext, vars
<1>2. PICK k \in todo :
        /\ objects' = [objects EXCEPT ![store] = @ \ {k}]
        /\ run' = [run EXCEPT ![c] = IF todo = {k} THEN Nothing
                                     ELSE [run[c] EXCEPT !.todo = @ \ {k}]]
  BY DEF RemoveNext
<1>3. run[c] \in Running /\ store \in Configs /\ todo \in Batches /\ k \in Keys
      /\ todo \in SUBSET Keys /\ Cardinality(todo) <= BatchCap
  BY <1>1, <1>2 DEF ApprovalTypeOK, Running, Batches
<1>4. /\ Cardinality(todo \ {k}) = Cardinality(todo) - 1
      /\ Cardinality(todo) \in Nat /\ Cardinality(todo \ {k}) \in Nat
      /\ BatchCap \in Nat /\ late[c] \in Nat
  BY <1>1, <1>2, <1>3, KeySets, ApprovalsAssumption DEF ApprovalTypeOK
<1>5. /\ run'[c] = IF todo = {k} THEN Nothing ELSE [run[c] EXCEPT !.todo = todo \ {k}]
      /\ \A d \in Callers : d # c => run'[d] = run[d] /\ late'[d] = late[d]
      /\ late'[c] = IF store \in Reach(c) THEN late[c] ELSE late[c] + 1
  <2>1. c \in DOMAIN run /\ c \in DOMAIN late
        /\ \A d \in Callers : d \in DOMAIN run /\ d \in DOMAIN late
    BY <1>1 DEF ApprovalTypeOK
  <2>2. run' = [run EXCEPT ![c] = IF todo = {k} THEN Nothing
                                  ELSE [run[c] EXCEPT !.todo = todo \ {k}]]
    BY <1>2
  <2> HIDE DEF store, todo
  <2> DEFINE rest == IF todo = {k} THEN Nothing ELSE [run[c] EXCEPT !.todo = todo \ {k}]
  <2>3. run' = [run EXCEPT ![c] = rest]
    BY <2>2
  <2> HIDE DEF rest
  <2>4. run'[c] = rest /\ \A d \in Callers : d # c => run'[d] = run[d]
    BY <2>1, <2>3
  <2>5. /\ late'[c] = IF store \in Reach(c) THEN late[c] ELSE late[c] + 1
        /\ \A d \in Callers : d # c => late'[d] = late[d]
    BY <1>1, <2>1
  <2> QED BY <2>4, <2>5 DEF rest
<1>6. Approved' /\ objects' \in [Configs -> SUBSET Keys]
  BY <1>1, <1>2, <1>3, ApprovedWithout
<1>7. todo # {k} => todo \ {k} \in Batches \ {{}}
  BY <1>2, <1>3, <1>4 DEF Batches
<1>8. run'[c] # Nothing => /\ run'[c].store = store /\ run'[c].todo = todo \ {k}
                           /\ run'[c] \in Running
  BY <1>3, <1>5, <1>7 DEF Running
<1>9. ApprovalTypeOK'
  <2>1. run' \in [Callers -> Running \cup {Nothing}]
    BY <1>1, <1>2, <1>8 DEF ApprovalTypeOK
  <2>2. late' \in [Callers -> Nat]
    BY <1>1, <1>4 DEF ApprovalTypeOK
  <2> QED BY <1>1, <1>6, <2>1, <2>2 DEF ApprovalTypeOK, IInv
<1>10. Rest'
  <2> SUFFICES ASSUME NEW d \in Callers
               PROVE  /\ late'[d] <= BatchCap
                      /\ run'[d] # Nothing =>
                           \/ run'[d].store \in Reach(d)
                           \/ late'[d] + Cardinality(run'[d].todo) <= BatchCap
    BY <1>1, ReachKept DEF Rest
  <2>1. CASE d = c
    <3>1. late[c] <= BatchCap
          /\ (store \in Reach(c) \/ late[c] + Cardinality(todo) <= BatchCap)
      BY <1>1 DEF Rest
    <3>2. late'[c] <= BatchCap
      BY <1>4, <1>5, <3>1
    <3>3. store \in Reach(c) \/ late'[c] + Cardinality(todo \ {k}) <= BatchCap
      BY <1>4, <1>5, <3>1
    <3> QED BY <1>8, <2>1, <3>2, <3>3
  <2>2. CASE d # c
    BY <1>1, <1>5, <2>2 DEF Rest
  <2> QED BY <2>1, <2>2
<1> QED BY <1>6, <1>9, <1>10 DEF AInv

LEMMA OthersKeep ==
    ASSUME AInv, IInv', OneAtATime', NEW store \in Configs, NEW k \in Keys,
           OthersWrite(store, k) \/ OthersRemove(store, k)
    PROVE  AInv'
<1>1. /\ UNCHANGED <<env, grants, run, late>>
      /\ \/ /\ objects' = [objects EXCEPT ![store] = @ \ {k}]
            /\ UNCHANGED seen
         \/ /\ objects' = [objects EXCEPT ![store] = @ \cup {k}]
            /\ seen' = Written(store, k)
  BY DEF OthersWrite, OthersRemove, vars
<1>2. /\ Approved'
      /\ objects' \in [Configs -> SUBSET Keys]
      /\ seen' \in [Callers -> Shown \cup {Nothing}]
  BY <1>1, ApprovedWith, ApprovedWithout DEF AInv, ApprovalTypeOK
<1>3. Rest'
  BY <1>1, ReachKept DEF AInv, Rest
<1> QED BY <1>1, <1>2, <1>3 DEF AInv, ApprovalTypeOK, IInv

LEMMA RemoveFailsKeeps ==
    ASSUME AInv, IInv', OneAtATime', NEW c \in Callers, RemoveFails(c)
    PROVE  AInv'
<1>1. /\ UNCHANGED <<env, grants, objects, seen, late>>
      /\ run' = [run EXCEPT ![c] = Nothing] /\ run \in [Callers -> Running \cup {Nothing}]
  BY DEF RemoveFails, vars, AInv, ApprovalTypeOK
<1>2. \A d \in Callers : run'[d] = Nothing \/ run'[d] = run[d]
  BY <1>1
<1>3. Rest'
  BY <1>1, <1>2, ReachKept DEF AInv, Rest
<1>4. Approved'
  BY <1>1, ApprovedKept DEF AInv
<1> QED BY <1>1, <1>3, <1>4 DEF AInv, ApprovalTypeOK, IInv

(* A delete that has just lost its reach has at most a batch left.         *)
LEMMA WithinABatch ==
    ASSUME ApprovalTypeOK, NEW c \in Callers, run[c] # Nothing
    PROVE  0 + Cardinality(run[c].todo) <= BatchCap
<1>1. run[c].todo \in Batches
  BY DEF ApprovalTypeOK, Running
<1>2. Cardinality(run[c].todo) \in Nat /\ Cardinality(run[c].todo) <= BatchCap
  BY <1>1, KeySets DEF Batches
<1> QED BY <1>2

LEMMA GrantsChangeKeeps ==
    ASSUME AInv, IInv', OneAtATime', NEW c \in Members, NEW granted \in SUBSET Names,
           GrantsChange(c, granted)
    PROVE  AInv'
<1>1. /\ ApprovalTypeOK /\ Rest /\ Approved
      /\ UNCHANGED <<env, objects, seen, run>> /\ grants' = [grants EXCEPT ![c] = granted]
      /\ late' = [late EXCEPT ![c] = 0]
      /\ grants \in [Members -> SUBSET Names] /\ c \in Callers
      /\ BatchCap \in Nat
  BY ApprovalsAssumption DEF AInv, GrantsChange, Regrant, IInv, TypeOK, Members
<1>2. late'[c] = 0 /\ \A d \in Callers : d # c => late'[d] = late[d]
  BY <1>1 DEF ApprovalTypeOK
<1>3. ASSUME NEW d \in Callers, d # c PROVE Reach(d)' = Reach(d)
  <2>1. d \in Strangers \/ d \in Unbound \/ grants'[d] = grants[d]
    BY <1>1, <1>3 DEF Members
  <2> QED BY <1>1, <2>1 DEF Reach, Listed, Recognised, Entitled
<1>4. ApprovalTypeOK'
  <2>1. late' \in [Callers -> Nat]
    BY <1>1 DEF ApprovalTypeOK
  <2> QED BY <1>1, <2>1 DEF ApprovalTypeOK, IInv
<1>5. Rest'
  <2> SUFFICES ASSUME NEW d \in Callers
               PROVE  /\ late'[d] <= BatchCap
                      /\ run[d] # Nothing =>
                           \/ run[d].store \in Reach(d)'
                           \/ late'[d] + Cardinality(run[d].todo) <= BatchCap
    BY <1>1 DEF Rest
  <2>1. CASE d = c
    BY <1>1, <1>2, <2>1, WithinABatch
  <2>2. CASE d # c
    BY <1>1, <1>2, <1>3, <2>2 DEF Rest
  <2> QED BY <2>1, <2>2
<1>6. Approved'
  BY <1>1, ApprovedKept
<1> QED BY <1>4, <1>5, <1>6 DEF AInv

LEMMA SettingsChangeKeeps ==
    ASSUME AInv, IInv', OneAtATime', NEW e \in Environments, SettingsChange(e)
    PROVE  AInv'
<1>1. /\ ApprovalTypeOK /\ Approved /\ UNCHANGED <<objects, seen>>
      /\ late' = [c \in Callers |-> 0]
      /\ run' = [c \in Callers |-> Nothing]
      /\ BatchCap \in Nat
  BY ApprovalsAssumption DEF AInv, SettingsChange
<1>2. ApprovalTypeOK' /\ Rest'
  BY <1>1 DEF ApprovalTypeOK, IInv, Rest
<1>3. Approved'
  BY <1>1, ApprovedKept
<1> QED BY <1>2, <1>3 DEF AInv

LEMMA ApprovalNextInv == AInv /\ [ApprovalNext]_<<vars, delvars>> => AInv'
<1> SUFFICES ASSUME AInv, [ApprovalNext]_<<vars, delvars>> PROVE AInv'
  OBVIOUS
<1>0. IInv' /\ OneAtATime'
  BY RegistryKept, OneAtATimeKept
<1>1. CASE UNCHANGED <<vars, delvars>>
  <2>1. UNCHANGED <<env, grants, objects, seen, run, late>>
    BY <1>1 DEF vars, delvars
  <2>2. Approved'
    BY <2>1, ApprovedKept DEF AInv
  <2>3. Rest'
    BY <2>1, ReachKept DEF AInv, Rest
  <2> QED BY <1>0, <2>1, <2>2, <2>3 DEF AInv, ApprovalTypeOK, IInv
<1> QED BY <1>0, <1>1, PreviewKeeps, RerunKeeps, RemoveNextKeeps, OthersKeep,
           RemoveFailsKeeps, GrantsChangeKeeps, SettingsChangeKeeps DEF ApprovalNext

LEMMA ApprovalInvariance == ApprovalSpec => []AInv
  BY ApprovalInitInv, ApprovalNextInv, PTL DEF ApprovalSpec

-----------------------------------------------------------------------------
(* Every variable has its type in every reachable state.                   *)
THEOREM ApprovalTypeCorrect == ApprovalSpec => []ApprovalTypeOK
<1>1. AInv => ApprovalTypeOK
  BY DEF AInv
<1> QED BY <1>1, ApprovalInvariance, PTL

(* After a store is out of its reach a caller removes from it at most the  *)
(* rest of one batch, whatever the grants, the settings and the cap are    *)
(* (auth.py get_backend, the loop of objectstore_delete_objects_by_prefix).*)
THEOREM LateBounded == ApprovalSpec => []LateIsBounded
<1>1. AInv => LateIsBounded
  BY DEF AInv, Rest, LateIsBounded
<1> QED BY <1>1, ApprovalInvariance, PTL

-----------------------------------------------------------------------------
(* The delete that follows a dry run is of a store in reach, of that of    *)
(* the dry run if its request still leads there, and then of no more new   *)
(* keys than shown ones have gone.                                         *)
LEMMA RerunIsApproved ==
    ASSUME AInv, NEW c \in Callers, NEW n \in Names, Rerun(c, n), run'[c] # Nothing
    PROVE  /\ run'[c].store \in Reach(c)
           /\ StillLeads(c) => run'[c].store = seen[c].store
           /\ run'[c].store = seen[c].store =>
                Cardinality(run'[c].todo \ (seen[c].shown \cup seen[c].written))
                  <= Cardinality(seen[c].shown \ objects[seen[c].store])
<1>1. /\ ApprovalTypeOK /\ Approved /\ seen[c] # Nothing /\ run \in [Callers -> Running \cup {Nothing}]
      /\ GetBackend(c, seen[c].request, n) /\ env \in Environments
  BY DEF AInv, Rerun, ApprovalTypeOK, IInv, TypeOK
<1>2. seen[c] \in Shown /\ seen[c].request \in Requests
  BY <1>1 DEF ApprovalTypeOK, Shown
<1>3. /\ last'.backend = ConfigOf(env, n) /\ last'.backend \in Configs
      /\ last'.backend \in Reach(c)
      /\ seen[c].request # Omitted => n = seen[c].request
      /\ seen[c].request = Omitted /\ DefaultStore(env) \in Entitled(c) => n = DefaultStore(env)
  BY <1>1, <1>2, BackendInReach
<1>4. PICK page \in SUBSET Keys :
        /\ IsPage(page, objects[last'.backend])
        /\ run' = [run EXCEPT ![c] =
             IF page = {} THEN Nothing ELSE [store |-> last'.backend, todo |-> page]]
  BY DEF Rerun
<1>5. run'[c].store = last'.backend /\ run'[c].todo = page
  BY <1>1, <1>4
<1>6. ASSUME StillLeads(c) PROVE last'.backend = seen[c].store
  <2>1. PICK m \in Listed(c) :
          /\ IF seen[c].request = Omitted THEN IsDefault(m) ELSE m = seen[c].request
          /\ ConfigOf(env, m) = seen[c].store
    BY <1>6 DEF StillLeads
  <2>2. m \in Entitled(c) /\ m \in Names
    BY <1>1, <2>1, ListedAreNames DEF Listed
  <2>3. m = n
    BY <1>1, <1>3, <2>1, <2>2, DefaultIsDefault
  <2> QED BY <1>3, <2>1, <2>3
<1>7. ASSUME last'.backend = seen[c].store
      PROVE  Cardinality(page \ (seen[c].shown \cup seen[c].written))
               <= Cardinality(seen[c].shown \ objects[seen[c].store])
  <2>1. /\ objects[seen[c].store] \in SUBSET Keys
        /\ IsPage(page, objects[seen[c].store])
        /\ Shows(seen[c], objects[seen[c].store])
    BY <1>1, <1>3, <1>4, <1>7 DEF ApprovalTypeOK, Approved
  <2> QED BY <1>2, <2>1, ListedAgain
<1> QED BY <1>3, <1>5, <1>6, <1>7

(* A caller with a dry run has no delete running, or keeps the one it has. *)
LEMMA OnlyRerunStarts ==
    ASSUME AInv, [ApprovalNext]_<<vars, delvars>>, NEW c \in Callers,
           seen[c] # Nothing, run[c] = Nothing, run'[c] # Nothing
    PROVE  \E n \in Names : Rerun(c, n)
<1>1. run \in [Callers -> Running \cup {Nothing}]
  BY DEF AInv, ApprovalTypeOK
<1>2. ASSUME NEW d \in Callers, NEW n \in Names, Rerun(d, n) PROVE d = c
  BY <1>1, <1>2 DEF Rerun
<1>3. ASSUME NEW d \in Callers, RemoveNext(d) PROVE FALSE
  <2>1. run[d] # Nothing /\ \A e \in Callers : e # d => run'[e] = run[e]
    BY <1>1, <1>3 DEF RemoveNext
  <2> QED BY <2>1
<1>4. ASSUME NEW d \in Callers, RemoveFails(d) PROVE FALSE
  BY <1>1, <1>4 DEF RemoveFails
<1>5. ASSUME UNCHANGED run PROVE FALSE
  BY <1>5
<1>6. ASSUME NEW e \in Environments, SettingsChange(e) PROVE FALSE
  BY <1>6 DEF SettingsChange
<1> QED BY <1>2, <1>3, <1>4, <1>5, <1>6
        DEF ApprovalNext, Preview, OthersWrite, OthersRemove, GrantsChange, delvars

(* A delete that begins is of a store its caller may reach, and of the one *)
(* its dry run showed while settings and grants lead there; in it at most  *)
(* as many keys neither shown nor written since as shown ones have gone:   *)
(* for every number of callers, stores and keys, and every cap             *)
(* (connector_contracts.py delete-objects against                          *)
(* objectstore_delete_objects_by_prefix).                                  *)
THEOREM DeletesAreApproved == ApprovalSpec => ApprovedOnly
<1> DEFINE IsApproved(c) ==
      /\ run'[c].store \in Reach(c)
      /\ StillLeads(c) => run'[c].store = seen[c].store
      /\ run'[c].store = seen[c].store =>
           Cardinality(run'[c].todo \ (seen[c].shown \cup seen[c].written))
             <= Cardinality(seen[c].shown \ objects[seen[c].store])
<1>1. ASSUME AInv, [ApprovalNext]_<<vars, delvars>>, NEW c \in Callers,
             seen[c] # Nothing, run'[c] # Nothing
      PROVE  IsApproved(c)
  <2>1. run[c] = Nothing
    BY <1>1 DEF AInv, OneAtATime
  <2>2. PICK n \in Names : Rerun(c, n)
    BY <1>1, <2>1, OnlyRerunStarts
  <2> QED BY <1>1, <2>2, RerunIsApproved
<1>2. AInv /\ [ApprovalNext]_<<vars, delvars>> =>
        [\A c \in Callers : seen[c] # Nothing /\ run'[c] # Nothing =>
           IsApproved(c)]_<<vars, delvars>>
  BY <1>1
<1> QED BY <1>2, ApprovalInvariance, PTL DEF ApprovalSpec, ApprovedOnly

(* Agents that ask for approvals, and their deletes, use the registry as   *)
(* any callers do: what is shown of the registry holds for them too.       *)
THEOREM ApprovalsUseTheRegistry == ApprovalSpec => Spec
<1>1. ApprovalInit => Init
  BY DEF ApprovalInit
<1>2. AInv /\ [ApprovalNext]_<<vars, delvars>> => [Next]_vars
  BY RegistryStep DEF AInv
<1> QED BY <1>1, <1>2, ApprovalInvariance, PTL DEF ApprovalSpec, Spec

=============================================================================
