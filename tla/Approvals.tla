----------------------------- MODULE Approvals -----------------------------
(***************************************************************************)
(* A prefix delete with its approval: the task delete-objects of           *)
(* objectstore_mcp/connector_contracts.py, "after a dry run and approval". *)
(*                                                                         *)
(* An agent runs objectstore_delete_objects_by_prefix with dry_run, shows  *)
(* the keys to somebody who approves, and runs the tool again without it.  *)
(* The tool keeps nothing in between: the second call resolves its store   *)
(* through the registry and lists it anew.  Meanwhile grants and settings  *)
(* change, and other callers and clients write and remove objects.         *)
(***************************************************************************)
EXTENDS StoreRegistry, FiniteSets

CONSTANTS
    Keys,       \* the keys under the prefix, numbered in listing order
    BatchCap,   \* the cap of the call, OBJECTSTORE_MAX_BATCH_KEYS
    Nothing     \* no approval is asked for, no delete is running

ASSUME ApprovalsAssumption ==
    /\ Keys \subseteq Nat /\ IsFiniteSet(Keys)
    /\ BatchCap \in Nat \ {0}

(* A store is the place its configuration points to, whatever its name.    *)
VARIABLES
    objects,  \* store -> the keys it has
    seen,     \* caller -> the dry run it has shown, and what was written since
    run,      \* caller -> its delete, running with the keys it has listed
    late      \* caller -> the objects it removed from stores out of its reach
              \*           since its grants or the settings changed

delvars == <<objects, seen, run, late>>

(* The stores the caller may now reach.                                    *)
Reach(c) == {ConfigOf(env, n) : n \in Listed(c)}

(* Faulty: the listing is asked for without the cap.                       *)
IsPageUncapped(page, S) == page = S

(* The first keys of S, BatchCap of them if there are as many.             *)
IsPage(page, S) ==
    /\ page \subseteq S
    /\ \A k \in page, j \in S : j < k => j \in page
    /\ IF Cardinality(page) < BatchCap THEN page = S ELSE Cardinality(page) = BatchCap

(* What one call may show, or has left to delete.                          *)
Batches == {page \in SUBSET Keys : Cardinality(page) <= BatchCap}

(* A dry run: what was asked for, and the store and the keys it showed;    *)
(* written: the keys others have written to that store since.              *)
Shown == [request : Requests, store : Configs, shown : Batches, written : SUBSET Keys]

Running == [store : Configs, todo : Batches \ {{}}]

(* The dry runs of a store once k is written to it.                        *)
Written(store, k) ==
    [c \in Callers |->
        IF seen[c] = Nothing \/ seen[c].store # store THEN seen[c]
        ELSE [seen[c] EXCEPT !.written = @ \cup {k}]]

-----------------------------------------------------------------------------
(* The tool.                                                               *)

(* The dry run: nothing is deleted.                                        *)
Preview(c, request, n) ==
    /\ run[c] = Nothing
    /\ GetBackend(c, request, n)
    /\ \E page \in SUBSET Keys :
         /\ IsPage(page, objects[last'.backend])
         /\ seen' = [seen EXCEPT ![c] =
              [request |-> request, store |-> last'.backend, shown |-> page,
               written |-> {}]]
    /\ UNCHANGED <<objects, run, late>>

(* Faulty: the second call forgets the store.                              *)
RerunAtDefault(c, n) ==
    /\ seen[c] # Nothing
    /\ GetBackend(c, Omitted, n)
    /\ \E page \in (SUBSET Keys) \ {{}} :
         /\ IsPage(page, objects[last'.backend])
         /\ run' = [run EXCEPT ![c] =
              [store |-> last'.backend, todo |-> page]]
    /\ seen' = [seen EXCEPT ![c] = Nothing]
    /\ UNCHANGED <<objects, late>>

(* The same call without dry_run, as far as its listing.                   *)
Rerun(c, n) ==
    /\ seen[c] # Nothing
    /\ GetBackend(c, seen[c].request, n)
    /\ \E page \in SUBSET Keys :
         /\ IsPage(page, objects[last'.backend])
         /\ run' = [run EXCEPT ![c] =
              IF page = {} THEN Nothing
              ELSE [store |-> last'.backend, todo |-> page]]
    /\ seen' = [seen EXCEPT ![c] = Nothing]
    /\ UNCHANGED <<objects, late>>

(* One turn of its loop, through the backend it has got.                   *)
RemoveNext(c) ==
    /\ run[c] # Nothing
    /\ \E k \in run[c].todo :
         /\ \A j \in run[c].todo : k <= j
         /\ objects' = [objects EXCEPT ![run[c].store] = @ \ {k}]
         /\ run' = [run EXCEPT ![c] = IF run[c].todo = {k} THEN Nothing
                                      ELSE [run[c] EXCEPT !.todo = @ \ {k}]]
    /\ late' = [late EXCEPT ![c] = IF run[c].store \in Reach(c) THEN @ ELSE @ + 1]
    /\ UNCHANGED <<vars, seen>>

(* The store refuses, or a key of the page is gone: the call ends there.   *)
RemoveFails(c) ==
    /\ run[c] # Nothing
    /\ run' = [run EXCEPT ![c] = Nothing]
    /\ UNCHANGED <<vars, objects, seen, late>>

-----------------------------------------------------------------------------
(* What others do meanwhile.                                               *)

OthersWrite(store, k) ==
    /\ objects' = [objects EXCEPT ![store] = @ \cup {k}]
    /\ seen' = Written(store, k)
    /\ UNCHANGED <<vars, run, late>>

OthersRemove(store, k) ==
    /\ k \in objects[store]
    /\ objects' = [objects EXCEPT ![store] = @ \ {k}]
    /\ UNCHANGED <<vars, seen, run, late>>

(* A delete that runs keeps its backend.                                   *)
GrantsChange(c, granted) ==
    /\ Regrant(c, granted)
    /\ late' = [late EXCEPT ![c] = 0]
    /\ UNCHANGED <<objects, seen, run>>

(* A restart, which ends it, or a reload, which waits for it: in its       *)
(* process the body of a tool runs to its end.                             *)
SettingsChange(e) ==
    /\ Reset(e)
    /\ late' = [c \in Callers |-> 0]
    /\ run' = [c \in Callers |-> Nothing]
    /\ UNCHANGED <<objects, seen>>

ApprovalInit ==
    /\ Init
    /\ objects \in [Configs -> SUBSET Keys]
    /\ seen = [c \in Callers |-> Nothing]
    /\ run = [c \in Callers |-> Nothing]
    /\ late = [c \in Callers |-> 0]

ApprovalNext ==
    \/ \E c \in Callers :
         \/ \E n \in Names : Rerun(c, n) \/ \E request \in Requests : Preview(c, request, n)
         \/ RemoveNext(c)
         \/ RemoveFails(c)
    \/ \E store \in Configs, k \in Keys : OthersWrite(store, k) \/ OthersRemove(store, k)
    \/ \E c \in Members, granted \in SUBSET Names : GrantsChange(c, granted)
    \/ \E e \in Environments : SettingsChange(e)

ApprovalSpec == ApprovalInit /\ [][ApprovalNext]_<<vars, delvars>>

-----------------------------------------------------------------------------
(* Every variable has its type; no dry run shows more keys than the cap    *)
(* lets a delete go through.                                               *)
ApprovalTypeOK ==
    /\ TypeOK
    /\ objects \in [Configs -> SUBSET Keys]
    /\ seen \in [Callers -> Shown \cup {Nothing}]
    /\ run \in [Callers -> Running \cup {Nothing}]
    /\ late \in [Callers -> Nat]

(* What c asked for in its dry run still leads to the store it was shown.  *)
StillLeads(c) == \E n \in Listed(c) :
    /\ IF seen[c].request = Omitted THEN IsDefault(n) ELSE n = seen[c].request
    /\ ConfigOf(env, n) = seen[c].store

(* A delete that begins is of a store its caller may reach, and of the one *)
(* its dry run showed as long as the settings and the grants still lead    *)
(* there.  In that store it goes through keys that were shown or that      *)
(* others have written since, and otherwise through no more keys than      *)
(* shown ones have gone, when the page that the cap cut moves on           *)
(* (connector_contracts.py delete-objects, "after a dry run and approval", *)
(* against the two calls of objectstore_delete_objects_by_prefix).         *)
ApprovedOnly ==
    [][\A c \in Callers : seen[c] # Nothing /\ run'[c] # Nothing =>
         /\ run'[c].store \in Reach(c)
         /\ StillLeads(c) => run'[c].store = seen[c].store
         /\ run'[c].store = seen[c].store =>
              Cardinality(run'[c].todo \ (seen[c].shown \cup seen[c].written))
                <= Cardinality(seen[c].shown \ objects[seen[c].store])]_<<vars, delvars>>

(* After a store is out of its reach a caller removes from it at most the  *)
(* rest of one batch: a delete that runs keeps the backend it has resolved *)
(* (auth.py get_backend and the loop of                                    *)
(* objectstore_delete_objects_by_prefix), and no other begins.             *)
LateIsBounded == \A c \in Callers : late[c] <= BatchCap

(* The inductive invariant: what is left of a delete out of reach, and     *)
(* what of its store a dry run has not shown.                              *)
Rest == \A c \in Callers :
    /\ late[c] <= BatchCap
    /\ run[c] # Nothing =>
         run[c].store \in Reach(c) \/ late[c] + Cardinality(run[c].todo) <= BatchCap

(* What is in the store, not shown and not written since, comes after all  *)
(* that a full page showed.                                                *)
Shows(s, S) == \A k \in S \ (s.shown \cup s.written) :
    Cardinality(s.shown) = BatchCap /\ \A j \in s.shown : j < k

Approved == \A c \in Callers : seen[c] # Nothing =>
    Shows(seen[c], objects[seen[c].store])

(* What runs has been approved, and that approval is spent.                *)
OneAtATime == \A c \in Callers : seen[c] = Nothing \/ run[c] = Nothing

AInv == ApprovalTypeOK /\ IInv /\ Rest /\ Approved /\ OneAtATime

=============================================================================
