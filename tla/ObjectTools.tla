---------------------------- MODULE ObjectTools ----------------------------
(***************************************************************************)
(* The object and bucket tools over one store, behind the safety governor  *)
(* (objectstore_mcp/guard.py, the composite object operations of           *)
(* objectstore_mcp/mcp/mcp_objectstore.py).                                *)
(*                                                                         *)
(* Several server processes share the store.  A process runs one tool body *)
(* at a time (the bodies are coroutines that never await), but a composite *)
(* tool makes several calls to the store, and the calls of other processes *)
(* come between them.  Each call to the store is one step.  It may fail    *)
(* before or after it takes effect, and a process may die between two      *)
(* calls and come back with other settings.                                *)
(***************************************************************************)
EXTENDS Limits

CONSTANTS
    Servers,       \* the server processes
    Buckets,
    Keys,          \* object keys: numbers, compared as listings order them
    WildKeys,      \* the keys that hold "*" or "?"
    Prefixes, EmptyPrefix,
    Under,         \* prefix -> the keys that start with it
    Payloads,      \* what an object may contain
    Size,          \* payload -> its length in bytes
    Absent,        \* the content of a location that holds no object
    Asked,         \* the max_keys arguments callers pass
    Environments   \* the settings a server process may be started with

EmptyKey == 0
ArgKeys == Keys \cup {EmptyKey}
Locations == Buckets \X Keys

ASSUME KeysAssumption ==
    /\ Keys \subseteq Nat \ {EmptyKey}
    /\ IsFiniteSet(Keys)
    /\ WildKeys \subseteq Keys
    /\ Under \in [Prefixes -> SUBSET Keys]
    /\ EmptyPrefix \in Prefixes
    /\ Asked \subseteq Nat \cup {None}

ASSUME PayloadsAssumption ==
    /\ Absent \notin Payloads
    /\ Size \in [Payloads -> Nat]

ASSUME EnvironmentsAssumption == Environments \subseteq Setting

VARIABLES
    objects,   \* location -> payload or Absent
    buckets,   \* the buckets that exist
    env,       \* server -> the settings of its process environment
    call,      \* server -> the composite tool it is running, or Idle
    reply,     \* server -> what its last composite tool answered, or NoReply
    \* Observed by the properties, read by no action:
    removed,   \* server -> the locations its latest call emptied
    touched    \* server -> the locations others changed during its call

vars == <<objects, buckets, env, call, reply, removed, touched>>

-----------------------------------------------------------------------------
(* The calls in progress and their answers.                                *)

Idle == [tool |-> "idle"]

NoReply == [tool |-> "idle", outcome |-> "none", deleted |-> 0, truncated |-> FALSE]

(* data is the payload the copy saw; it stands for the bytes, which the    *)
(* program itself never looks at.                                          *)
MoveCalls ==
    [tool : {"move"}, src : Locations, dst : Locations, data : Payloads]

PrefixDeleteCalls ==
    [tool : {"delete_by_prefix"}, bucket : Buckets, prefix : Prefixes,
     cap : Nat, page : SUBSET Keys, todo : SUBSET Keys, truncated : BOOLEAN]

Replies ==
    [tool      : {"idle", "move", "delete_by_prefix"},
     outcome   : {"none", "ok", "refused", "not_found", "failed"},
     deleted   : Nat,
     truncated : BOOLEAN]

-----------------------------------------------------------------------------
(* The store: what one backend call may do.  A call that is possible takes *)
(* effect and answers, takes effect and loses the answer, or fails first.  *)

Result(contents, outcome) == [objects |-> contents, outcome |-> outcome]

StoreResults(possible, contents) ==
    IF possible
    THEN {Result(contents, "ok"), Result(contents, "failed"), Result(objects, "failed")}
    ELSE {Result(objects, "not_found"), Result(objects, "failed")}

StorePut(l, v) ==
    StoreResults(l[1] \in buckets, [objects EXCEPT ![l] = v])

StoreCopy(src, dst) ==
    StoreResults(objects[src] # Absent /\ dst[1] \in buckets,
                 [objects EXCEPT ![dst] = objects[src]])

StoreDelete(l) ==
    StoreResults(objects[l] # Absent, [objects EXCEPT ![l] = Absent])

(* The keys a listing matches.                                             *)
Matches(b, p) == {k \in Under[p] : objects[<<b, k>>] # Absent}

-----------------------------------------------------------------------------
(* The governor (guard.py): what it lets through to the store.             *)

DeletesAllowed(s) == Loads(env[s]) /\ LoadLimits(env[s]).allow_object_delete

(* Faulty: the wildcard refusal is missing.                                *)
GuardedDeleteOfAnyKey(s, b, k) ==
    IF DeletesAllowed(s) /\ k # EmptyKey
    THEN StoreDelete(<<b, k>>)
    ELSE {Result(objects, "refused")}

GuardedDelete(s, b, k) ==
    IF DeletesAllowed(s) /\ k # EmptyKey /\ k \notin WildKeys
    THEN StoreDelete(<<b, k>>)
    ELSE {Result(objects, "refused")}

(* Faulty: a put is held to the transfer cap.                              *)
GuardedPutOfTransfer(s, l, v) ==
    IF Loads(env[s]) /\ Size[v] <= LoadLimits(env[s]).max_transfer_bytes
    THEN StorePut(l, v)
    ELSE {Result(objects, "refused")}

GuardedPut(s, l, v) ==
    IF Loads(env[s]) /\ Size[v] <= LoadLimits(env[s]).max_put_bytes
    THEN StorePut(l, v)
    ELSE {Result(objects, "refused")}

(* At most KeyCap(asked, max_list_keys) keys come back from a listing.     *)
GuardedPages(s, b, p, asked) ==
    Pages(Matches(b, p), KeyCap(asked, LoadLimits(env[s]).max_list_keys))

-----------------------------------------------------------------------------
(* Bookkeeping shared by the actions.                                      *)

Answer(s, tool, outcome, n, trunc) ==
    /\ call' = [call EXCEPT ![s] = Idle]
    /\ reply' = [reply EXCEPT ![s] = [tool |-> tool, outcome |-> outcome,
                                      deleted |-> n, truncated |-> trunc]]

(* The observation of a step of s, whose call had emptied "before".        *)
Observe(s, before) ==
    /\ removed' = [removed EXCEPT ![s] =
           before \cup {l \in Locations : objects[l] # Absent /\ objects'[l] = Absent}]
    /\ touched' = [t \in Servers |->
           IF call'[t].tool = "idle" THEN {}
           ELSE IF t = s THEN touched[t]
           ELSE touched[t] \cup {l \in Locations : objects'[l] # objects[l]}]

(* A tool that makes one call to the store and ends with it.               *)
SingleCall(s, results) ==
    /\ call[s] = Idle
    /\ \E r \in results : objects' = r.objects
    /\ reply' = [reply EXCEPT ![s] = NoReply]
    /\ UNCHANGED <<buckets, env, call>>
    /\ Observe(s, {})

-----------------------------------------------------------------------------
(* The tools the SDK generates from the backend protocol, as the governor  *)
(* lets them act.                                                          *)

PutObject(s, l, v) == SingleCall(s, GuardedPut(s, l, v))

CopyObject(s, src, dst) == SingleCall(s, StoreCopy(src, dst))

DeleteObject(s, b, k) == SingleCall(s, GuardedDelete(s, b, k))

CreateBucket(s, b) ==
    /\ call[s] = Idle
    /\ b \notin buckets
    /\ buckets' = buckets \cup {b}
    /\ reply' = [reply EXCEPT ![s] = NoReply]
    /\ UNCHANGED <<objects, env, call>>
    /\ Observe(s, {})

DeleteBucket(s, b) ==
    /\ call[s] = Idle
    /\ Loads(env[s]) /\ LoadLimits(env[s]).allow_bucket_delete
    /\ b \in buckets
    /\ \A k \in Keys : objects[<<b, k>>] = Absent
    /\ buckets' = buckets \ {b}
    /\ reply' = [reply EXCEPT ![s] = NoReply]
    /\ UNCHANGED <<objects, env, call>>
    /\ Observe(s, {})

-----------------------------------------------------------------------------
(* objectstore_move_object: checks and copy, then the guarded delete.      *)

(* Faulty: the destination key is not required.                            *)
MayMoveAnywhere(s, src, dst) ==
    /\ src[2] # EmptyKey /\ src[2] \notin WildKeys
    /\ DeletesAllowed(s)

MayMove(s, src, dst) ==
    /\ dst[2] # EmptyKey
    /\ src[2] # EmptyKey /\ src[2] \notin WildKeys
    /\ DeletesAllowed(s)

MoveRefuse(s, src, dst) ==
    /\ call[s] = Idle
    /\ ~MayMove(s, src, dst)
    /\ Answer(s, "move", "refused", 0, FALSE)
    /\ UNCHANGED <<objects, buckets, env>>
    /\ Observe(s, {})

(* Faulty: an error of the copy other than not_found is swallowed.         *)
MoveCopyPressesOn(s, src, dst) ==
    /\ call[s] = Idle
    /\ MayMove(s, src, dst)
    /\ \E r \in StoreCopy(src, dst) :
         /\ objects' = r.objects
         /\ \/ /\ r.outcome # "not_found" /\ objects[src] # Absent
               /\ call' = [call EXCEPT ![s] = [tool |-> "move", src |-> src, dst |-> dst,
                                               data |-> objects[src]]]
               /\ reply' = [reply EXCEPT ![s] = NoReply]
            \/ /\ r.outcome = "not_found"
               /\ Answer(s, "move", r.outcome, 0, FALSE)
    /\ UNCHANGED <<buckets, env>>
    /\ Observe(s, {})

MoveCopy(s, src, dst) ==
    /\ call[s] = Idle
    /\ MayMove(s, src, dst)
    /\ \E r \in StoreCopy(src, dst) :
         /\ objects' = r.objects
         /\ \/ /\ r.outcome = "ok"
               /\ call' = [call EXCEPT ![s] = [tool |-> "move", src |-> src, dst |-> dst,
                                               data |-> objects[src]]]
               /\ reply' = [reply EXCEPT ![s] = NoReply]
            \/ /\ r.outcome # "ok"
               /\ Answer(s, "move", r.outcome, 0, FALSE)
    /\ UNCHANGED <<buckets, env>>
    /\ Observe(s, {})

MoveDelete(s) ==
    /\ call[s].tool = "move"
    /\ \E r \in GuardedDelete(s, call[s].src[1], call[s].src[2]) :
         /\ objects' = r.objects
         /\ Answer(s, "move", r.outcome, IF r.outcome = "ok" THEN 1 ELSE 0, FALSE)
    /\ UNCHANGED <<buckets, env>>
    /\ Observe(s, removed[s])

-----------------------------------------------------------------------------
(* objectstore_delete_objects_by_prefix: checks and one capped listing,    *)
(* then, unless it is a dry run, one guarded delete for each listed key.   *)

MayDeletePrefix(s, p) == DeletesAllowed(s) /\ p # EmptyPrefix

(* Faulty: the cap of a listing stands for the cap of a batch.             *)
BatchCapOfListing(s, asked) == KeyCap(asked, LoadLimits(env[s]).max_list_keys)

BatchCap(s, asked) == KeyCap(asked, LoadLimits(env[s]).max_batch_keys)

PrefixDeleteRefuse(s, p) ==
    /\ call[s] = Idle
    /\ ~MayDeletePrefix(s, p)
    /\ Answer(s, "delete_by_prefix", "refused", 0, FALSE)
    /\ UNCHANGED <<objects, buckets, env>>
    /\ Observe(s, {})

(* The listing fails: the bucket is not there, or the store is not.        *)
PrefixDeleteListFails(s, b, p) ==
    /\ call[s] = Idle
    /\ MayDeletePrefix(s, p)
    /\ \E outcome \in IF b \in buckets THEN {"failed"} ELSE {"not_found", "failed"} :
         Answer(s, "delete_by_prefix", outcome, 0, FALSE)
    /\ UNCHANGED <<objects, buckets, env>>
    /\ Observe(s, {})

PrefixDeleteList(s, b, p, asked, dry_run) ==
    /\ call[s] = Idle
    /\ MayDeletePrefix(s, p)
    /\ b \in buckets
    /\ \E page \in GuardedPages(s, b, p, BatchCap(s, asked)) :
         LET truncated == page # Matches(b, p) IN
         \/ /\ dry_run \/ page = {}
            /\ Answer(s, "delete_by_prefix", "ok", 0, truncated)
         \/ /\ ~dry_run /\ page # {}
            /\ call' = [call EXCEPT ![s] =
                  [tool |-> "delete_by_prefix", bucket |-> b, prefix |-> p,
                   cap |-> BatchCap(s, asked), page |-> page, todo |-> page,
                   truncated |-> truncated]]
            /\ reply' = [reply EXCEPT ![s] = NoReply]
    /\ UNCHANGED <<objects, buckets, env>>
    /\ Observe(s, {})

(* Faulty: a key that is gone already counts as deleted.                   *)
AfterDeleteTolerant(s, k, outcome) ==
    \/ /\ outcome \in {"ok", "not_found"} /\ call[s].todo # {k}
       /\ call' = [call EXCEPT ![s].todo = @ \ {k}]
       /\ UNCHANGED reply
    \/ /\ outcome \in {"ok", "not_found"} /\ call[s].todo = {k}
       /\ Answer(s, "delete_by_prefix", "ok", Cardinality(call[s].page), call[s].truncated)
    \/ /\ outcome \in {"refused", "failed"}
       /\ Answer(s, "delete_by_prefix", outcome, 0, FALSE)

(* Faulty: a page that was cut short is reported as the whole listing.     *)
AfterDeleteUntruncated(s, k, outcome) ==
    \/ /\ outcome = "ok" /\ call[s].todo # {k}
       /\ call' = [call EXCEPT ![s].todo = @ \ {k}]
       /\ UNCHANGED reply
    \/ /\ outcome = "ok" /\ call[s].todo = {k}
       /\ Answer(s, "delete_by_prefix", "ok", Cardinality(call[s].page), FALSE)
    \/ /\ outcome # "ok"
       /\ Answer(s, "delete_by_prefix", outcome, 0, FALSE)

(* What is left to do once the delete of k answered; any error ends the    *)
(* call.                                                                   *)
AfterDelete(s, k, outcome) ==
    \/ /\ outcome = "ok" /\ call[s].todo # {k}
       /\ call' = [call EXCEPT ![s].todo = @ \ {k}]
       /\ UNCHANGED reply
    \/ /\ outcome = "ok" /\ call[s].todo = {k}
       /\ Answer(s, "delete_by_prefix", "ok", Cardinality(call[s].page), call[s].truncated)
    \/ /\ outcome # "ok"
       /\ Answer(s, "delete_by_prefix", outcome, 0, FALSE)

PrefixDeleteNext(s) ==
    /\ call[s].tool = "delete_by_prefix"
    /\ \E k \in call[s].todo :
         /\ \A j \in call[s].todo : k <= j
         /\ \E r \in GuardedDelete(s, call[s].bucket, k) :
              objects' = r.objects /\ AfterDelete(s, k, r.outcome)
    /\ UNCHANGED <<buckets, env>>
    /\ Observe(s, removed[s])

-----------------------------------------------------------------------------
(* The process dies, if it was running a tool in the middle of it, and is  *)
(* started again with the settings e.                                      *)
Restart(s, e) ==
    /\ env' = [env EXCEPT ![s] = e]
    /\ call' = [call EXCEPT ![s] = Idle]
    /\ reply' = [reply EXCEPT ![s] = NoReply]
    /\ UNCHANGED <<objects, buckets>>
    /\ Observe(s, {})

Init ==
    /\ buckets \in SUBSET Buckets
    /\ objects \in {f \in [Locations -> Payloads \cup {Absent}] :
                      \A l \in Locations : f[l] # Absent => l[1] \in buckets}
    /\ env \in [Servers -> Environments]
    /\ call = [s \in Servers |-> Idle]
    /\ reply = [s \in Servers |-> NoReply]
    /\ removed = [s \in Servers |-> {}]
    /\ touched = [s \in Servers |-> {}]

ArgLocations == Buckets \X ArgKeys

SingleTools(s) ==
    \/ \E l \in Locations, v \in Payloads : PutObject(s, l, v)
    \/ \E src, dst \in Locations : CopyObject(s, src, dst)
    \/ \E b \in Buckets, k \in ArgKeys : DeleteObject(s, b, k)
    \/ \E b \in Buckets : CreateBucket(s, b) \/ DeleteBucket(s, b)

MoveTool(s) ==
    \/ \E src, dst \in ArgLocations : MoveRefuse(s, src, dst) \/ MoveCopy(s, src, dst)
    \/ MoveDelete(s)

PrefixDeleteTool(s) ==
    \/ \E p \in Prefixes : PrefixDeleteRefuse(s, p)
    \/ \E b \in Buckets, p \in Prefixes : PrefixDeleteListFails(s, b, p)
    \/ \E b \in Buckets, p \in Prefixes, asked \in Asked, dry_run \in BOOLEAN :
         PrefixDeleteList(s, b, p, asked, dry_run)
    \/ PrefixDeleteNext(s)

Next ==
    \E s \in Servers :
        \/ SingleTools(s)
        \/ MoveTool(s)
        \/ PrefixDeleteTool(s)
        \/ \E e \in Environments : Restart(s, e)

Spec == Init /\ [][Next]_vars

(* Callers that clean up: prefix deletes and restarts only, each non-empty *)
(* prefix asked for again and again.  The store does not fail, and a       *)
(* process is not killed, before every delete.                             *)
CleanupNext ==
    \E s \in Servers :
        \/ PrefixDeleteTool(s)
        \/ \E e \in Environments : Restart(s, e)

CleanupFairness ==
    /\ \A b \in Buckets, p \in Prefixes \ {EmptyPrefix} :
         SF_vars(\E s \in Servers : PrefixDeleteList(s, b, p, None, FALSE))
    /\ \A s \in Servers : SF_vars(PrefixDeleteNext(s) /\ objects' # objects)

CleanupSpec == Init /\ [][CleanupNext]_vars /\ CleanupFairness

-----------------------------------------------------------------------------
(* Every variable has its type.                                            *)
TypeOK ==
    /\ objects \in [Locations -> Payloads \cup {Absent}]
    /\ buckets \subseteq Buckets
    /\ env \in [Servers -> Environments]
    /\ call \in [Servers -> {Idle} \cup MoveCalls \cup PrefixDeleteCalls]
    /\ reply \in [Servers -> Replies]
    /\ removed \in [Servers -> SUBSET Locations]
    /\ touched \in [Servers -> SUBSET Locations]

GovernedRemoval(s) == removed[s] # {} =>
    DeletesAllowed(s) /\ \A l \in removed[s] : l[2] \notin WildKeys

(* No call empties a location on a server whose object deletes are off or  *)
(* whose settings do not parse, and none removes an object whose key holds *)
(* a wildcard character, whichever tool it is and however far it got       *)
(* (guard.py delete_object).                                               *)
RemovalIsGoverned == \A s \in Servers : GovernedRemoval(s)

(* A prefix delete has removed exactly the keys it went through, all of    *)
(* them under its prefix, and the count it reports is the number of        *)
(* objects that it removed itself, whatever other clients deleted          *)
(* meanwhile (objectstore_delete_objects_by_prefix, "deleted").            *)
PrefixDeleteExact ==
    \A s \in Servers :
        /\ call[s].tool = "delete_by_prefix" =>
             /\ call[s].page \subseteq Under[call[s].prefix]
             /\ removed[s] = {call[s].bucket} \X (call[s].page \ call[s].todo)
        /\ reply[s].tool = "delete_by_prefix" /\ reply[s].outcome = "ok" =>
             reply[s].deleted = Cardinality(removed[s])

(* A batch cap of zero counts as none (min(max_keys or cap, cap) at the    *)
(* store), so that the cap of a listing is the one that is left.           *)
WithinCaps(s, n) ==
    LET limits == LoadLimits(env[s]) IN
    /\ n <= limits.max_list_keys
    /\ limits.max_batch_keys > 0 => n <= limits.max_batch_keys

(* One prefix delete removes no more objects than the batch cap and the    *)
(* list cap of its process, whatever it is asked for and whatever comes    *)
(* under the prefix meanwhile; with a batch cap of zero it is the list cap *)
(* alone that holds (cap = min(max_keys or batch, batch), then guard.py    *)
(* list_objects).                                                          *)
BatchBound ==
    \A s \in Servers :
        "delete_by_prefix" \in {call[s].tool, reply[s].tool} /\ Loads(env[s])
        => WithinCaps(s, Cardinality(removed[s]))

Undisturbed(s) == {call[s].src, call[s].dst} \cap touched[s] = {}

(* The step in which the move of s ends: answered, failed or killed.       *)
EndsMove(s) == call[s].tool = "move" /\ call'[s] = Idle

(* However a move between two places ends after its copy, by an answer,    *)
(* by an error, by a store that lost one or by the death of its process,   *)
(* its destination then holds what the source held before that step, so    *)
(* that the object is not lost, unless another client changed one of the   *)
(* two since the copy (objectstore_move_object, copy and then delete).     *)
MoveKeepsObject ==
    [][\A s \in Servers :
         EndsMove(s) /\ call[s].src # call[s].dst /\ Undisturbed(s)
         => objects[call[s].src] = objects'[call[s].dst]]_vars

(* The step in which s removes the source of its move, answered or not.    *)
RemovesSource(s) == EndsMove(s) /\ objects'[call[s].src] # objects[call[s].src]

(* A removal never loses the object, whatever the destination:             *)
(* "Move one object: copy it to dst_bucket/dst_key, then delete the        *)
(* source" (docstring of objectstore_move_object).                         *)
MoveNeverDestroys ==
    [][\A s \in Servers :
         RemovesSource(s) /\ Undisturbed(s)
         => objects[call[s].src] = objects'[call[s].dst]]_vars

(* The step in which s answers that its prefix delete is done.             *)
FinishesPrefixDelete(s) ==
    /\ call[s].tool = "delete_by_prefix"
    /\ call'[s] = Idle
    /\ reply'[s].outcome = "ok"

(* When a prefix delete succeeds and does not say "truncated", all that    *)
(* is left under its prefix was changed by another client since the        *)
(* listing: the cap, the page and the loop skip nothing.                   *)
PrefixDeleteLeavesOnlyNewer ==
    [][\A s \in Servers :
         FinishesPrefixDelete(s) /\ ~reply'[s].truncated =>
           \A k \in Under[call[s].prefix] :
              LET l == <<call[s].bucket, k>> IN
              objects'[l] # Absent => l \in touched[s]]_vars

(* Callers that repeat a prefix delete empty the prefix, although each     *)
(* call is capped and stops at the first key another client deleted first. *)
PrefixEventuallyEmpty ==
    \A b \in Buckets, p \in Prefixes \ {EmptyPrefix} :
        <>[](b \in buckets => Matches(b, p) = {})

(* The inductive invariant.  A move has removed nothing, and its source    *)
(* and destination hold the data it copied where nobody else changed them. *)
MoveInv(s) == call[s].tool = "move" =>
    /\ removed[s] = {}
    /\ \A l \in {call[s].src, call[s].dst} \ touched[s] : objects[l] = call[s].data

(* A prefix delete is allowed, keeps to its prefix and its cap, has        *)
(* removed what it went through, and what else is left under the prefix    *)
(* is beyond the page or newer than the listing.                           *)
PrefixDeleteInv(s) == call[s].tool = "delete_by_prefix" =>
    /\ DeletesAllowed(s)
    /\ call[s].todo \subseteq call[s].page
    /\ call[s].page \subseteq Under[call[s].prefix]
    /\ WithinCaps(s, Cardinality(call[s].page))
    /\ removed[s] = {call[s].bucket} \X (call[s].page \ call[s].todo)
    /\ \A k \in Under[call[s].prefix] :
         objects[<<call[s].bucket, k>>] # Absent =>
            \/ k \in call[s].todo
            \/ <<call[s].bucket, k>> \in touched[s]
            \/ call[s].truncated /\ k \notin call[s].page

(* An answer is there only between calls, and agrees with what was removed. *)
ReplyInv(s) ==
    /\ call[s].tool # "idle" => reply[s] = NoReply
    /\ reply[s].tool = "delete_by_prefix" =>
         /\ reply[s].outcome = "ok" => reply[s].deleted = Cardinality(removed[s])
         /\ Loads(env[s]) => WithinCaps(s, Cardinality(removed[s]))

ServerInv(s) == MoveInv(s) /\ PrefixDeleteInv(s) /\ ReplyInv(s) /\ GovernedRemoval(s)

(* The state of every server agrees with the store, whatever the others do. *)
IInv == TypeOK /\ \A s \in Servers : ServerInv(s)

(* The store only changes as the governor promises.                        *)
Governed == INSTANCE GovernedStore WITH
    objectDeletes <- \E s \in Servers : DeletesAllowed(s),
    bucketDeletes <- \E s \in Servers :
        Loads(env[s]) /\ LoadLimits(env[s]).allow_bucket_delete,
    admitted <- {v \in Payloads : \E s \in Servers :
        Loads(env[s]) /\ Size[v] <= LoadLimits(env[s]).max_put_bytes}

GovernedSpec == Governed!Spec

=============================================================================
