------------------------------ MODULE KgIngest ------------------------------
(***************************************************************************)
(* Knowledge-graph ingestion: the two ingest tools of                      *)
(* objectstore_mcp/mcp/mcp_objectstore.py and the change sets that         *)
(* objectstore_mcp/kg_ingest.py builds for them.                           *)
(*                                                                         *)
(* A call lists the store and then awaits one transaction of the graph     *)
(* engine; other calls and other clients of the store go on meanwhile.  A  *)
(* name is a sequence of segments, those between its slashes, because the  *)
(* identifiers of the nodes join names with slashes.                       *)
(***************************************************************************)
EXTENDS Naturals, Sequences, FiniteSets

CONSTANTS
    Agents,
    Segments,     \* what stands between the slashes of names
    Objects,      \* the objects that may exist
    Rank,         \* object -> its place in the listing of its bucket
    ListCap,      \* OBJECTSTORE_MAX_LIST_KEYS
    MaxTime,      \* bound: the number of writes to the stores
    Idle, Absent

VARIABLES
    clock,   \* the number of writes to the stores so far
    stamp,   \* object -> the write that made it what it is, 0 where there is none
    nodes,   \* identifier -> what the graph has under it
    edges,   \* the relationships of the graph, from identifier to identifier
    call     \* agent -> its awaited change set, or Idle

vars == <<clock, stamp, nodes, edges, call>>

(* What a node is about: a store, a bucket of it, an object in that.       *)
Kinds == {"ObjectStore", "Bucket", "Object"}

Name == Seq(Segments \cup Kinds)

Thing == [kind : Kinds, store : Name, bucket : Name, key : Name]

BucketOf(o) == [kind |-> "Bucket", store |-> o.store, bucket |-> o.bucket, key |-> <<>>]
StoreOf(o) == [kind |-> "ObjectStore", store |-> o.store, bucket |-> <<>>, key |-> <<>>]

Things == Objects \cup {BucketOf(o) : o \in Objects} \cup {StoreOf(o) : o \in Objects}

(* Faulty: the bucket is left out.                                         *)
IdWithoutBucket(t) ==
    IF t.kind = "Object" THEN <<t.kind>> \o t.store \o t.key
    ELSE <<t.kind>> \o t.store \o t.bucket

(* _store_id, _bucket_id and _object_id.                                   *)
Id(t) == <<t.kind>> \o t.store \o t.bucket \o t.key

Ids == {Id(t) : t \in Things}

(* A record of a change set: a thing, and for an object the write its      *)
(* metadata (size, etag, ...) is of.                                       *)
Entity == [of : Things, stamp : 0..MaxTime]

(* A change set that is awaited; stale: the identifiers that others have   *)
(* committed since the listing.                                            *)
Submitted == [entities : SUBSET Entity, edges : SUBSET (Ids \X Ids), stale : SUBSET Ids]

(* The name of a bucket is one segment, and no two keys are listed in one  *)
(* place.                                                                  *)
ASSUME KgAssumption ==
    /\ \A o \in Objects : o \in Thing /\ o.kind = "Object"
                          /\ Len(o.bucket) = 1 /\ Len(o.store) > 0
    /\ Rank \in [Objects -> Nat]
    /\ \A o, p \in Objects : BucketOf(o) = BucketOf(p) /\ Rank[o] = Rank[p] => o = p
    /\ ListCap \in Nat \ {0} /\ MaxTime \in Nat
    /\ Absent \notin Entity /\ Idle \notin Submitted

Plain(t) == [of |-> t, stamp |-> 0]

(* The metadata a listing gives of object o.                               *)
Current(o) == [of |-> o, stamp |-> stamp[o]]

Lesser(m, n) == IF m <= n THEN m ELSE n

-----------------------------------------------------------------------------
(* kg_ingest.py.                                                           *)

(* ingest_entities refuses an empty change set, and awaits the commit of   *)
(* any other.                                                              *)
IngestEntities(a, entities, relationships) ==
    /\ call[a] = Idle
    /\ entities # {}
    /\ call' = [call EXCEPT ![a] = [entities |-> entities, edges |-> relationships,
                                    stale |-> {}]]
    /\ UNCHANGED <<clock, stamp, nodes, edges>>

(* The change set of some buckets of a store, with the store itself.       *)
IngestBuckets(a, store, buckets) ==
    IngestEntities(a, {Plain(t) : t \in {store} \cup buckets},
                   {<<Id(b), Id(store)>> : b \in buckets})

(* Faulty: the node of the bucket is left to the other tool.               *)
IngestObjectsAlone(a, bucket, page) ==
    IngestEntities(a, {Current(o) : o \in page},
                   {<<Id(o), Id(bucket)>> : o \in page})

(* Faulty: a relationship leads to the name of the bucket.                 *)
IngestObjectsByName(a, bucket, page) ==
    /\ page # {}
    /\ IngestEntities(a, {Plain(bucket)} \cup {Current(o) : o \in page},
                      {<<Id(o), bucket.bucket>> : o \in page})

(* Faulty: the metadata may be what an earlier listing gave.               *)
IngestObjectsCached(a, bucket, page) ==
    /\ page # {}
    /\ \E seen \in [page -> 1..MaxTime] :
         /\ \A o \in page : seen[o] <= stamp[o]
         /\ IngestEntities(a, {Plain(bucket)} \cup {[of |-> o, stamp |-> seen[o]] : o \in page},
                           {<<Id(o), Id(bucket)>> : o \in page})

(* The change set of a page of objects, with the bucket but not its store. *)
IngestObjects(a, bucket, page) ==
    /\ page # {}
    /\ IngestEntities(a, {Plain(bucket)} \cup {Current(o) : o \in page},
                      {<<Id(o), Id(bucket)>> : o \in page})

(* The engine commits the change set: what it has under the identifiers is *)
(* replaced, all together.  The answer may be lost.                        *)
Commit(a) ==
    /\ call[a] # Idle
    /\ LET new(i) == {e \in call[a].entities : Id(e.of) = i}
           ids == {Id(e.of) : e \in call[a].entities} IN
         /\ nodes' = [i \in Ids |-> IF new(i) = {} THEN nodes[i]
                                    ELSE CHOOSE e \in new(i) : TRUE]
         /\ call' = [x \in Agents |->
              IF x = a \/ call[x] = Idle THEN Idle
              ELSE [call[x] EXCEPT !.stale = @ \cup ids]]
    /\ edges' = edges \cup call[a].edges
    /\ UNCHANGED <<clock, stamp>>

(* IngestError: the engine took nothing, or the process is gone.           *)
Abandon(a) ==
    /\ call[a] # Idle
    /\ call' = [call EXCEPT ![a] = Idle]
    /\ UNCHANGED <<clock, stamp, nodes, edges>>

-----------------------------------------------------------------------------
(* The two tools.                                                          *)

In(bucket) == {o \in Objects : BucketOf(o) = bucket /\ stamp[o] # 0}

(* objectstore_ingest_buckets: every bucket the store lists.               *)
ToolIngestBuckets(a, store) ==
    IngestBuckets(a, store, {BucketOf(o) : o \in {x \in Objects : StoreOf(x) = store}})

(* Faulty: one short of the cap.                                           *)
CapShort(asked) == Lesser(asked, ListCap) - 1

(* The cap of a call; asked is not zero, which counts as not given.        *)
Cap(asked) == Lesser(asked, ListCap)

(* Those of some objects that are listed before o.                         *)
Before(o, listed) == {p \in listed : Rank[p] < Rank[o]}

(* objectstore_ingest_objects: the first page of what matches a prefix,    *)
(* whatever is left behind it.                                             *)
ToolIngestObjects(a, bucket, matched, asked) ==
    LET listed == In(bucket) \cap matched IN
    IngestObjects(a, bucket, {o \in listed : Cardinality(Before(o, listed)) < Cap(asked)})

-----------------------------------------------------------------------------
(* Other clients of the stores.                                            *)

OthersWrite(o) ==
    /\ clock < MaxTime
    /\ clock' = clock + 1
    /\ stamp' = [stamp EXCEPT ![o] = clock + 1]
    /\ UNCHANGED <<nodes, edges, call>>

OthersRemove(o) ==
    /\ stamp[o] # 0
    /\ stamp' = [stamp EXCEPT ![o] = 0]
    /\ UNCHANGED <<clock, nodes, edges, call>>

Init ==
    /\ clock = 0
    /\ stamp = [o \in Objects |-> 0]
    /\ nodes = [i \in Ids |-> Absent]
    /\ edges = {}
    /\ call = [a \in Agents |-> Idle]

Next ==
    \/ \E a \in Agents, o \in Objects :
         \/ ToolIngestBuckets(a, StoreOf(o))
         \/ \E matched \in SUBSET Objects, asked \in 1..ListCap :
              ToolIngestObjects(a, BucketOf(o), matched, asked)
    \/ \E a \in Agents : Commit(a) \/ Abandon(a)
    \/ \E o \in Objects : OthersWrite(o) \/ OthersRemove(o)

Spec == Init /\ [][Next]_vars

(* Somebody ingests each whole bucket again and again, and the engine does *)
(* not for ever reject what is awaited again and again; it always answers. *)
Fairness ==
    \A o \in Objects :
        /\ SF_vars(\E a \in Agents : ToolIngestObjects(a, BucketOf(o), Objects, ListCap))
        /\ SF_vars(\E a \in Agents : Commit(a) /\ Current(o) \in call[a].entities)
        /\ \A a \in Agents : WF_vars(Commit(a) \/ Abandon(a))

FairSpec == Spec /\ Fairness

-----------------------------------------------------------------------------
(* Every variable has its type.                                            *)
TypeOK ==
    /\ clock \in 0..MaxTime
    /\ stamp \in [Objects -> 0..MaxTime]
    /\ nodes \in [Ids -> Entity \cup {Absent}]
    /\ edges \subseteq Ids \X Ids
    /\ call \in [Agents -> Submitted \cup {Idle}]

(* Things of which another, in a store with a slash in its name, shares    *)
(* the identifier.                                                         *)
Confused(i) == \E t \in Things : Id(t) = i /\ Len(t.store) > 1

(* No relationship of the graph dangles, and one leads from an object to   *)
(* its bucket or from a bucket to its store, as long as no store's name    *)
(* holds a slash: whatever commits, fails and interleaves, and in whatever *)
(* order the two tools are used (kg_ingest.py ingest_buckets and           *)
(* ingest_objects: each change set brings both ends).                      *)
EdgesConnect == \A e \in edges :
    /\ Absent \notin {nodes[e[1]], nodes[e[2]]}
    /\ ~Confused(e[1]) /\ ~Confused(e[2]) =>
         nodes[e[2]].of = IF nodes[e[1]].of.kind = "Object" THEN BucketOf(nodes[e[1]].of)
                          ELSE StoreOf(nodes[e[1]].of)

(* What the graph has under the identifier of an object is of that object, *)
(* so that two objects never share a node, but for a store whose name      *)
(* holds a slash (kg_ingest.py _object_id).                                *)
NodesAreOwn == \A t \in Things :
    nodes[Id(t)] = Absent \/ nodes[Id(t)].of = t \/ Confused(Id(t))

(* The node of an object goes back to an earlier state of it only if       *)
(* another ingestion committed that node while the one that sets it back   *)
(* was awaited (objectstore_ingest_objects, the await of ingest_objects).  *)
BackOnlyWhenOvertaken ==
    [][\A i \in Ids :
         /\ nodes[i] # Absent /\ nodes'[i] # Absent
         /\ nodes'[i].of = nodes[i].of
         /\ nodes'[i].stamp < nodes[i].stamp
         => \E a \in Agents : call[a] # Idle /\ call'[a] = Idle /\ i \in call[a].stale]_vars

(* When the store is left alone, the graph in the end has as it is in the  *)
(* store each object that a first page of its bucket comes to, also in a   *)
(* bucket with more objects than a page holds (objectstore_ingest_objects: *)
(* the cap cuts the rest off for good, and nothing else).                  *)
GraphCatchesUp == \A o \in Objects :
    <>[](\/ stamp[o] = 0 \/ Confused(Id(o))
         \/ Cardinality(Before(o, In(BucketOf(o)))) >= ListCap
         \/ nodes[Id(o)] = Current(o))

(* A relationship as the change sets have it.                              *)
Linked(e) == \E t \in Things :
    \/ t.kind = "Object" /\ e = <<Id(t), Id(BucketOf(t))>>
    \/ t.kind = "Bucket" /\ e = <<Id(t), Id(StoreOf(t))>>

(* The inductive invariant: nodes are filed under their identifiers, no    *)
(* relationship comes without its ends, and nothing listed is newer than   *)
(* the store, nor older than the graph unless others have committed it.    *)
Filed ==
    /\ \A i \in Ids : nodes[i] # Absent => Id(nodes[i].of) = i
    /\ \A e \in edges : Linked(e) /\ Absent \notin {nodes[e[1]], nodes[e[2]]}
    /\ \A a \in Agents : call[a] # Idle => \A e \in call[a].edges :
         Linked(e) /\ {e[1], e[2]} \subseteq {Id(x.of) : x \in call[a].entities}

Dated(x) ==
    /\ x.stamp <= clock
    /\ x.of \notin Objects => x.stamp = 0
    /\ x.of \in Objects => stamp[x.of] = 0 \/ x.stamp <= stamp[x.of]

Timely ==
    /\ \A o \in Objects : stamp[o] <= clock
    /\ \A i \in Ids : nodes[i] # Absent => Dated(nodes[i])
    /\ \A a \in Agents : call[a] # Idle => \A x \in call[a].entities :
         /\ Dated(x)
         /\ Id(x.of) \in call[a].stale \/ nodes[Id(x.of)] = Absent
               \/ nodes[Id(x.of)].of # x.of \/ nodes[Id(x.of)].stamp <= x.stamp

IInv == TypeOK /\ Filed /\ Timely

=============================================================================
