--------------------------- MODULE KgIngestProofs ---------------------------
(* The proofs about KgIngest.                                              *)
EXTENDS KgIngest, SequenceTheorems, TLAPS

LEMMA EmptyName == <<>> \in Name /\ Len(<<>>) = 0
BY EmptySeq DEF Name

(* What objects, buckets and stores are made of.                           *)
LEMMA ThingParts ==
    ASSUME NEW t \in Things
    PROVE  /\ t \in Thing
           /\ t.kind = "Object" <=> t \in Objects
           /\ Len(t.bucket) = IF t.kind = "ObjectStore" THEN 0 ELSE 1
<1>1. CASE t \in Objects
  BY <1>1, KgAssumption
<1>2. ASSUME NEW o \in Objects, t = BucketOf(o)
      PROVE  t \in Thing /\ t.kind = "Bucket" /\ Len(t.bucket) = 1
  BY <1>2, EmptyName, KgAssumption DEF Thing, Kinds, BucketOf
<1>3. ASSUME NEW o \in Objects, t = StoreOf(o)
      PROVE  t \in Thing /\ t.kind = "ObjectStore" /\ Len(t.bucket) = 0
  BY <1>3, EmptyName, KgAssumption DEF Thing, Kinds, StoreOf
<1>4. \A o \in Objects : o.kind = "Object"
  BY KgAssumption
<1>5. t \in Objects \/ (\E o \in Objects : t = BucketOf(o)) \/ \E o \in Objects : t = StoreOf(o)
  BY DEF Things
<1>6. CASE t \notin Objects
  BY <1>2, <1>3, <1>4, <1>5, <1>6
<1> QED BY <1>1, <1>4, <1>6, KgAssumption

(* An object, its bucket and its store are things.                         *)
LEMMA ThingKinds ==
    /\ \A o \in Objects : /\ o.kind = "Object"
                          /\ o \in Things /\ BucketOf(o) \in Things /\ StoreOf(o) \in Things
                          /\ BucketOf(o).kind = "Bucket" /\ StoreOf(BucketOf(o)) = StoreOf(o)
    /\ \A t \in Things : t.kind = "Bucket" => StoreOf(t) \in Things
<1>1. \A o \in Objects : /\ o.kind = "Object"
                         /\ o \in Things /\ BucketOf(o) \in Things /\ StoreOf(o) \in Things
                         /\ BucketOf(o).kind = "Bucket" /\ StoreOf(BucketOf(o)) = StoreOf(o)
                         /\ StoreOf(o).kind = "ObjectStore"
  BY KgAssumption DEF Things, BucketOf, StoreOf
<1>2. ASSUME NEW t \in Things, t.kind = "Bucket" PROVE StoreOf(t) \in Things
  <2>1. PICK o \in Objects : t \in {o, BucketOf(o), StoreOf(o)}
    BY DEF Things
  <2> QED BY <1>1, <1>2, <2>1
<1> QED BY <1>1, <1>2

(* Joined sequences are equal piece by piece when the pieces before the    *)
(* last have the same lengths.                                             *)
LEMMA JoinInjective ==
    ASSUME NEW S, NEW a \in Seq(S), NEW b \in Seq(S), NEW c \in Seq(S), NEW d \in Seq(S),
           Len(a) = Len(c), a \o b = c \o d
    PROVE  a = c /\ b = d
<1>0. Len(a) \in Nat /\ Len(b) \in Nat /\ Len(d) \in Nat
  BY LenProperties
<1>1. Len(a \o b) = Len(a) + Len(b) /\ Len(c \o d) = Len(c) + Len(d)
  BY ConcatProperties
<1>2. Len(b) = Len(d)
  BY <1>0, <1>1
<1>3. ASSUME NEW i \in 1..Len(a) PROVE a[i] = c[i]
  <2>1. (a \o b)[i] = a[i] /\ (c \o d)[i] = c[i]
    BY <1>0, ConcatProperties
  <2> QED BY <2>1
<1>4. ASSUME NEW i \in 1..Len(b) PROVE b[i] = d[i]
  <2> DEFINE j == Len(a) + i
  <2>0. j \in 1..(Len(a) + Len(b)) /\ ~(j <= Len(a)) /\ j - Len(a) = i
    BY <1>0
  <2>1. (a \o b)[j] = b[j - Len(a)]
    <3> HIDE DEF j
    <3> QED BY <2>0, ConcatProperties
  <2>2. (c \o d)[j] = d[j - Len(a)]
    <3> HIDE DEF j
    <3> QED BY <1>2, <2>0, ConcatProperties
  <2> QED BY <2>0, <2>1, <2>2
<1>5. a = c
  BY <1>3, SeqEqual
<1>6. b = d
  BY <1>2, <1>4, SeqEqual
<1> QED BY <1>5, <1>6

LEMMA OneSegment ==
    ASSUME NEW S, NEW x \in S
    PROVE  <<x>> \in Seq(S) /\ Len(<<x>>) = 1 /\ <<x>>[1] = x
OBVIOUS

(* A joined sequence begins as its first piece does.                       *)
LEMMA JoinFirst ==
    ASSUME NEW S, NEW a \in Seq(S), NEW b \in Seq(S), Len(a) > 0
    PROVE  /\ Len(a \o b) > 0 /\ (a \o b)[1] = a[1] /\ a \o b \in Seq(S)
           /\ Len(a \o b) = Len(a) + Len(b)
<1>1. Len(a) \in Nat /\ Len(b) \in Nat
  BY LenProperties
<1>2. 1 \in 1..(Len(a) + Len(b)) /\ 1 <= Len(a)
  BY <1>1
<1> QED BY <1>1, <1>2, ConcatProperties

(* Identifiers of stores whose names hold no slash are of one thing only.  *)
LEMMA IdInjective ==
    ASSUME NEW t \in Things, NEW u \in Things, Id(t) = Id(u),
           Len(t.store) = Len(u.store)
    PROVE  t = u
<1>1. t \in Thing /\ u \in Thing
  BY ThingParts
<1>2. /\ t = [kind |-> t.kind, store |-> t.store, bucket |-> t.bucket, key |-> t.key]
      /\ u = [kind |-> u.kind, store |-> u.store, bucket |-> u.bucket, key |-> u.key]
      /\ t.store \in Name /\ t.bucket \in Name /\ t.key \in Name
      /\ u.store \in Name /\ u.bucket \in Name /\ u.key \in Name
  BY <1>1 DEF Thing
<1>3. t.kind \in Segments \cup Kinds /\ u.kind \in Segments \cup Kinds
  BY <1>1 DEF Thing
<1>4. /\ <<t.kind>> \in Name /\ <<u.kind>> \in Name
      /\ Len(<<t.kind>>) = 1 /\ Len(<<u.kind>>) = 1
      /\ <<t.kind>>[1] = t.kind /\ <<u.kind>>[1] = u.kind
  BY <1>3, OneSegment DEF Name
<1>5. t.kind = u.kind => Len(t.bucket) = Len(u.bucket)
  BY ThingParts
<1> DEFINE W == Segments \cup Kinds
           tk == <<t.kind>>
           ts == t.store
           tb == t.bucket
           ty == t.key
           uk == <<u.kind>>
           us == u.store
           ub == u.bucket
           uy == u.key
<1>6. tk \o ts \o tb \o ty = uk \o us \o ub \o uy
  BY DEF Id
<1>7. /\ tk \in Seq(W) /\ ts \in Seq(W) /\ tb \in Seq(W) /\ ty \in Seq(W)
      /\ uk \in Seq(W) /\ us \in Seq(W) /\ ub \in Seq(W) /\ uy \in Seq(W)
      /\ Len(tk) = 1 /\ Len(uk) = 1 /\ Len(ts) = Len(us)
      /\ tk[1] = uk[1] => Len(tb) = Len(ub)
      /\ tk[1] = uk[1] => t.kind = u.kind
  BY <1>2, <1>4, <1>5 DEF Name
<1>8. tk[1] = uk[1] /\ ts = us /\ tb = ub /\ ty = uy
  <2> HIDE DEF W, tk, ts, tb, ty, uk, us, ub, uy
  <2> DEFINE A2 == tk \o ts
             B2 == uk \o us
             A3 == A2 \o tb
             B3 == B2 \o ub
  <2>0. Len(tk) \in Nat /\ Len(ts) \in Nat /\ Len(tb) \in Nat /\ Len(ub) \in Nat
        /\ Len(tk) > 0 /\ Len(uk) > 0
    BY <1>7, LenProperties
  <2>1. A2 \in Seq(W) /\ Len(A2) > 0 /\ A2[1] = tk[1] /\ Len(A2) = Len(tk) + Len(ts)
    BY <1>7, <2>0, JoinFirst, Zenon
  <2>2. B2 \in Seq(W) /\ Len(B2) > 0 /\ B2[1] = uk[1] /\ Len(B2) = Len(uk) + Len(us)
    BY <1>7, <2>0, JoinFirst, Zenon
  <2>3. A2 = B2 => ts = us
    BY <1>7, JoinInjective
  <2>4. A3 \o ty = B3 \o uy
    BY <1>6
  <2> HIDE DEF A2, B2
  <2>5. A3 \in Seq(W) /\ Len(A3) > 0 /\ A3[1] = tk[1] /\ Len(A3) = Len(A2) + Len(tb)
    <3>1. A3 \in Seq(W) /\ Len(A3) > 0 /\ A3[1] = A2[1] /\ Len(A3) = Len(A2) + Len(tb)
      BY <1>7, <2>1, JoinFirst, Zenon
    <3> QED BY <2>1, <3>1
  <2>6. B3 \in Seq(W) /\ Len(B3) > 0 /\ B3[1] = uk[1] /\ Len(B3) = Len(B2) + Len(ub)
    <3>1. B3 \in Seq(W) /\ Len(B3) > 0 /\ B3[1] = B2[1] /\ Len(B3) = Len(B2) + Len(ub)
      BY <1>7, <2>2, JoinFirst, Zenon
    <3> QED BY <2>2, <3>1
  <2>7. Len(A2) = Len(B2) /\ (A3 = B3 /\ Len(tb) = Len(ub) => A2 = B2 /\ tb = ub)
    <3>1. Len(A2) = Len(B2)
      BY <1>7, <2>1, <2>2
    <3> QED BY <1>7, <2>1, <2>2, <3>1, JoinInjective
  <2> HIDE DEF A3, B3
  <2>8. tk[1] = uk[1]
    <3>1. (A3 \o ty)[1] = tk[1]
      BY <1>7, <2>5, JoinFirst
    <3>2. (B3 \o uy)[1] = uk[1]
      BY <1>7, <2>6, JoinFirst
    <3> QED BY <2>4, <3>1, <3>2
  <2>9. A3 = B3 /\ ty = uy
    <3>1. Len(A3) = Len(B3)
      BY <1>7, <2>5, <2>6, <2>7, <2>8
    <3> QED BY <1>7, <2>4, <2>5, <2>6, <3>1, JoinInjective
  <2> QED BY <1>7, <2>3, <2>7, <2>8, <2>9
<1> QED BY <1>2, <1>7, <1>8

-----------------------------------------------------------------------------
(* The inductive invariant.                                                *)

(* A change set of which the invariant survives the submission.            *)
Sound(entities, relationships) ==
    /\ entities \subseteq Entity
    /\ relationships \subseteq Ids \X Ids
    /\ \A e \in relationships :
         Linked(e) /\ {e[1], e[2]} \subseteq {Id(x.of) : x \in entities}
    /\ \A x \in entities : Dated(x) /\ (x.of \in Objects => stamp[x.of] = x.stamp /\ x.stamp # 0)

LEMMA SubmitKeeps ==
    ASSUME IInv, NEW a \in Agents, NEW entities, NEW relationships,
           Sound(entities, relationships), IngestEntities(a, entities, relationships)
    PROVE  IInv'
<1> DEFINE new == [entities |-> entities, edges |-> relationships, stale |-> {}]
<1>1. /\ UNCHANGED <<clock, stamp, nodes, edges>>
      /\ call' = [call EXCEPT ![a] = new]
      /\ call \in [Agents -> Submitted \cup {Idle}]
  BY DEF IngestEntities, IInv, TypeOK
<1>2. new \in Submitted
  BY DEF Sound, Submitted
<1>3. \A x \in entities : nodes[Id(x.of)] = Absent
               \/ nodes[Id(x.of)].of # x.of \/ nodes[Id(x.of)].stamp <= x.stamp
  <2> SUFFICES ASSUME NEW x \in entities, nodes[Id(x.of)] # Absent,
                      nodes[Id(x.of)].of = x.of
               PROVE  nodes[Id(x.of)].stamp <= x.stamp
    OBVIOUS
  <2>1. x \in Entity /\ Id(x.of) \in Ids
    BY DEF Sound, Entity, Ids
  <2>2. Dated(nodes[Id(x.of)])
    BY <2>1 DEF IInv, Timely
  <2>3. x.stamp \in Nat
    BY <2>1, KgAssumption DEF Entity
  <2> QED BY <2>1, <2>2, <2>3 DEF Dated, Sound
<1>4. TypeOK'
  BY <1>1, <1>2 DEF IInv, TypeOK
<1>5. /\ new.entities = entities /\ new.edges = relationships /\ new.stale = {}
  OBVIOUS
<1> HIDE DEF new
<1>6. \A y \in Agents : call'[y] = IF y = a THEN new ELSE call[y]
  BY <1>1
<1>7. Filed'
  BY <1>1, <1>5, <1>6 DEF IInv, Filed, Sound, Linked
<1>8. Timely'
  <2>1. \A y \in Agents : call'[y] # Idle => \A x \in call'[y].entities :
         /\ Dated(x)
         /\ Id(x.of) \in call'[y].stale \/ nodes[Id(x.of)] = Absent
               \/ nodes[Id(x.of)].of # x.of \/ nodes[Id(x.of)].stamp <= x.stamp
    BY <1>3, <1>5, <1>6 DEF IInv, Timely, Sound
  <2> QED BY <1>1, <2>1 DEF IInv, Timely, Dated
<1> QED BY <1>4, <1>7, <1>8 DEF IInv

LEMMA BucketsSound ==
    ASSUME IInv, NEW o \in Objects
    PROVE  LET buckets == {BucketOf(p) : p \in {x \in Objects : StoreOf(x) = StoreOf(o)}} IN
           Sound({Plain(t) : t \in {StoreOf(o)} \cup buckets},
                 {<<Id(b), Id(StoreOf(o))>> : b \in buckets})
<1> DEFINE buckets == {BucketOf(p) : p \in {x \in Objects : StoreOf(x) = StoreOf(o)}}
           ts == {StoreOf(o)} \cup buckets
           entities == {Plain(t) : t \in ts}
           relationships == {<<Id(b), Id(StoreOf(o))>> : b \in buckets}
<1>1. \A b \in buckets : b \in Things /\ b.kind = "Bucket" /\ StoreOf(b) = StoreOf(o)
  BY ThingKinds
<1>2. StoreOf(o) \in Things /\ StoreOf(o).kind = "ObjectStore"
  BY ThingKinds DEF StoreOf
<1>3. \A t \in ts : t \in Things /\ t \notin Objects
  BY <1>1, <1>2, ThingKinds
<1> HIDE DEF buckets
<1>4. entities \subseteq Entity
  BY <1>3, KgAssumption DEF Plain, Entity
<1>5. relationships \subseteq Ids \X Ids
  BY <1>1, <1>2 DEF Ids
<1>6. ASSUME NEW e \in relationships
      PROVE  Linked(e) /\ {e[1], e[2]} \subseteq {Id(x.of) : x \in entities}
  <2>1. PICK b \in buckets : e = <<Id(b), Id(StoreOf(o))>>
    OBVIOUS
  <2>2. Plain(b) \in entities /\ Plain(StoreOf(o)) \in entities
    BY <2>1
  <2>3. Plain(b).of = b /\ Plain(StoreOf(o)).of = StoreOf(o)
    BY DEF Plain
  <2>4. {e[1], e[2]} \subseteq {Id(x.of) : x \in entities}
    <3> HIDE DEF entities
    <3> QED BY <2>1, <2>2, <2>3
  <2>5. Linked(e)
    BY <1>1, <2>1 DEF Linked
  <2> QED BY <2>4, <2>5
<1>7. \A x \in entities : Dated(x) /\ (x.of \in Objects => stamp[x.of] = x.stamp /\ x.stamp # 0)
  BY <1>3, KgAssumption DEF Plain, Dated, IInv, TypeOK
<1> QED BY <1>4, <1>5, <1>6, <1>7 DEF Sound, buckets

LEMMA PageSound ==
    ASSUME IInv, NEW o \in Objects, NEW page \in SUBSET In(BucketOf(o))
    PROVE  Sound({Plain(BucketOf(o))} \cup {Current(p) : p \in page},
                 {<<Id(p), Id(BucketOf(o))>> : p \in page})
<1> DEFINE bucket == BucketOf(o)
           entities == {Plain(bucket)} \cup {Current(p) : p \in page}
           relationships == {<<Id(p), Id(bucket)>> : p \in page}
<1>1. \A p \in page : /\ p \in Objects /\ p \in Things /\ BucketOf(p) = bucket
                      /\ stamp[p] # 0 /\ p.kind = "Object"
  BY ThingKinds DEF In
<1>2. bucket \in Things /\ bucket \notin Objects
  BY ThingKinds
<1>3. stamp \in [Objects -> 0..MaxTime] /\ clock \in Nat /\ \A p \in Objects : stamp[p] <= clock
  BY KgAssumption DEF IInv, TypeOK, Timely
<1> HIDE DEF bucket
<1>4. entities \subseteq Entity
  BY <1>1, <1>2, <1>3, KgAssumption DEF Plain, Current, Entity
<1>5. relationships \subseteq Ids \X Ids
  BY <1>1, <1>2 DEF Ids
<1>6. ASSUME NEW e \in relationships
      PROVE  Linked(e) /\ {e[1], e[2]} \subseteq {Id(x.of) : x \in entities}
  <2>1. PICK p \in page : e = <<Id(p), Id(bucket)>>
    OBVIOUS
  <2>2. Current(p) \in entities /\ Plain(bucket) \in entities
    BY <2>1
  <2>3. Current(p).of = p /\ Plain(bucket).of = bucket
    BY DEF Plain, Current
  <2>4. {e[1], e[2]} \subseteq {Id(x.of) : x \in entities}
    <3> HIDE DEF entities
    <3> QED BY <2>1, <2>2, <2>3
  <2>5. Linked(e)
    BY <1>1, <2>1 DEF Linked
  <2> QED BY <2>4, <2>5
<1>7. ASSUME NEW x \in entities
      PROVE  Dated(x) /\ (x.of \in Objects => stamp[x.of] = x.stamp /\ x.stamp # 0)
  <2>1. CASE x = Plain(bucket)
    BY <1>2, <1>3, <2>1 DEF Plain, Dated
  <2>2. ASSUME NEW p \in page, x = Current(p)
        PROVE  Dated(x) /\ (x.of \in Objects => stamp[x.of] = x.stamp /\ x.stamp # 0)
    <3>1. x.of = p /\ x.stamp = stamp[p]
      BY <2>2 DEF Current
    <3> QED BY <1>1, <1>3, <3>1 DEF Dated
  <2> QED BY <2>1, <2>2
<1> QED BY <1>4, <1>5, <1>6, <1>7 DEF Sound, bucket

LEMMA AbsentIsNoEntity == Absent \notin Entity
BY KgAssumption

LEMMA CommitKeeps ==
    ASSUME IInv, NEW a \in Agents, Commit(a)
    PROVE  IInv'
<1> DEFINE new(i) == {e \in call[a].entities : Id(e.of) = i}
           ids == {Id(e.of) : e \in call[a].entities}
<1>1. /\ call[a] # Idle
      /\ nodes' = [i \in Ids |-> IF new(i) = {} THEN nodes[i] ELSE CHOOSE e \in new(i) : TRUE]
      /\ call' = [x \in Agents |-> IF x = a \/ call[x] = Idle THEN Idle
                                   ELSE [call[x] EXCEPT !.stale = @ \cup ids]]
      /\ edges' = edges \cup call[a].edges
      /\ UNCHANGED <<clock, stamp>>
  BY DEF Commit
<1>2. call[a] \in Submitted
  BY <1>1 DEF IInv, TypeOK
<1>3. call[a].entities \subseteq Entity /\ call[a].edges \subseteq Ids \X Ids
  BY <1>2 DEF Submitted
<1>4. ids \subseteq Ids
  BY <1>3 DEF Entity, Ids
<1>5. \A i \in Ids : \/ i \notin ids /\ nodes'[i] = nodes[i]
                     \/ i \in ids /\ nodes'[i] \in call[a].entities /\ Id(nodes'[i].of) = i
  BY <1>1
<1> HIDE DEF new
<1>7. TypeOK'
  <2>1. nodes' \in [Ids -> Entity \cup {Absent}]
    BY <1>1, <1>3, <1>5 DEF IInv, TypeOK
  <2>2. edges' \subseteq Ids \X Ids
    BY <1>1, <1>3 DEF IInv, TypeOK
  <2>3. ASSUME NEW x \in Agents, call[x] # Idle
        PROVE  [call[x] EXCEPT !.stale = @ \cup ids] \in Submitted
    <3>1. call[x] \in Submitted
      BY <2>3 DEF IInv, TypeOK
    <3> HIDE DEF ids
    <3> QED BY <1>4, <3>1 DEF Submitted
  <2>4. call' \in [Agents -> Submitted \cup {Idle}]
    <3> HIDE DEF ids
    <3> QED BY <1>1, <2>3
  <2> QED BY <1>1, <2>1, <2>2, <2>4 DEF IInv, TypeOK
<1>8. \A y \in Agents : call'[y] # Idle =>
        /\ call[y] # Idle
        /\ call'[y].entities = call[y].entities /\ call'[y].edges = call[y].edges
        /\ call'[y].stale = call[y].stale \cup ids
  <2> SUFFICES ASSUME NEW y \in Agents, call'[y] # Idle
               PROVE  /\ call[y] # Idle
                      /\ call'[y].entities = call[y].entities
                      /\ call'[y].edges = call[y].edges
                      /\ call'[y].stale = call[y].stale \cup ids
    OBVIOUS
  <2> HIDE DEF ids
  <2>1. call[y] # Idle /\ call'[y] = [call[y] EXCEPT !.stale = @ \cup ids]
    BY <1>1
  <2>2. call[y] \in Submitted
    BY <2>1 DEF IInv, TypeOK
  <2> QED BY <2>1, <2>2 DEF Submitted
<1>9. Filed'
  <2>1. \A i \in Ids : nodes'[i] # Absent => Id(nodes'[i].of) = i
    BY <1>5 DEF IInv, Filed
  <2>2. ASSUME NEW e \in edges' PROVE Linked(e) /\ Absent \notin {nodes'[e[1]], nodes'[e[2]]}
    <3>1. e[1] \in Ids /\ e[2] \in Ids
      BY <1>7 DEF TypeOK
    <3>2. CASE e \in call[a].edges
      BY <1>1, <1>5, <3>1, <3>2, AbsentIsNoEntity, <1>3 DEF IInv, Filed
    <3>3. CASE e \in edges
      BY <1>3, <1>5, <3>1, <3>3, AbsentIsNoEntity DEF IInv, Filed
    <3> QED BY <1>1, <3>2, <3>3
  <2>3. \A y \in Agents : call'[y] # Idle => \A e \in call'[y].edges :
         Linked(e) /\ {e[1], e[2]} \subseteq {Id(x.of) : x \in call'[y].entities}
    BY <1>8 DEF IInv, Filed
  <2> QED BY <2>1, <2>2, <2>3 DEF Filed, Linked
<1>10. Timely'
  <2>1. \A i \in Ids : nodes'[i] # Absent => Dated(nodes'[i])
    BY <1>1, <1>5 DEF IInv, Timely
  <2>2. ASSUME NEW y \in Agents, call'[y] # Idle, NEW x \in call'[y].entities
        PROVE  /\ Dated(x)
               /\ Id(x.of) \in call'[y].stale \/ nodes'[Id(x.of)] = Absent
                    \/ nodes'[Id(x.of)].of # x.of \/ nodes'[Id(x.of)].stamp <= x.stamp
    <3>1. x \in call[y].entities /\ call[y] # Idle /\ call'[y].stale = call[y].stale \cup ids
      BY <1>8, <2>2
    <3>2. Id(x.of) \in Ids
      BY <1>7, <2>2 DEF TypeOK, Submitted, Entity, Ids
    <3> QED BY <1>5, <3>1, <3>2 DEF IInv, Timely
  <2> QED BY <1>1, <2>1, <2>2 DEF IInv, Timely, Dated
<1> QED BY <1>7, <1>9, <1>10 DEF IInv

LEMMA AbandonKeeps ==
    ASSUME IInv, NEW a \in Agents, Abandon(a)
    PROVE  IInv'
<1>1. /\ UNCHANGED <<clock, stamp, nodes, edges>>
      /\ \A y \in Agents : call'[y] \in {call[y], Idle}
      /\ call' \in [Agents -> Submitted \cup {Idle}]
  BY DEF Abandon, IInv, TypeOK
<1>2. TypeOK'
  BY <1>1 DEF IInv, TypeOK
<1>3. Filed'
  BY <1>1 DEF IInv, Filed, Linked
<1>4. Timely'
  BY <1>1 DEF IInv, Timely, Dated
<1> QED BY <1>2, <1>3, <1>4 DEF IInv

LEMMA OthersKeepAll ==
    ASSUME IInv, NEW o \in Objects, OthersWrite(o) \/ OthersRemove(o)
    PROVE  IInv'
<1>1. /\ UNCHANGED <<nodes, edges, call>>
      /\ clock' \in 0..MaxTime /\ clock \in Nat /\ clock' \in Nat /\ clock <= clock'
      /\ stamp \in [Objects -> 0..MaxTime]
      /\ stamp' \in [Objects -> 0..MaxTime]
      /\ \A p \in Objects : p # o => stamp'[p] = stamp[p]
      /\ stamp'[o] = 0 \/ (stamp'[o] = clock' /\ clock' = clock + 1)
  <2>1. MaxTime \in Nat
    BY KgAssumption
  <2> QED BY <2>1 DEF OthersWrite, OthersRemove, IInv, TypeOK
<1>2. TypeOK'
  BY <1>1 DEF IInv, TypeOK
<1>3. Filed'
  BY <1>1 DEF IInv, Filed, Linked
<1>4. ASSUME NEW x \in Entity, Dated(x) PROVE Dated(x)'
  <2>1. x.stamp \in Nat
    BY KgAssumption DEF Entity
  <2> QED BY <1>1, <1>4, <2>1 DEF Dated
<1>5. \A i \in Ids : nodes[i] # Absent => nodes[i] \in Entity
  BY DEF IInv, TypeOK
<1>6. \A y \in Agents : call[y] # Idle => call[y].entities \subseteq Entity
  BY DEF IInv, TypeOK, Submitted
<1>7. \A p \in Objects : stamp'[p] <= clock'
  BY <1>1 DEF IInv, Timely
<1>8. Timely'
  BY <1>1, <1>4, <1>5, <1>6, <1>7 DEF IInv, Timely
<1> QED BY <1>2, <1>3, <1>8 DEF IInv

(* What the graph has is filed under its identifiers, whole and dated.     *)
THEOREM KgInvariance == Spec => []IInv
<1>1. Init => IInv
  BY KgAssumption DEF Init, IInv, TypeOK, Filed, Timely, Submitted
<1>2. IInv /\ [Next]_vars => IInv'
  <2> SUFFICES ASSUME IInv, [Next]_vars PROVE IInv'
    OBVIOUS
  <2>1. ASSUME NEW a \in Agents, NEW o \in Objects, ToolIngestBuckets(a, StoreOf(o))
        PROVE  IInv'
    BY <2>1, BucketsSound, SubmitKeeps DEF ToolIngestBuckets, IngestBuckets
  <2>2. ASSUME NEW a \in Agents, NEW o \in Objects, NEW matched, NEW asked,
               ToolIngestObjects(a, BucketOf(o), matched, asked)
        PROVE  IInv'
    <3>1. PICK page \in SUBSET In(BucketOf(o)) : IngestObjects(a, BucketOf(o), page)
      BY <2>2 DEF ToolIngestObjects
    <3> QED BY <3>1, PageSound, SubmitKeeps DEF IngestObjects
  <2>3. CASE UNCHANGED vars
    BY <2>3 DEF vars, IInv, TypeOK, Filed, Timely, Dated, Linked
  <2> QED BY <2>1, <2>2, <2>3, CommitKeeps, AbandonKeeps, OthersKeepAll DEF Next
<1> QED BY <1>1, <1>2, PTL DEF Spec

(* The types.                                                              *)
THEOREM KgTypeCorrect == Spec => []TypeOK
BY KgInvariance, PTL DEF IInv

LEMMA StoreIsNamed == \A t \in Things : Len(t.store) \in Nat \ {0}
<1> SUFFICES ASSUME NEW t \in Things PROVE Len(t.store) \in Nat /\ Len(t.store) > 0
  OBVIOUS
<1>1. PICK o \in Objects : t \in {o, BucketOf(o), StoreOf(o)}
  BY DEF Things
<1>2. t.store = o.store
  BY <1>1 DEF BucketOf, StoreOf
<1>3. o.store \in Name /\ Len(o.store) > 0
  BY KgAssumption DEF Thing
<1> QED BY <1>2, <1>3, LenProperties DEF Name

(* What is filed under an identifier that no slash confuses is of that     *)
(* thing alone.                                                            *)
LEMMA FiledAlone ==
    ASSUME NEW t \in Things, NEW u \in Things, Id(u) = Id(t), ~Confused(Id(t))
    PROVE  u = t
<1>1. Len(t.store) = 1 /\ Len(u.store) = 1
  <2>1. ~(Len(t.store) > 1) /\ ~(Len(u.store) > 1)
    BY DEF Confused
  <2>2. Len(t.store) \in Nat \ {0} /\ Len(u.store) \in Nat \ {0}
    BY StoreIsNamed
  <2>3. \A n \in Nat \ {0} : ~(n > 1) => n = 1
    OBVIOUS
  <2> QED BY <2>1, <2>2, <2>3, Zenon
<1> QED BY <1>1, IdInjective

LEMMA FiledAreOwn == ASSUME IInv PROVE NodesAreOwn
<1> SUFFICES ASSUME NEW t \in Things, nodes[Id(t)] # Absent, ~Confused(Id(t))
             PROVE  nodes[Id(t)].of = t
  BY DEF NodesAreOwn
<1>1. Id(t) \in Ids
  BY DEF Ids
<1>2. nodes[Id(t)].of \in Things /\ Id(nodes[Id(t)].of) = Id(t)
  BY <1>1 DEF IInv, TypeOK, Filed, Entity
<1> QED BY <1>2, FiledAlone

(* Only its own objects' metadata is under an identifier, stores whose     *)
(* names hold slashes excepted.                                            *)
THEOREM NodesAreTheirOwn == Spec => []NodesAreOwn
BY KgInvariance, FiledAreOwn, PTL

(* Both ends of every relationship are in the graph, and they belong       *)
(* together.                                                               *)
THEOREM EdgesAreConnected == Spec => []EdgesConnect
<1>1. ASSUME IInv PROVE EdgesConnect
  <2> SUFFICES ASSUME NEW e \in edges
               PROVE  /\ Absent \notin {nodes[e[1]], nodes[e[2]]}
                      /\ ~Confused(e[1]) /\ ~Confused(e[2]) =>
                           nodes[e[2]].of = IF nodes[e[1]].of.kind = "Object"
                                            THEN BucketOf(nodes[e[1]].of)
                                            ELSE StoreOf(nodes[e[1]].of)
    BY DEF EdgesConnect
  <2>1. Linked(e) /\ Absent \notin {nodes[e[1]], nodes[e[2]]}
    BY <1>1 DEF IInv, Filed
  <2>2. PICK t \in Things :
          \/ t.kind = "Object" /\ e = <<Id(t), Id(BucketOf(t))>>
          \/ t.kind = "Bucket" /\ e = <<Id(t), Id(StoreOf(t))>>
    BY <2>1 DEF Linked
  <2>3. NodesAreOwn
    BY <1>1, FiledAreOwn
  <2>4. (t.kind = "Object" => BucketOf(t) \in Things) /\ (t.kind = "Bucket" => StoreOf(t) \in Things)
    BY ThingKinds, ThingParts
  <2> QED BY <2>1, <2>2, <2>3, <2>4 DEF NodesAreOwn
<1> QED BY <1>1, KgInvariance, PTL

(* A node goes back in time only when it was overtaken.                    *)
THEOREM NodesGoBackOnlyWhenOvertaken == Spec => BackOnlyWhenOvertaken
<1> DEFINE Back(i) ==
      (/\ nodes[i] # Absent /\ nodes'[i] # Absent
       /\ nodes'[i].of = nodes[i].of
       /\ nodes'[i].stamp < nodes[i].stamp)
      => \E a \in Agents : call[a] # Idle /\ call'[a] = Idle /\ i \in call[a].stale
<1>1. ASSUME IInv, [Next]_vars, NEW i \in Ids PROVE Back(i)
  <2> SUFFICES ASSUME nodes[i] # Absent, nodes'[i] # Absent,
                      nodes'[i].of = nodes[i].of, nodes'[i].stamp < nodes[i].stamp
               PROVE  \E a \in Agents : call[a] # Idle /\ call'[a] = Idle /\ i \in call[a].stale
    OBVIOUS
  <2>1. nodes[i] \in Entity /\ nodes[i].stamp \in Nat
    BY <1>1, KgAssumption DEF IInv, TypeOK, Entity
  <2>2. nodes' # nodes
    BY <2>1
  <2>3. PICK a \in Agents : Commit(a)
    BY <1>1, <2>2 DEF Next, vars, ToolIngestBuckets, IngestBuckets, ToolIngestObjects,
                      IngestObjects, IngestEntities, Abandon, OthersWrite, OthersRemove
  <2>4. call[a] # Idle /\ call'[a] = Idle
    BY <2>3 DEF Commit
  <2>5. nodes'[i] = nodes[i] \/ (nodes'[i] \in call[a].entities /\ Id(nodes'[i].of) = i)
    BY <2>3 DEF Commit
  <2>6. nodes'[i] \in call[a].entities /\ Id(nodes'[i].of) = i
    BY <2>1, <2>5
  <2>7. nodes'[i].stamp \in Nat
    BY <1>1, <2>4, <2>6, KgAssumption DEF IInv, TypeOK, Submitted, Entity
  <2>8. i \in call[a].stale
    BY <1>1, <2>1, <2>4, <2>6, <2>7 DEF IInv, Timely
  <2> QED BY <2>4, <2>8
<1>2. IInv /\ [Next]_vars =>
        [\A i \in Ids :
         /\ nodes[i] # Absent /\ nodes'[i] # Absent
         /\ nodes'[i].of = nodes[i].of
         /\ nodes'[i].stamp < nodes[i].stamp
         => \E a \in Agents : call[a] # Idle /\ call'[a] = Idle /\ i \in call[a].stale]_vars
  BY <1>1
<1> QED BY <1>2, KgInvariance, PTL DEF Spec, BackOnlyWhenOvertaken

-----------------------------------------------------------------------------
(* The steps by which the graph catches up, and stays caught up.           *)

(* A change set has one record of each thing.                              *)
OneEach == \A a \in Agents : call[a] # Idle =>
    \A x, y \in call[a].entities : x.of = y.of => x = y

LEMMA OnlyCommitsChangeNodes ==
    ASSUME [Next]_vars, nodes' # nodes
    PROVE  \E a \in Agents : Commit(a)
BY DEF Next, vars, ToolIngestBuckets, IngestBuckets, ToolIngestObjects,
       IngestObjects, IngestEntities, Abandon, OthersWrite, OthersRemove

LEMMA SubmitOneEach ==
    ASSUME TypeOK, OneEach, NEW a \in Agents, NEW entities, NEW relationships,
           IngestEntities(a, entities, relationships),
           \A x, y \in entities : x.of = y.of => x = y
    PROVE  OneEach'
<1>1. \A b \in Agents : call'[b] = call[b] \/ call'[b].entities = entities
  BY DEF IngestEntities, TypeOK
<1> QED BY <1>1 DEF OneEach

LEMMA EachOnce == Spec => []OneEach
<1>1. Init => OneEach
  BY DEF Init, OneEach
<1>2. TypeOK /\ OneEach /\ [Next]_vars => OneEach'
  <2> SUFFICES ASSUME TypeOK, OneEach, [Next]_vars PROVE OneEach'
    OBVIOUS
  <2>1. ASSUME NEW a \in Agents, NEW o \in Objects, ToolIngestBuckets(a, StoreOf(o))
        PROVE  OneEach'
    BY <2>1, SubmitOneEach DEF ToolIngestBuckets, IngestBuckets, Plain
  <2>2. ASSUME NEW a \in Agents, NEW o \in Objects, NEW matched, NEW asked,
               ToolIngestObjects(a, BucketOf(o), matched, asked)
        PROVE  OneEach'
    <3>1. PICK page \in SUBSET (In(BucketOf(o)) \cap matched) :
            IngestObjects(a, BucketOf(o), page)
      BY <2>2 DEF ToolIngestObjects
    <3>2. \A p \in page : p \in Objects /\ p # BucketOf(o)
      <4>1. BucketOf(o).kind = "Bucket"
        BY ThingKinds
      <4> QED BY <4>1, KgAssumption DEF In
    <3> DEFINE entities == {Plain(BucketOf(o))} \cup {Current(p) : p \in page}
    <3>3. \A x, y \in entities : x.of = y.of => x = y
      BY <3>2 DEF Plain, Current
    <3> QED BY <3>1, <3>3, SubmitOneEach DEF IngestObjects
  <2>3. ASSUME NEW a \in Agents, Commit(a) \/ Abandon(a) PROVE OneEach'
    <3>1. \A b \in Agents : call'[b] # Idle => call[b] # Idle
                              /\ call'[b].entities = call[b].entities
      <4> SUFFICES ASSUME NEW b \in Agents, call'[b] # Idle
                   PROVE  call[b] # Idle /\ call'[b].entities = call[b].entities
        OBVIOUS
      <4>1. CASE Abandon(a)
        BY <4>1 DEF Abandon, TypeOK
      <4>2. CASE Commit(a)
        <5>1. PICK ids : call'[b] = IF b = a \/ call[b] = Idle THEN Idle
                                    ELSE [call[b] EXCEPT !.stale = @ \cup ids]
          BY <4>2 DEF Commit
        <5>2. call[b] # Idle /\ call[b] \in Submitted
          BY <5>1 DEF TypeOK
        <5> QED BY <5>1, <5>2 DEF Submitted
      <4> QED BY <2>3, <4>1, <4>2
    <3> QED BY <3>1 DEF OneEach
  <2>4. ASSUME call' = call PROVE OneEach'
    BY <2>4 DEF OneEach
  <2> QED BY <2>1, <2>2, <2>3, <2>4 DEF Next, vars, OthersWrite, OthersRemove
<1> QED BY <1>1, <1>2, KgTypeCorrect, PTL DEF Spec

(* When a change set that lists an object as it still is commits, the      *)
(* graph has that object as it is: no other record of the set, and no      *)
(* other object's identifier, comes in its way (kg_ingest.py               *)
(* ingest_objects and _object_id).                                         *)
THEOREM CommitsMakeCurrent ==
    Spec => [][\A a \in Agents, o \in Objects :
                 Commit(a) /\ Current(o) \in call[a].entities /\ ~Confused(Id(o))
                 => nodes'[Id(o)] = Current(o)]_vars
<1>1. ASSUME TypeOK, OneEach, NEW a \in Agents, NEW o \in Objects, Commit(a),
             Current(o) \in call[a].entities, ~Confused(Id(o))
      PROVE  nodes'[Id(o)] = Current(o)
  <2>1. o \in Things /\ Id(o) \in Ids
    BY DEF Things, Ids
  <2>2. call[a] # Idle /\ call[a] \in Submitted
    BY <1>1 DEF Commit, TypeOK
  <2> DEFINE new == {e \in call[a].entities : Id(e.of) = Id(o)}
  <2>3. nodes'[Id(o)] = IF new = {} THEN nodes[Id(o)] ELSE CHOOSE e \in new : TRUE
    BY <1>1, <2>1 DEF Commit
  <2>4. Current(o) \in new
    BY <1>1 DEF Current
  <2>5. \A e \in new : e = Current(o)
    <3> SUFFICES ASSUME NEW e \in new PROVE e = Current(o)
      OBVIOUS
    <3>1. e \in Entity /\ e.of \in Things
      BY <2>2 DEF Submitted, Entity
    <3>2. e.of = o
      BY <1>1, <2>1, <3>1, FiledAlone
    <3> QED BY <1>1, <2>2, <2>4, <3>2 DEF OneEach, Current
  <2> QED BY <2>3, <2>4, <2>5
<1>2. TypeOK /\ OneEach =>
        [\A a \in Agents, o \in Objects :
           Commit(a) /\ Current(o) \in call[a].entities /\ ~Confused(Id(o))
           => nodes'[Id(o)] = Current(o)]_vars
  BY <1>1
<1> QED BY <1>2, EachOnce, KgTypeCorrect, PTL

(* A graph that has an object as it is in the store has it so until the    *)
(* object changes, or a change set commits that another ingestion overtook *)
(* while it was awaited: ingesting again, even with older answers of other *)
(* stores and buckets under way, takes nothing back.                       *)
THEOREM GraphStaysCurrent ==
    Spec => [][\A o \in Objects :
                 /\ nodes[Id(o)] = Current(o) /\ ~Confused(Id(o))
                 /\ stamp[o] # 0 /\ stamp'[o] = stamp[o]
                 => \/ nodes'[Id(o)] = Current(o)
                    \/ \E a \in Agents :
                         call[a] # Idle /\ call'[a] = Idle /\ Id(o) \in call[a].stale]_vars
<1>1. ASSUME IInv, [Next]_vars, NEW o \in Objects,
             nodes[Id(o)] = Current(o), ~Confused(Id(o)), stamp[o] # 0,
             nodes'[Id(o)] # Current(o)
      PROVE  \E a \in Agents : call[a] # Idle /\ call'[a] = Idle /\ Id(o) \in call[a].stale
  <2>0. o \in Things /\ Id(o) \in Ids /\ stamp[o] \in Nat
    BY <1>1, KgAssumption DEF Things, Ids, IInv, TypeOK
  <2>1. PICK a \in Agents : Commit(a)
    BY <1>1, OnlyCommitsChangeNodes
  <2>2. call[a] # Idle /\ call'[a] = Idle /\ call[a] \in Submitted
    BY <1>1, <2>1 DEF Commit, IInv, TypeOK
  <2> DEFINE x == nodes'[Id(o)]
  <2>3. x \in call[a].entities /\ Id(x.of) = Id(o)
    BY <1>1, <2>0, <2>1 DEF Commit
  <2>4. x \in Entity /\ x.of \in Things /\ x.stamp \in Nat
    BY <2>2, <2>3, KgAssumption DEF Submitted, Entity
  <2>5. x.of = o
    BY <1>1, <2>0, <2>3, <2>4, FiledAlone
  <2>6. x.stamp <= stamp[o]
    BY <1>1, <2>2, <2>3, <2>5 DEF IInv, Timely, Dated
  <2>7. Id(o) \in call[a].stale \/ stamp[o] <= x.stamp
    <3>1. Current(o) \in Entity /\ Current(o).of = o /\ Current(o).stamp = stamp[o]
      BY <1>1, <2>0 DEF Entity, Current, IInv, TypeOK
    <3>2. nodes[Id(o)] # Absent /\ nodes[Id(o)].of = x.of /\ nodes[Id(o)].stamp = stamp[o]
      BY <1>1, <2>5, <3>1, AbsentIsNoEntity
    <3>3. \/ Id(x.of) \in call[a].stale \/ nodes[Id(x.of)] = Absent
          \/ nodes[Id(x.of)].of # x.of \/ nodes[Id(x.of)].stamp <= x.stamp
      BY <1>1, <2>2, <2>3 DEF IInv, Timely
    <3> HIDE DEF x
    <3> QED BY <2>5, <3>2, <3>3
  <2>8. CASE stamp[o] <= x.stamp
    BY <1>1, <2>0, <2>4, <2>5, <2>6, <2>8 DEF Entity, Current
  <2> QED BY <2>2, <2>7, <2>8
<1>2. IInv /\ [Next]_vars =>
        [\A o \in Objects :
           /\ nodes[Id(o)] = Current(o) /\ ~Confused(Id(o))
           /\ stamp[o] # 0 /\ stamp'[o] = stamp[o]
           => \/ nodes'[Id(o)] = Current(o)
              \/ \E a \in Agents :
                   call[a] # Idle /\ call'[a] = Idle /\ Id(o) \in call[a].stale]_vars
  BY <1>1
<1> QED BY <1>2, KgInvariance, PTL DEF Spec

=============================================================================
