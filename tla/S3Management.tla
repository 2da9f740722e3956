---------------------------- MODULE S3Management ----------------------------
(***************************************************************************)
(* The S3 management tools of objectstore_mcp/mcp/mcp_objectstore.py:      *)
(* lifecycle rules and versioning of a bucket, tags of an object.          *)
(*                                                                         *)
(* Each of the three is a document that S3 reads and replaces as a whole.  *)
(* Agents change one the way the bucket administration skill tells them to *)
(* ("read the current lifecycle before replacing it"), in two calls with   *)
(* other agents and other clients in between.  The other clients also      *)
(* write rules that the tools cannot express.                              *)
(***************************************************************************)
EXTENDS Naturals, Sequences, FiniteSets

CONSTANTS
    Agents,
    Buckets, Keys,
    S3Buckets,    \* the buckets of a store whose backend is s3
    Ids, Prefixes, EmptyPrefix, Classes,
    Periods,      \* numbers of days
    None,         \* a field that is not given
    Rules,        \* the rules an agent may think of
    Foreign,      \* the rules other clients write
    Tags, TagLimit

Kinds == {"expiration", "noncurrent", "abort"}

(* LifecycleRule, an argument and an answer of the tools.                  *)
Rule == [id : Ids, prefix : Prefixes, enabled : BOOLEAN,
         acts : [Kinds -> Periods \cup {None}],
         days : Periods \cup {None}, class : Classes \cup {None}]

(* An entry of LifecycleConfiguration.Rules.  A narrow one has conditions  *)
(* beside its prefix (Filter.And); other stands for actions and dates that *)
(* the tools do not read.                                                  *)
Document == [id : Ids, prefix : Prefixes, narrow : BOOLEAN, enabled : BOOLEAN,
             acts : [Kinds -> Periods \cup {None}],
             transitions : Seq([days : Periods \cup {None}, class : Classes]),
             other : BOOLEAN]

(* The entry does something, if only what the tools do not read.           *)
Acts(d) == d.other \/ d.transitions # <<>> \/ \E k \in Kinds : d.acts[k] # None

ASSUME S3Assumption ==
    /\ S3Buckets \subseteq Buckets
    /\ EmptyPrefix \in Prefixes
    /\ None \notin Periods \cup Classes
    /\ Rules \subseteq Rule
    /\ \A d \in Foreign : d \in Document /\ Acts(d)
    /\ TagLimit \in Nat

VARIABLES
    there,   \* the documents whose bucket or object exists
    held,    \* document -> what the store holds of it, empty when none is set
    agent    \* agent -> what its latest call was about, and what it learnt

vars == <<there, held, agent>>

Lifecycle(b) == <<"lifecycle", b>>
Versioning(b) == <<"versioning", b>>
ObjectTags(b, k) == <<"tags", b, k>>

Documents ==
    {Lifecycle(b) : b \in Buckets} \cup {Versioning(b) : b \in Buckets}
        \cup {ObjectTags(b, k) : b \in Buckets, k \in Keys}

Statuses == {"Enabled", "Suspended"}

NewAgent == [did |-> "none"]

-----------------------------------------------------------------------------
(* Rules to and from S3.                                                   *)

(* Faulty: a rule that sets no action is let through.                      *)
AcceptedIdle(r) == r.days # None => r.class # None

(* _rule_to_s3 does not refuse.                                            *)
Accepted(r) ==
    /\ r.days # None => r.class # None
    /\ r.days # None \/ \E k \in Kinds : r.acts[k] # None

RuleToS3(r) ==
    [id |-> r.id, prefix |-> r.prefix, narrow |-> FALSE, enabled |-> r.enabled,
     acts |-> r.acts, other |-> FALSE,
     transitions |-> IF r.days = None THEN <<>>
                     ELSE <<[days |-> r.days, class |-> r.class]>>]

(* Of several transitions only the first is read.                          *)
FirstTransition(d) ==
    IF d.transitions = <<>> THEN [days |-> None, class |-> None] ELSE d.transitions[1]

(* Faulty: a rule that is switched off reads as one that is on.            *)
RuleFromS3Enabled(d) ==
    [id |-> d.id, prefix |-> d.prefix, enabled |-> TRUE, acts |-> d.acts,
     days |-> FirstTransition(d).days, class |-> FirstTransition(d).class]

(* Of a narrow filter not even the prefix is read.                         *)
RuleFromS3(d) ==
    [id |-> d.id, prefix |-> IF d.narrow THEN EmptyPrefix ELSE d.prefix,
     enabled |-> d.enabled, acts |-> d.acts,
     days |-> FirstTransition(d).days, class |-> FirstTransition(d).class]

(* What the tools show of a document, and what they put for what is asked. *)
Shown(doc, content) ==
    IF doc[1] = "lifecycle" THEN {RuleFromS3(d) : d \in content} ELSE content

ToPut(doc, asked) ==
    IF doc[1] = "lifecycle" THEN {RuleToS3(r) : r \in asked} ELSE asked

-----------------------------------------------------------------------------
(* The S3 client.                                                          *)

MissingCodes == {"NoSuchBucket", "NoSuchKey"}

(* What S3 may answer to a read.                                           *)
ReadCodes(doc) ==
    {"AccessDenied"} \cup
    IF doc \notin there THEN {IF doc[1] = "tags" THEN "NoSuchKey" ELSE "NoSuchBucket"}
    ELSE IF held[doc] # {} \/ doc[1] = "versioning" THEN {"ok"}
    ELSE IF doc[1] = "tags" THEN {"ok", "NoSuchTagSet"}
    ELSE {"NoSuchLifecycleConfiguration"}

(* Faulty: every refusal of S3 reads as "none set".                        *)
S3CallLenient(code, absent) == IF code = "ok" THEN "ok" ELSE "none"

(* _s3_call: the answer, None, NotFoundError or StorageError.              *)
S3Call(code, absent) ==
    IF code = "ok" THEN "ok"
    ELSE IF code \in absent THEN "none"
    ELSE IF code \in MissingCodes THEN "not_found" ELSE "failed"

(* _s3_client: only the stores of an s3 backend have one.                  *)
HasClient(doc) == doc[2] \in S3Buckets

(* What the others know of the documents is out of date.                   *)
Outdated(x, docs) ==
    IF agent[x].did # "none" /\ agent[x].of \in docs
    THEN [agent[x] EXCEPT !.stale = TRUE] ELSE agent[x]

(* A get tool.                                                             *)
Read(a, doc, absent) ==
    /\ HasClient(doc)
    /\ \E code \in ReadCodes(doc) :
         LET outcome == S3Call(code, absent) IN
         agent' = [agent EXCEPT ![a] =
             IF outcome \in {"ok", "none"}
             THEN [did |-> "read", of |-> doc, stale |-> FALSE,
                   value |-> IF outcome = "ok" THEN Shown(doc, held[doc]) ELSE {}]
             ELSE NewAgent]
    /\ UNCHANGED <<there, held>>

(* A put or delete tool past its checks: the document is replaced, or not, *)
(* and where it is not answered the agent only knows that it tried.        *)
Replace(a, doc, asked) ==
    /\ HasClient(doc)
    /\ \E did \in {"put", "tried"} :
         \/ /\ doc \in there
            /\ held' = [held EXCEPT ![doc] = ToPut(doc, asked)]
            /\ agent' = [x \in Agents |->
                 IF x = a THEN [did |-> did, of |-> doc, stale |-> FALSE, value |-> asked]
                 ELSE Outdated(x, {doc})]
         \/ /\ did = "tried"
            /\ agent' = [agent EXCEPT ![a] =
                 [did |-> did, of |-> doc, stale |-> FALSE, value |-> asked]]
            /\ UNCHANGED held
    /\ UNCHANGED there

(* The rules agent a may put: its own, and those it has read.              *)
Thinkable(a, doc) ==
    Rules \cup IF agent[a].did = "read" /\ agent[a].of = doc THEN agent[a].value ELSE {}

DistinctIds(rules) == \A r, s \in rules : r.id = s.id => r = s

-----------------------------------------------------------------------------
(* The tools.                                                              *)

GetBucketLifecycle(a, b) ==
    Read(a, Lifecycle(b), {"NoSuchLifecycleConfiguration"})

(* Whatever it refuses has no effect; S3 wants the identifiers distinct.   *)
PutBucketLifecycle(a, b, rules) ==
    /\ rules # {}
    /\ \A r \in rules : Accepted(r)
    /\ DistinctIds(rules)
    /\ Replace(a, Lifecycle(b), rules)

DeleteBucketLifecycle(a, b) == Replace(a, Lifecycle(b), {})

GetBucketVersioning(a, b) == Read(a, Versioning(b), {})

PutBucketVersioning(a, b, status) == Replace(a, Versioning(b), {status})

GetObjectTags(a, b, k) == Read(a, ObjectTags(b, k), {"NoSuchTagSet"})

PutObjectTags(a, b, k, tags) ==
    /\ Cardinality(tags) <= TagLimit
    /\ Replace(a, ObjectTags(b, k), tags)

DeleteObjectTags(a, b, k) == Replace(a, ObjectTags(b, k), {})

-----------------------------------------------------------------------------
(* Other clients of the store.                                             *)

OthersReplace(doc, content) ==
    /\ doc \in there
    /\ held' = [held EXCEPT ![doc] = content]
    /\ agent' = [x \in Agents |-> Outdated(x, {doc})]
    /\ UNCHANGED there

OthersPut ==
    \/ \E b \in Buckets, rules \in SUBSET Foreign :
         DistinctIds(rules) /\ OthersReplace(Lifecycle(b), rules)
    \/ \E b \in Buckets, status \in Statuses : OthersReplace(Versioning(b), {status})
    \/ \E b \in Buckets, k \in Keys, tags \in SUBSET Tags :
         Cardinality(tags) <= TagLimit /\ OthersReplace(ObjectTags(b, k), tags)

(* A bucket goes with all that is in it, or comes, empty of documents.     *)
OthersRecreate(b) ==
    LET docs == {doc \in Documents : doc[2] = b} IN
    /\ there' = IF Lifecycle(b) \in there THEN there \ docs ELSE there \cup docs
    /\ held' = [doc \in Documents |-> IF doc \in docs THEN {} ELSE held[doc]]
    /\ agent' = [x \in Agents |-> Outdated(x, docs)]

Init ==
    /\ there = Documents
    /\ held = [doc \in Documents |-> {}]
    /\ agent = [a \in Agents |-> NewAgent]

Next ==
    \/ \E a \in Agents, b \in Buckets :
         \/ GetBucketLifecycle(a, b)
         \/ \E rules \in SUBSET Thinkable(a, Lifecycle(b)) : PutBucketLifecycle(a, b, rules)
         \/ DeleteBucketLifecycle(a, b)
         \/ GetBucketVersioning(a, b)
         \/ \E status \in Statuses : PutBucketVersioning(a, b, status)
         \/ \E k \in Keys :
              \/ GetObjectTags(a, b, k)
              \/ \E tags \in SUBSET Tags : PutObjectTags(a, b, k, tags)
              \/ DeleteObjectTags(a, b, k)
    \/ OthersPut
    \/ \E b \in Buckets : OthersRecreate(b)

Spec == Init /\ [][Next]_vars

-----------------------------------------------------------------------------
(* What a document may hold, and what its tool may show of it.             *)
MayHold(doc, content) ==
    CASE doc[1] = "lifecycle" -> \A d \in content : d \in Document /\ Acts(d)
      [] doc[1] = "versioning" -> content \subseteq Statuses
      [] doc[1] = "tags" -> content \subseteq Tags

MayShow(doc, value) ==
    IF doc[1] = "lifecycle" THEN value \subseteq Rule ELSE MayHold(doc, value)

(* Every variable has its type, and no rule without an action is put.      *)
TypeOK ==
    /\ there \subseteq Documents
    /\ held = [doc \in Documents |-> held[doc]]
    /\ \A doc \in Documents : MayHold(doc, held[doc])
    /\ agent = [a \in Agents |-> agent[a]]
    /\ \A a \in Agents : agent[a] = NewAgent \/
         /\ agent[a] = [did |-> agent[a].did, of |-> agent[a].of,
                        stale |-> agent[a].stale, value |-> agent[a].value]
         /\ agent[a].did \in {"read", "put", "tried"}
         /\ agent[a].of \in Documents
         /\ agent[a].stale \in BOOLEAN
         /\ MayShow(agent[a].of, agent[a].value)

(* Rule e says of rule d all that the tools can say: what it does and the  *)
(* prefix it does it for, unless that comes with other conditions, and of  *)
(* its transitions the first, if that counts days.                         *)
Keeps(e, d) ==
    /\ e.id = d.id /\ e.enabled = d.enabled /\ e.acts = d.acts
    /\ d.narrow \/ e.prefix = d.prefix
    /\ d.transitions # <<>> /\ d.transitions[1].days # None =>
         e.transitions = <<d.transitions[1]>>

(* A storage class goes with a number of days, and otherwise not at all.   *)
Paired(r) == r.days = None => r.class = None

Knows(a, did) == agent[a].did = did /\ ~agent[a].stale

(* An agent that reads a document and then replaces it loses of it, as     *)
(* long as nobody else changed it in between, only what the read showed it *)
(* and it left out: no refusal of S3 reads as "none set", and what was     *)
(* read and is put back leaves a rule that says of each one it replaces,   *)
(* also of one that another client wrote, all that the tools can say       *)
(* (_s3_call, _rule_from_s3 and _rule_to_s3 together).                     *)
OnlyKnowinglyDropped ==
    [][\A a \in Agents : Knows(a, "read") /\ agent'[a].did \in {"put", "tried"}
            /\ agent'[a].of = agent[a].of =>
         LET doc == agent[a].of IN
         \A d \in held[doc] \ held'[doc] :
            \/ Shown(doc, {d}) \subseteq agent[a].value \ agent'[a].value
            \/ doc[1] = "lifecycle" /\ \E e \in held'[doc] : Keeps(e, d)]_vars

(* What an agent put and nobody else changed, it reads back as it put it;  *)
(* of a storage class without days nothing is kept (specification FR-006,  *)
(* "When the agent puts a lifecycle rule and reads it back").              *)
ReadsBack ==
    [][\A a \in Agents : Knows(a, "put") /\ agent'[a].did = "read"
            /\ agent'[a].of = agent[a].of =>
         \/ agent'[a].value = agent[a].value
         \/ agent[a].of[1] = "lifecycle" /\ \E r \in agent[a].value : ~Paired(r)]_vars

(* A rule that is read has the prefix of the rule of that name             *)
(* (mcp_objectstore.py:50, "Key prefix the rule applies to").              *)
PrefixIsTheRules ==
    \A a \in Agents : Knows(a, "read") /\ agent[a].of[1] = "lifecycle" =>
        \A r \in agent[a].value : \A d \in held[agent[a].of] :
            d.id = r.id => r.prefix = d.prefix

(* The inductive invariant: what an agent knows and nobody changed since   *)
(* is what the store holds.                                                *)
Informed ==
    \A a \in Agents :
        /\ Knows(a, "read") => agent[a].value = Shown(agent[a].of, held[agent[a].of])
        /\ Knows(a, "put") => held[agent[a].of] = ToPut(agent[a].of, agent[a].value)

IInv == TypeOK /\ Informed

=============================================================================
