----------------------------- MODULE Transfers -----------------------------
(***************************************************************************)
(* The four transfer tools of one server process, between one bucket and   *)
(* the local files of its host (objectstore_mcp/mcp/mcp_objectstore.py,    *)
(* lines 249-381), behind the caps of the governor (guard.py get_object    *)
(* and put_object).                                                        *)
(*                                                                         *)
(* Other clients write and delete objects, and other programs write and    *)
(* delete files, between any two steps.  The bucket exists; a store call   *)
(* takes effect and answers, takes effect and loses the answer, or fails.  *)
(***************************************************************************)
EXTENDS Limits, FiniteSetsExt

CONSTANTS
    Keys,        \* object keys: numbers, compared as listings order them
    Under,       \* the keys that start with the prefix of the batch tools
    Files,       \* local paths: numbers, compared as sorted() orders them
    Below,       \* the paths below the local directory of the batch tools
    KeyFor,      \* a path below the directory -> the key it is uploaded to
    TargetFor,   \* a key under the prefix -> the path it is downloaded to,
                 \* below that directory or, if the key holds "..", elsewhere
    Payloads, Size, Absent,
    Empty,       \* the payload of no bytes
    Asked,       \* the max_keys arguments callers pass
    Environments

ASSUME TransfersAssumption ==
    /\ Keys \subseteq Nat /\ IsFiniteSet(Keys) /\ Under \subseteq Keys
    /\ Files \subseteq Nat /\ IsFiniteSet(Files) /\ Below \subseteq Files
    /\ KeyFor \in [Below -> Under] /\ TargetFor \in [Under -> Files]
    /\ \A f, g \in Below : KeyFor[f] = KeyFor[g] => f = g
    /\ Absent \notin Payloads
    /\ Size \in [Payloads -> Nat]
    /\ Empty \in Payloads /\ Size[Empty] = 0
    /\ Asked \subseteq Nat \cup {None}
    /\ Environments \subseteq Setting

VARIABLES
    objects,   \* key -> payload or Absent
    files,     \* path -> payload or Absent
    env,       \* the settings of the process
    call,      \* the transfer it is running, or Idle
    reply,     \* what its last transfer answered
    \* Observed by the properties, read by no action:
    bytes,     \* how many bytes the latest transfer has moved
    touched    \* the keys and paths others changed during the transfer

vars == <<objects, files, env, call, reply, bytes, touched>>

Idle == [tool |-> "idle"]

(* One put for each path of todo, in order.                                *)
Uploads == [tool : {"upload"}, batch : SUBSET Files, todo : (SUBSET Files) \ {{}},
            to : UNION {[S -> Keys] : S \in SUBSET Files}]

(* One get and one write for each key of todo, in order; held is what the  *)
(* get for the first of them returned, before it is written.               *)
Downloads == [tool : {"download"}, batch : SUBSET Keys, todo : (SUBSET Keys) \ {{}},
              to : UNION {[S -> Files] : S \in SUBSET Keys},
              overwrite : BOOLEAN, held : Payloads \cup {Absent}]

Replies == [outcome : {"none", "ok", "refused", "failed"}, count : Nat]

Limit == LoadLimits(env)

First(n, S) == n \in S /\ \A m \in S : n <= m

Total(contents, S) == MapThenSumSet(LAMBDA n : Size[contents[n]], S)

Present(contents, S) == {n \in S : contents[n] # Absent}

-----------------------------------------------------------------------------
(* The governor, and one call of the store.                                *)

Result(contents, outcome) == [objects |-> contents, outcome |-> outcome]

(* Faulty: a put is held to the transfer cap.                              *)
GuardedPutOfTransfer(k, v) ==
    LET written == [objects EXCEPT ![k] = v] IN
    IF Size[v] <= Limit.max_transfer_bytes
    THEN {Result(written, "ok"), Result(written, "failed"), Result(objects, "failed")}
    ELSE {Result(objects, "refused")}

GuardedPut(k, v) ==
    LET written == [objects EXCEPT ![k] = v] IN
    IF Size[v] <= Limit.max_put_bytes
    THEN {Result(written, "ok"), Result(written, "failed"), Result(objects, "failed")}
    ELSE {Result(objects, "refused")}

(* Faulty: the cap of the caller stands for the cap of the governor.       *)
GetCapOfTransfer == Limit.max_transfer_bytes

(* The get of a transfer tool asks for at most the transfer cap.           *)
GetCap == ByteCap(Limit.max_transfer_bytes, Limit.max_get_bytes)

GuardedGet(k) ==
    LET got == IF objects[k] = Absent THEN "failed"
               ELSE IF Size[objects[k]] <= GetCap THEN "ok" ELSE "refused"
    IN {[data |-> objects[k], outcome |-> got], [data |-> Absent, outcome |-> "failed"]}

BatchCap(asked) == KeyCap(asked, Limit.max_batch_keys)

-----------------------------------------------------------------------------
(* Bookkeeping.                                                            *)

Answer(outcome, n) ==
    /\ call' = Idle
    /\ reply' = [outcome |-> outcome, count |-> n]
    /\ touched' = {}

Refuse ==
    /\ Answer("refused", 0)
    /\ bytes' = 0
    /\ UNCHANGED <<objects, files, env>>

(* A transfer has passed its checks and moves on to its loop.              *)
Begin(started) ==
    /\ call' = started
    /\ reply' = [outcome |-> "none", count |-> 0]
    /\ bytes' = 0
    /\ touched' = {}
    /\ UNCHANGED <<objects, files, env>>

Nothing ==
    /\ Answer("ok", 0)
    /\ bytes' = 0
    /\ UNCHANGED <<objects, files, env>>

(* Faulty: the loop goes on when the batch is done.                        *)
AdvancePastTheEnd(n) ==
    /\ call' = IF call.tool = "upload"
               THEN [call EXCEPT !.todo = @ \ {n}]
               ELSE [call EXCEPT !.todo = @ \ {n}, !.held = Absent]
    /\ UNCHANGED <<reply, touched>>

(* One more of the batch is done.                                          *)
Advance(n) ==
    IF call.todo = {n}
    THEN Answer("ok", Cardinality(call.batch))
    ELSE /\ call' = IF call.tool = "upload"
                    THEN [call EXCEPT !.todo = @ \ {n}]
                    ELSE [call EXCEPT !.todo = @ \ {n}, !.held = Absent]
         /\ UNCHANGED <<reply, touched>>

-----------------------------------------------------------------------------
(* objectstore_upload_file and objectstore_upload_directory: checks by the *)
(* sizes stat() gives, then one read and one guarded put for each file.    *)

FileFits(f) == files[f] # Absent /\ Size[files[f]] <= Limit.max_transfer_bytes

UploadFile(f, k) ==
    /\ call = Idle
    /\ IF Loads(env) /\ FileFits(f)
       THEN Begin([tool |-> "upload", batch |-> {f}, todo |-> {f}, to |-> [g \in {f} |-> k]])
       ELSE Refuse

(* Faulty: each file is held to the cap, not their total.                  *)
DirectoryFitsEach(batch, asked) ==
    /\ Cardinality(batch) <= BatchCap(asked)
    /\ \A f \in batch : Size[files[f]] <= Limit.max_transfer_bytes

(* The sizes are read in one go: a file that changes while they are read   *)
(* changes before or after.                                                *)
DirectoryFits(batch, asked) ==
    /\ Cardinality(batch) <= BatchCap(asked)
    /\ Total(files, batch) <= Limit.max_transfer_bytes

(* A directory without files may also not be there at all.                 *)
UploadDirectory(asked) ==
    LET batch == Present(files, Below) IN
    /\ call = Idle
    /\ \/ /\ Loads(env) /\ DirectoryFits(batch, asked)
          /\ IF batch = {}
             THEN Nothing
             ELSE Begin([tool |-> "upload", batch |-> batch, todo |-> batch,
                         to |-> [f \in batch |-> KeyFor[f]]])
       \/ /\ batch = {} \/ ~Loads(env) \/ ~DirectoryFits(batch, asked)
          /\ Refuse

UploadNext ==
    /\ call.tool = "upload"
    /\ \E f \in call.todo :
         /\ First(f, call.todo)
         /\ \/ /\ files[f] = Absent
               /\ Answer("failed", 0)
               /\ UNCHANGED <<objects, bytes>>
            \/ /\ files[f] # Absent
               /\ \E r \in GuardedPut(call.to[f], files[f]) :
                    /\ objects' = r.objects
                    /\ bytes' = IF r.outcome = "ok" THEN bytes + Size[files[f]] ELSE bytes
                    /\ IF r.outcome = "ok" THEN Advance(f) ELSE Answer(r.outcome, 0)
    /\ UNCHANGED <<files, env>>

-----------------------------------------------------------------------------
(* objectstore_download_file and objectstore_download_prefix: for each key *)
(* the target is looked at, the object got, and the target written.        *)

MayWrite(f, overwrite) == files[f] = Absent \/ overwrite

DownloadFile(k, f, overwrite) ==
    /\ call = Idle
    /\ IF Loads(env) /\ MayWrite(f, overwrite)
       THEN \E r \in GuardedGet(k) :
              IF r.outcome = "ok"
              THEN Begin([tool |-> "download", batch |-> {k}, todo |-> {k},
                          to |-> [j \in {k} |-> f], overwrite |-> overwrite,
                          held |-> r.data])
              ELSE /\ Answer(r.outcome, 0)
                   /\ bytes' = 0
                   /\ UNCHANGED <<objects, files, env>>
       ELSE Refuse

(* The listing may fail.  The sizes are those it shows.                    *)
DownloadPrefix(asked, overwrite) ==
    /\ call = Idle
    /\ IF Loads(env)
       THEN \/ /\ Answer("failed", 0)
               /\ bytes' = 0
               /\ UNCHANGED <<objects, files, env>>
            \/ \E page \in Pages(Present(objects, Under),
                              KeyCap(BatchCap(asked), Limit.max_list_keys)) :
                 IF page = {}
                 THEN Nothing
                 ELSE IF Total(objects, page) <= Limit.max_transfer_bytes
                 THEN Begin([tool |-> "download", batch |-> page, todo |-> page,
                             to |-> [k \in page |-> TargetFor[k]],
                             overwrite |-> overwrite, held |-> Absent])
                 ELSE Refuse
       ELSE Refuse

(* Faulty: a target that is there is passed over.                          *)
DownloadGetPassesOver ==
    /\ call.tool = "download" /\ call.held = Absent
    /\ \E k \in call.todo :
         /\ First(k, call.todo)
         /\ IF MayWrite(call.to[k], call.overwrite)
            THEN \E r \in GuardedGet(k) :
                   IF r.outcome = "ok"
                   THEN call' = [call EXCEPT !.held = r.data] /\ UNCHANGED <<reply, touched>>
                   ELSE Answer(r.outcome, 0)
            ELSE Advance(k)
    /\ UNCHANGED <<objects, files, env, bytes>>

(* Faulty: the loop does not look at its targets.                          *)
DownloadGetUnlooking ==
    /\ call.tool = "download" /\ call.held = Absent
    /\ \E k \in call.todo :
         /\ First(k, call.todo)
         /\ \E r \in GuardedGet(k) :
              IF r.outcome = "ok"
              THEN call' = [call EXCEPT !.held = r.data] /\ UNCHANGED <<reply, touched>>
              ELSE Answer(r.outcome, 0)
    /\ UNCHANGED <<objects, files, env, bytes>>

DownloadGet ==
    /\ call.tool = "download" /\ call.held = Absent
    /\ \E k \in call.todo :
         /\ First(k, call.todo)
         /\ IF MayWrite(call.to[k], call.overwrite)
            THEN \E r \in GuardedGet(k) :
                   IF r.outcome = "ok"
                   THEN call' = [call EXCEPT !.held = r.data] /\ UNCHANGED <<reply, touched>>
                   ELSE Answer(r.outcome, 0)
            ELSE Answer("refused", 0)
    /\ UNCHANGED <<objects, files, env, bytes>>

(* A write first empties the file: one that fails leaves the file as it    *)
(* was, or cut short (Empty stands for every shorter content).             *)
DownloadWrite ==
    /\ call.tool = "download" /\ call.held # Absent
    /\ \E k \in call.todo :
         /\ First(k, call.todo)
         /\ \/ /\ files' = [files EXCEPT ![call.to[k]] = call.held]
               /\ bytes' = bytes + Size[call.held]
               /\ Advance(k)
            \/ /\ files' \in {files, [files EXCEPT ![call.to[k]] = Empty]}
               /\ Answer("failed", 0)
               /\ UNCHANGED bytes
    /\ UNCHANGED <<objects, env>>

-----------------------------------------------------------------------------
Touch(where) == touched' = IF call = Idle THEN {} ELSE touched \cup {where}

(* Another client of the store, or another program on the host.            *)
OthersStore(k, v) ==
    /\ objects' = [objects EXCEPT ![k] = v]
    /\ Touch(<<"key", k>>)
    /\ UNCHANGED <<files, env, call, reply, bytes>>

OthersWrite(f, v) ==
    /\ files' = [files EXCEPT ![f] = v]
    /\ Touch(<<"file", f>>)
    /\ UNCHANGED <<objects, env, call, reply, bytes>>

(* The process dies and is started again with the settings e.              *)
Restart(e) ==
    /\ env' = e
    /\ Answer("none", 0)
    /\ bytes' = 0
    /\ UNCHANGED <<objects, files>>

Init ==
    /\ objects \in [Keys -> Payloads \cup {Absent}]
    /\ files \in [Files -> Payloads \cup {Absent}]
    /\ env \in Environments
    /\ call = Idle
    /\ reply = [outcome |-> "none", count |-> 0]
    /\ bytes = 0
    /\ touched = {}

Next ==
    \/ \E f \in Files, k \in Keys : UploadFile(f, k)
    \/ \E asked \in Asked : UploadDirectory(asked)
    \/ UploadNext
    \/ \E k \in Keys, f \in Files, overwrite \in BOOLEAN : DownloadFile(k, f, overwrite)
    \/ \E asked \in Asked, overwrite \in BOOLEAN : DownloadPrefix(asked, overwrite)
    \/ DownloadGet \/ DownloadWrite
    \/ \E k \in Keys, v \in Payloads \cup {Absent} : OthersStore(k, v)
    \/ \E f \in Files, v \in Payloads \cup {Absent} : OthersWrite(f, v)
    \/ \E e \in Environments : Restart(e)

Spec == Init /\ [][Next]_vars

-----------------------------------------------------------------------------
(* Every variable has its type, and a transfer in progress has something   *)
(* left to do (the loops of objectstore_upload_directory and               *)
(* objectstore_download_prefix).                                           *)
TypeOK ==
    /\ objects \in [Keys -> Payloads \cup {Absent}]
    /\ files \in [Files -> Payloads \cup {Absent}]
    /\ env \in Environments
    /\ call \in {Idle} \cup Uploads \cup Downloads
    /\ reply \in Replies
    /\ bytes \in Nat
    /\ touched \subseteq ({"key"} \X Keys) \cup ({"file"} \X Files)

(* The most one object of the call in progress may hold.                   *)
PieceCap ==
    IF call.tool = "upload"
    THEN Limit.max_put_bytes
    ELSE Lesser(Limit.max_get_bytes, Limit.max_transfer_bytes)

(* However objects and files grow after their sizes were summed, a batch   *)
(* never has moved more than the governor's cap for each object it has     *)
(* gone through, and holds no object over that cap (guard.py get_object    *)
(* and put_object, under the batch tools).                                 *)
RacedWithinPieces ==
    /\ call.tool \in {"upload", "download"} =>
         bytes <= Cardinality(call.batch \ call.todo) * PieceCap
    /\ call.tool = "download" /\ call.held # Absent => Size[call.held] <= PieceCap

(* A transfer whose keys and files nobody else changes since its checks    *)
(* moves no more than OBJECTSTORE_MAX_TRANSFER_BYTES in all, although it   *)
(* reads every object and file a second time (the four transfer tools).    *)
UndisturbedWithinCap ==
    [][call # Idle /\ touched = {} => bytes' <= Limit.max_transfer_bytes]_vars

(* Without overwrite a download changes no file that was there when it     *)
(* began or that an earlier key of the batch wrote; only a file that       *)
(* others wrote since may be lost (objectstore_download_file and           *)
(* objectstore_download_prefix, "pass overwrite=true").                    *)
NoClobber ==
    [][\A f \in Files :
         call.tool = "download" /\ ~call.overwrite
           /\ files[f] # Absent /\ files'[f] # files[f]
         => <<"file", f>> \in touched \cup touched']_vars

Distinct(to) == \A m, n \in DOMAIN to : to[m] = to[n] => m = n

Answers(outcome) == call # Idle /\ call' = Idle /\ reply'.outcome = outcome

Moved(n) ==
    IF call.tool = "upload"
    THEN objects'[call.to[n]] = files[n]
           \/ touched \cap {<<"file", n>>, <<"key", call.to[n]>>} # {}
    ELSE files'[call.to[n]] = objects[n]
           \/ touched \cap {<<"key", n>>, <<"file", call.to[n]>>} # {}

(* A transfer that answers success has moved each one of its batch: when   *)
(* it returns, every destination holds what its source holds, the two that *)
(* others changed since its checks excepted, and so are downloads that     *)
(* overwrite one target with several keys (the "uploaded" and "downloaded" *)
(* lists of the batch tools).                                              *)
ReportedIsMoved ==
    [][Answers("ok") =>
         /\ reply'.count = Cardinality(call.batch)
         /\ call.tool = "upload" \/ ~call.overwrite \/ Distinct(call.to) =>
              \A n \in call.batch : Moved(n)]_vars

(* The store, as the governor promises it to callers that may not remove   *)
(* anything.                                                               *)
Governed == INSTANCE GovernedStore WITH
    Buckets <- {"bucket"}, WildKeys <- {},
    objects <- [l \in {"bucket"} \X Keys |-> objects[l[2]]],
    buckets <- {"bucket"},
    objectDeletes <- FALSE, bucketDeletes <- FALSE,
    admitted <- {v \in Payloads : Loads(env) /\ Size[v] <= Limit.max_put_bytes}

(* What the transfer tools do to the store is what the governor promises   *)
(* of any tool, with object deletes off: an upload that was admitted under *)
(* other sizes, or settings, than those of the moment it puts, puts        *)
(* nothing the put cap of that moment keeps out, and no transfer removes   *)
(* or moves an object (guard.py put_object under the two upload tools).    *)
TransfersAreGoverned ==
    [][\/ \E k \in Keys, v \in Payloads \cup {Absent} : OthersStore(k, v)
       \/ [Governed!Next]_(Governed!vars)]_vars

-----------------------------------------------------------------------------
(* What the repository says and the code does not keep.                    *)

(* An upload that passed the transfer cap is refused only if its files     *)
(* changed since ("capped by OBJECTSTORE_MAX_TRANSFER_BYTES", and          *)
(* guard.py's "use objectstore_upload_file" for a payload over the put     *)
(* cap).                                                                   *)
UploadsToTransferCap ==
    [][call.tool = "upload" /\ Answers("refused") => touched # {}]_vars

=============================================================================
