-------------------------- MODULE TransfersProofs --------------------------
(***************************************************************************)
(* Proofs about Transfers, for any keys, files, payloads and settings.     *)
(***************************************************************************)
EXTENDS Transfers, FiniteSetTheorems, TLAPS

-----------------------------------------------------------------------------
(* Facts about the operators.                                              *)

Contents == [Keys -> Payloads \cup {Absent}]

(* The caps are numbers once the settings load.                            *)
LEMMA LimitType ==
    ASSUME env \in Environments, Loads(env)
    PROVE  /\ Limit.max_get_bytes \in Nat
           /\ Limit.max_put_bytes \in Nat
           /\ Limit.max_transfer_bytes \in Nat
           /\ Limit.max_batch_keys \in Nat
           /\ Limit.max_list_keys \in Nat
  <1>1. env \in Setting
    BY TransfersAssumption
  <1>2. /\ env.max_get_bytes \in RawCap
        /\ env.max_put_bytes \in RawCap
        /\ env.max_transfer_bytes \in RawCap
        /\ env.max_batch_keys \in RawCap
        /\ env.max_list_keys \in RawCap
    BY <1>1 DEF Setting
  <1> QED
    BY <1>2 DEF Limit, LoadLimits, Loads, AsInt, RawCap

(* What is got is no larger than both caps.                                *)
LEMMA GetCapFacts ==
    ASSUME env \in Environments, Loads(env)
    PROVE  /\ GetCap \in Nat
           /\ GetCap = Lesser(Limit.max_get_bytes, Limit.max_transfer_bytes)
  <1>1. None \notin Nat
    BY MarkersAssumption
  <1> QED
    BY <1>1, LimitType DEF GetCap, ByteCap, Lesser

LEMMA GuardedPutFacts ==
    ASSUME NEW k \in Keys, NEW v \in Payloads, objects \in Contents,
           NEW r \in GuardedPut(k, v)
    PROVE  /\ r.objects \in Contents
           /\ r.outcome \in {"ok", "refused", "failed"}
           /\ r.outcome = "ok" \/ r.objects # objects =>
                /\ Size[v] <= Limit.max_put_bytes
                /\ r.objects = [objects EXCEPT ![k] = v]
  <1> DEFINE written == [objects EXCEPT ![k] = v]
  <1>1. written \in Contents
    BY DEF Contents
  <1> HIDE DEF written
  <1>2. \/ Size[v] <= Limit.max_put_bytes /\ r = Result(written, "ok")
        \/ Size[v] <= Limit.max_put_bytes /\ r = Result(written, "failed")
        \/ r = Result(objects, "failed")
        \/ r = Result(objects, "refused")
    BY DEF GuardedPut, written
  <1>3. /\ r.objects \in {objects, written}
        /\ r.outcome \in {"ok", "refused", "failed"}
        /\ r.outcome = "ok" => r.objects = written
        /\ r.outcome = "ok" \/ r.objects # objects => Size[v] <= Limit.max_put_bytes
    BY <1>2 DEF Result
  <1> QED
    BY <1>1, <1>3 DEF written

LEMMA GuardedGetFacts ==
    ASSUME NEW k \in Keys, objects \in Contents, NEW r \in GuardedGet(k)
    PROVE  /\ r.outcome \in {"ok", "refused", "failed"}
           /\ r.outcome = "ok" =>
                /\ r.data = objects[k] /\ r.data \in Payloads
                /\ Size[r.data] <= GetCap
  <1>1. objects[k] # Absent => objects[k] \in Payloads
    BY DEF Contents
  <1> HIDE DEF GetCap
  <1> QED
    BY <1>1 DEF GuardedGet

(* A batch that a listing gives is a finite set of keys that hold objects. *)
LEMMA PresentFacts ==
    /\ Present(files, Below) \subseteq Files
    /\ IsFiniteSet(Present(files, Below))
    /\ Present(objects, Under) \subseteq Keys
    /\ IsFiniteSet(Present(objects, Under))
  <1>1. Present(files, Below) \subseteq Files /\ Present(objects, Under) \subseteq Keys
    BY TransfersAssumption DEF Present
  <1> QED
    BY <1>1, FS_Subset, TransfersAssumption

LEMMA PagesFacts ==
    ASSUME NEW S, IsFiniteSet(S), NEW n, NEW page \in Pages(S, n)
    PROVE  page \subseteq S /\ IsFiniteSet(page)
  <1>1. page \subseteq S
    BY DEF Pages
  <1> QED
    BY <1>1, FS_Subset

(* One more object of a batch is gone through.                             *)
LEMMA OneMore ==
    ASSUME NEW B, IsFiniteSet(B), NEW T \in SUBSET B, NEW n \in T
    PROVE  /\ Cardinality(B \ T) \in Nat
           /\ Cardinality(B \ (T \ {n})) = Cardinality(B \ T) + 1
  <1>1. IsFiniteSet(B \ T)
    BY FS_Subset, B \ T \in SUBSET B
  <1>2. n \notin B \ T /\ B \ (T \ {n}) = (B \ T) \cup {n}
    OBVIOUS
  <1> QED
    BY <1>1, <1>2, FS_AddElement, FS_CardinalityType

-----------------------------------------------------------------------------
(* The inductive invariant.                                                *)

(* A transfer in progress: its settings load, and it goes through a finite *)
(* batch.                                                                  *)
BatchInv ==
    /\ Loads(env)
    /\ IsFiniteSet(call.batch) /\ call.todo \subseteq call.batch
    /\ call.to \in [call.batch -> IF call.tool = "upload" THEN Keys ELSE Files]

(* What an upload has gone through is where it should be, unless others    *)
(* changed it; no later put can undo an earlier one.                       *)
UploadInv ==
    /\ Distinct(call.to)
    /\ \A n \in call.batch \ call.todo :
          objects[call.to[n]] = files[n]
            \/ touched \cap {<<"file", n>>, <<"key", call.to[n]>>} # {}

(* So it is for a download, unless it overwrites.                          *)
DownloadedInv ==
    ~call.overwrite \/ Distinct(call.to) =>
        \A n \in call.batch \ call.todo :
            (files[call.to[n]] = objects[n] /\ objects[n] # Absent)
              \/ touched \cap {<<"key", n>>, <<"file", call.to[n]>>} # {}

(* What is about to be written is what its key held, and nothing is there, *)
(* unless others changed it.                                               *)
HeldInv ==
    call.held # Absent =>
        \A k \in call.todo : First(k, call.todo) =>
            /\ call.held = objects[k] \/ <<"key", k>> \in touched
            /\ call.overwrite \/ files[call.to[k]] = Absent
                 \/ <<"file", call.to[k]>> \in touched

CallInv ==
    /\ call # Idle => BatchInv
    /\ call.tool = "upload" => UploadInv
    /\ call.tool = "download" => DownloadedInv /\ HeldInv

IInv == TypeOK /\ CallInv /\ RacedWithinPieces

(* A transfer that ends, or none at all, keeps the invariant.              *)
LEMMA IdleInv ==
    ASSUME call = Idle, TypeOK
    PROVE  IInv
  BY DEF IInv, CallInv, RacedWithinPieces, Idle

LEMMA AnswerInv ==
    ASSUME NEW outcome \in {"none", "ok", "refused", "failed"}, NEW n \in Nat,
           Answer(outcome, n),
           objects' \in [Keys -> Payloads \cup {Absent}],
           files' \in [Files -> Payloads \cup {Absent}],
           env' \in Environments, bytes' \in Nat
    PROVE  IInv'
  <1>1. call' = Idle /\ TypeOK'
    BY DEF Answer, TypeOK, Replies
  <1> QED
    BY <1>1 DEF IInv, CallInv, RacedWithinPieces, Idle

LEMMA RefuseInv == TypeOK /\ Refuse => IInv'
  <1> SUFFICES ASSUME TypeOK, Refuse PROVE IInv'
    OBVIOUS
  <1> QED
    BY AnswerInv DEF Refuse, TypeOK

LEMMA NothingInv == TypeOK /\ Nothing => IInv'
  <1> SUFFICES ASSUME TypeOK, Nothing PROVE IInv'
    OBVIOUS
  <1> QED
    BY AnswerInv DEF Nothing, TypeOK

LEMMA PieceCapType ==
    ASSUME env \in Environments, Loads(env)
    PROVE  PieceCap \in Nat
  BY LimitType DEF PieceCap, Lesser

(* A transfer that begins has all of its batch to do.                      *)
LEMMA BeginUploadInv ==
    ASSUME TypeOK, Loads(env),
           NEW batch \in SUBSET Files, IsFiniteSet(batch), batch # {},
           NEW to \in [batch -> Keys], Distinct(to),
           Begin([tool |-> "upload", batch |-> batch, todo |-> batch, to |-> to])
    PROVE  IInv'
  <1>1. /\ call' = [tool |-> "upload", batch |-> batch, todo |-> batch, to |-> to]
        /\ touched' = {} /\ bytes' = 0 /\ reply' \in Replies
        /\ UNCHANGED <<objects, files, env>>
    BY DEF Begin, Replies
  <1>2. to \in UNION {[S -> Keys] : S \in SUBSET Files}
    OBVIOUS
  <1>3. TypeOK'
    BY <1>1, <1>2 DEF TypeOK, Uploads
  <1>4. CallInv'
    BY <1>1 DEF CallInv, BatchInv, UploadInv, Distinct
  <1>5. PieceCap' \in Nat
    BY <1>1, <1>3, PieceCapType, LimitType DEF PieceCap, Lesser, TypeOK, Limit
  <1>6. call'.batch \ call'.todo = {} /\ call'.tool = "upload"
    BY <1>1
  <1>7. bytes' <= Cardinality(call'.batch \ call'.todo) * PieceCap'
    <2>1. Cardinality(call'.batch \ call'.todo) = 0
      BY <1>6, FS_EmptySet
    <2>2. \A n \in Nat : 0 <= 0 * n
      OBVIOUS
    <2>3. 0 <= 0 * PieceCap'
      BY <1>5, <2>2
    <2> QED
      BY <1>1, <2>1, <2>3
  <1>8. RacedWithinPieces'
    BY <1>6, <1>7 DEF RacedWithinPieces
  <1> QED
    BY <1>3, <1>4, <1>8 DEF IInv

LEMMA BeginDownloadInv ==
    ASSUME TypeOK, Loads(env),
           NEW batch \in SUBSET Keys, IsFiniteSet(batch), batch # {},
           NEW to \in [batch -> Files], NEW overwrite \in BOOLEAN,
           NEW held \in Payloads \cup {Absent},
           Begin([tool |-> "download", batch |-> batch, todo |-> batch, to |-> to,
                  overwrite |-> overwrite, held |-> held]),
           held # Absent =>
              /\ Size[held] <= GetCap
              /\ \A k \in batch : held = objects[k] /\ MayWrite(to[k], overwrite)
    PROVE  IInv'
  <1>1. /\ call' = [tool |-> "download", batch |-> batch, todo |-> batch, to |-> to,
                    overwrite |-> overwrite, held |-> held]
        /\ touched' = {} /\ bytes' = 0 /\ reply' \in Replies
        /\ UNCHANGED <<objects, files, env>>
    BY DEF Begin, Replies
  <1>2. to \in UNION {[S -> Files] : S \in SUBSET Keys}
    OBVIOUS
  <1>3. TypeOK'
    BY <1>1, <1>2 DEF TypeOK, Downloads
  <1>4. CallInv'
    BY <1>1 DEF CallInv, BatchInv, DownloadedInv, HeldInv, MayWrite
  <1>5. PieceCap' = GetCap /\ GetCap \in Nat
    BY <1>1, GetCapFacts DEF PieceCap, TypeOK, Limit
  <1>6. call'.batch \ call'.todo = {} /\ call'.tool = "download" /\ call'.held = held
    BY <1>1
  <1>7. RacedWithinPieces'
    BY <1>1, <1>5, <1>6, FS_EmptySet DEF RacedWithinPieces
  <1> QED
    BY <1>3, <1>4, <1>7 DEF IInv

-----------------------------------------------------------------------------
(* Uploads.                                                                *)

LEMMA UploadFileInv ==
    ASSUME TypeOK, NEW f \in Files, NEW k \in Keys, UploadFile(f, k)
    PROVE  IInv'
  <1>1. CASE Refuse
    BY <1>1, RefuseInv
  <1>2. CASE ~Refuse
    <2> DEFINE to == [g \in {f} |-> k]
    <2>1. /\ Loads(env)
          /\ Begin([tool |-> "upload", batch |-> {f}, todo |-> {f}, to |-> to])
      BY <1>2 DEF UploadFile
    <2>2. IsFiniteSet({f}) /\ {f} \in SUBSET Files /\ {f} # {}
      BY FS_Singleton
    <2>3. to \in [{f} -> Keys] /\ Distinct(to)
      BY DEF Distinct
    <2> HIDE DEF to
    <2> QED
      BY <2>1, <2>2, <2>3, BeginUploadInv
  <1> QED
    BY <1>1, <1>2

LEMMA UploadDirectoryInv ==
    ASSUME TypeOK, NEW asked \in Asked, UploadDirectory(asked)
    PROVE  IInv'
  <1>1. CASE Refuse
    BY <1>1, RefuseInv
  <1>2. CASE Nothing
    BY <1>2, NothingInv
  <1>3. CASE ~Refuse /\ ~Nothing
    <2> DEFINE batch == Present(files, Below)
    <2> DEFINE to == [f \in batch |-> KeyFor[f]]
    <2>1. /\ Loads(env) /\ batch # {}
          /\ Begin([tool |-> "upload", batch |-> batch, todo |-> batch, to |-> to])
      BY <1>3 DEF UploadDirectory
    <2>2. IsFiniteSet(batch) /\ batch \in SUBSET Files /\ batch \in SUBSET Below
      BY PresentFacts DEF Present
    <2> HIDE DEF batch
    <2>3. to \in [batch -> Keys] /\ Distinct(to)
      BY <2>2, TransfersAssumption DEF Distinct
    <2> HIDE DEF to
    <2> QED
      BY <2>1, <2>2, <2>3, BeginUploadInv
  <1> QED
    BY <1>1, <1>2, <1>3

(* A put of the first path leaves all that came before where it is.        *)
LEMMA UploadMoves ==
    ASSUME IInv, call.tool = "upload", NEW f \in call.todo,
           objects' = [objects EXCEPT ![call.to[f]] = files[f]]
    PROVE  \A n \in call.batch \ (call.todo \ {f}) : Moved(n)
  <1>1. /\ call \in Uploads /\ call.todo \subseteq call.batch
        /\ call.to \in [call.batch -> Keys]
        /\ UploadInv /\ objects \in [Keys -> Payloads \cup {Absent}]
    BY DEF IInv, TypeOK, Idle, Uploads, Downloads, CallInv, BatchInv
  <1>2. SUFFICES ASSUME NEW n \in call.batch \ (call.todo \ {f})
                 PROVE  \/ objects'[call.to[n]] = files[n]
                        \/ touched \cap {<<"file", n>>, <<"key", call.to[n]>>} # {}
    BY DEF Moved
  <1>3. CASE n = f
    BY <1>1, <1>3
  <1>4. CASE n # f
    <2>1. call.to[n] # call.to[f]
      BY <1>1, <1>4 DEF UploadInv, Distinct
    <2>2. objects'[call.to[n]] = objects[call.to[n]]
      BY <1>1, <2>1
    <2> QED
      BY <1>1, <1>4, <2>2 DEF UploadInv
  <1> QED
    BY <1>3, <1>4

LEMMA UploadNextInv == IInv /\ UploadNext => IInv'
  <1> SUFFICES ASSUME IInv, UploadNext
               PROVE  IInv'
    OBVIOUS
  <1> USE DEF IInv
  <1>1. /\ call \in Uploads /\ call.tool = "upload" /\ call # Idle
        /\ BatchInv /\ UploadInv
        /\ UNCHANGED <<files, env>>
    BY DEF UploadNext, TypeOK, Idle, Uploads, Downloads, CallInv
  <1>2. PICK f \in call.todo :
          /\ First(f, call.todo)
          /\ \/ /\ files[f] = Absent
                /\ Answer("failed", 0)
                /\ UNCHANGED <<objects, bytes>>
             \/ /\ files[f] # Absent
                /\ \E r \in GuardedPut(call.to[f], files[f]) :
                     /\ objects' = r.objects
                     /\ bytes' = IF r.outcome = "ok" THEN bytes + Size[files[f]] ELSE bytes
                     /\ IF r.outcome = "ok" THEN Advance(f) ELSE Answer(r.outcome, 0)
    BY DEF UploadNext
  <1>3. CASE files[f] = Absent
    BY <1>1, <1>2, <1>3, AnswerInv DEF TypeOK
  <1>4. CASE files[f] # Absent
    <2>1. PICK r \in GuardedPut(call.to[f], files[f]) :
            /\ objects' = r.objects
            /\ bytes' = IF r.outcome = "ok" THEN bytes + Size[files[f]] ELSE bytes
            /\ IF r.outcome = "ok" THEN Advance(f) ELSE Answer(r.outcome, 0)
      BY <1>2, <1>4
    <2>2. /\ f \in Files /\ f \in call.batch /\ files[f] \in Payloads
          /\ call.to[f] \in Keys /\ call.to \in [call.batch -> Keys]
      BY <1>1, <1>2, <1>4 DEF TypeOK, BatchInv, Uploads
    <2>3. /\ r.objects \in Contents
          /\ r.outcome \in {"ok", "refused", "failed"}
          /\ r.outcome = "ok" => /\ Size[files[f]] <= Limit.max_put_bytes
                                 /\ r.objects = [objects EXCEPT ![call.to[f]] = files[f]]
      BY <2>2, GuardedPutFacts DEF TypeOK, Contents
    <2>4. Size[files[f]] \in Nat /\ bytes' \in Nat
      BY <2>1, <2>2, TransfersAssumption DEF TypeOK
    <2>5. CASE r.outcome # "ok" \/ call.todo = {f}
      <3>1. Cardinality(call.batch) \in Nat
        BY <1>1, FS_CardinalityType DEF BatchInv
      <3>2. \E outcome \in {"ok", "refused", "failed"}, n \in Nat : Answer(outcome, n)
        BY <2>1, <2>3, <2>5, <3>1 DEF Advance
      <3>3. files' \in [Files -> Payloads \cup {Absent}] /\ env' \in Environments
        BY <1>1 DEF TypeOK
      <3> QED
        BY <2>1, <2>3, <2>4, <3>2, <3>3, AnswerInv DEF Contents
    <2>6. CASE r.outcome = "ok" /\ call.todo # {f}
      <3>1. /\ call' = [call EXCEPT !.todo = @ \ {f}]
            /\ UNCHANGED <<reply, touched, files, env>>
            /\ objects' = [objects EXCEPT ![call.to[f]] = files[f]]
            /\ bytes' = bytes + Size[files[f]]
        BY <1>1, <2>1, <2>3, <2>6 DEF Advance
      <3>2. /\ call'.tool = "upload" /\ call'.batch = call.batch
            /\ call'.to = call.to /\ call'.todo = call.todo \ {f}
            /\ call' \in Uploads /\ call' # Idle
        BY <1>1, <1>2, <2>6, <3>1 DEF Uploads, Idle
      <3>3. TypeOK'
        BY <2>1, <2>3, <2>4, <3>1, <3>2 DEF TypeOK, Contents
      <3>4. BatchInv'
        BY <1>1, <3>1, <3>2 DEF BatchInv
      <3>5. UploadInv'
        <4>1. Distinct(call'.to)
          BY <1>1, <3>2 DEF UploadInv
        <4>2. \A n \in call.batch \ (call.todo \ {f}) : Moved(n)
          BY <1>1, <1>2, <3>1, UploadMoves
        <4> QED
          BY <1>1, <3>1, <3>2, <4>1, <4>2 DEF UploadInv, Moved
      <3>6. RacedWithinPieces'
        <4> DEFINE done == Cardinality(call.batch \ call.todo)
        <4>1. /\ PieceCap = Limit.max_put_bytes /\ PieceCap \in Nat
              /\ PieceCap' = PieceCap
          BY <1>1, <3>1, <3>2, PieceCapType DEF PieceCap, Limit, BatchInv, TypeOK
        <4>2. /\ done \in Nat
              /\ Cardinality(call'.batch \ call'.todo) = done + 1
          <5>1. /\ IsFiniteSet(call.batch) /\ call.todo \in SUBSET call.batch
                /\ f \in call.todo
            BY <1>1, <1>2 DEF BatchInv
          <5>2. call'.batch \ call'.todo = call.batch \ (call.todo \ {f})
            BY <3>2
          <5>3. /\ Cardinality(call.batch \ call.todo) \in Nat
                /\ Cardinality(call.batch \ (call.todo \ {f})) = done + 1
            BY <5>1, OneMore
          <5> QED
            BY <5>2, <5>3
        <4>3. bytes <= done * PieceCap
          BY <1>1 DEF RacedWithinPieces
        <4>4. (done + 1) * PieceCap = done * PieceCap + PieceCap
          BY <4>1, <4>2
        <4>5. done * PieceCap \in Nat
          BY <4>1, <4>2
        <4> HIDE DEF done
        <4>6. bytes' <= (done + 1) * PieceCap
          BY <2>3, <2>4, <2>6, <3>1, <4>1, <4>3, <4>4, <4>5 DEF TypeOK
        <4> QED
          BY <3>2, <4>1, <4>2, <4>6 DEF RacedWithinPieces
      <3>7. CallInv'
        BY <3>2, <3>4, <3>5 DEF CallInv
      <3> QED
        BY <3>3, <3>6, <3>7
    <2> QED
      BY <2>3, <2>5, <2>6
  <1> QED
    BY <1>3, <1>4

-----------------------------------------------------------------------------
(* Downloads.                                                              *)

LEMMA DownloadFileInv ==
    ASSUME TypeOK, NEW k \in Keys, NEW f \in Files, NEW overwrite \in BOOLEAN,
           DownloadFile(k, f, overwrite)
    PROVE  IInv'
  <1>1. CASE Refuse
    BY <1>1, RefuseInv
  <1>2. CASE ~Refuse
    <2>1. Loads(env) /\ MayWrite(f, overwrite)
      BY <1>2 DEF DownloadFile
    <2>2. PICK r \in GuardedGet(k) :
            IF r.outcome = "ok"
            THEN Begin([tool |-> "download", batch |-> {k}, todo |-> {k},
                        to |-> [j \in {k} |-> f], overwrite |-> overwrite,
                        held |-> r.data])
            ELSE /\ Answer(r.outcome, 0)
                 /\ bytes' = 0
                 /\ UNCHANGED <<objects, files, env>>
      BY <2>1 DEF DownloadFile
    <2>3. /\ r.outcome \in {"ok", "refused", "failed"}
          /\ r.outcome = "ok" => /\ r.data = objects[k] /\ r.data \in Payloads
                                 /\ Size[r.data] <= GetCap
      BY GuardedGetFacts DEF TypeOK, Contents
    <2>4. CASE r.outcome # "ok"
      BY <2>2, <2>3, <2>4, AnswerInv DEF TypeOK
    <2>5. CASE r.outcome = "ok"
      <3> DEFINE to == [j \in {k} |-> f]
      <3> DEFINE held == r.data
      <3>1. IsFiniteSet({k}) /\ {k} \in SUBSET Keys /\ {k} # {}
        BY FS_Singleton
      <3>2. to \in [{k} -> Files] /\ to[k] = f
        OBVIOUS
      <3>3. Begin([tool |-> "download", batch |-> {k}, todo |-> {k}, to |-> to,
                   overwrite |-> overwrite, held |-> held])
        BY <2>2, <2>5
      <3>4. /\ held \in Payloads \cup {Absent} /\ Size[held] <= GetCap
            /\ \A j \in {k} : held = objects[j] /\ MayWrite(to[j], overwrite)
        BY <2>1, <2>3, <2>5, <3>2
      <3> HIDE DEF to, held
      <3> QED
        BY <2>1, <3>1, <3>2, <3>3, <3>4, BeginDownloadInv
    <2> QED
      BY <2>4, <2>5
  <1> QED
    BY <1>1, <1>2

LEMMA DownloadPrefixInv ==
    ASSUME TypeOK, NEW asked \in Asked, NEW overwrite \in BOOLEAN,
           DownloadPrefix(asked, overwrite)
    PROVE  IInv'
  <1>1. CASE Refuse
    BY <1>1, RefuseInv
  <1>2. CASE Nothing
    BY <1>2, NothingInv
  <1>3. CASE Answer("failed", 0) /\ bytes' = 0 /\ UNCHANGED <<objects, files, env>>
    BY <1>3, AnswerInv DEF TypeOK
  <1>4. CASE /\ ~Refuse /\ ~Nothing
             /\ ~(Answer("failed", 0) /\ bytes' = 0 /\ UNCHANGED <<objects, files, env>>)
    <2> DEFINE n == KeyCap(BatchCap(asked), Limit.max_list_keys)
    <2>1. Loads(env)
      BY <1>4 DEF DownloadPrefix
    <2>2. PICK page \in Pages(Present(objects, Under), n) :
            /\ page # {}
            /\ Begin([tool |-> "download", batch |-> page, todo |-> page,
                      to |-> [k \in page |-> TargetFor[k]],
                      overwrite |-> overwrite, held |-> Absent])
      BY <1>4 DEF DownloadPrefix
    <2> HIDE DEF n
    <2>3. /\ page \subseteq Present(objects, Under) /\ IsFiniteSet(page)
      BY <2>2, PresentFacts, PagesFacts
    <2>4. page \in SUBSET Keys /\ page \subseteq Under
      BY <2>3, PresentFacts DEF Present
    <2> DEFINE to == [k \in page |-> TargetFor[k]]
    <2>5. to \in [page -> Files]
      BY <2>4, TransfersAssumption
    <2>6. Begin([tool |-> "download", batch |-> page, todo |-> page, to |-> to,
                 overwrite |-> overwrite, held |-> Absent])
      BY <2>2
    <2> HIDE DEF to
    <2> QED
      BY <2>1, <2>2, <2>3, <2>4, <2>5, <2>6, BeginDownloadInv
  <1> QED
    BY <1>1, <1>2, <1>3, <1>4

LEMMA DownloadGetInv == IInv /\ DownloadGet => IInv'
  <1> SUFFICES ASSUME IInv, DownloadGet
               PROVE  IInv'
    OBVIOUS
  <1> USE DEF IInv
  <1>1. /\ call \in Downloads /\ call.tool = "download" /\ call # Idle
        /\ call.held = Absent
        /\ BatchInv /\ DownloadedInv
        /\ UNCHANGED <<objects, files, env, bytes>>
    BY DEF DownloadGet, TypeOK, Idle, Uploads, Downloads, CallInv
  <1>2. PICK k \in call.todo :
          /\ First(k, call.todo)
          /\ IF MayWrite(call.to[k], call.overwrite)
             THEN \E r \in GuardedGet(k) :
                    IF r.outcome = "ok"
                    THEN call' = [call EXCEPT !.held = r.data] /\ UNCHANGED <<reply, touched>>
                    ELSE Answer(r.outcome, 0)
             ELSE Answer("refused", 0)
    BY DEF DownloadGet
  <1>3. k \in Keys
    BY <1>1 DEF Downloads
  <1>4. CASE \E outcome \in {"refused", "failed"} : Answer(outcome, 0)
    BY <1>1, <1>4, AnswerInv DEF TypeOK
  <1>5. CASE ~\E outcome \in {"refused", "failed"} : Answer(outcome, 0)
    <2>1. PICK r \in GuardedGet(k) :
            IF r.outcome = "ok"
            THEN call' = [call EXCEPT !.held = r.data] /\ UNCHANGED <<reply, touched>>
            ELSE Answer(r.outcome, 0)
      BY <1>2, <1>5
    <2>2. /\ r.outcome \in {"ok", "refused", "failed"}
          /\ r.outcome = "ok" => /\ r.data = objects[k] /\ r.data \in Payloads
                                 /\ Size[r.data] <= GetCap
      BY <1>3, GuardedGetFacts DEF TypeOK, Contents
    <2>3. r.outcome = "ok" /\ MayWrite(call.to[k], call.overwrite)
      BY <1>2, <1>5, <2>1, <2>2
    <2>4. /\ call' = [call EXCEPT !.held = r.data] /\ UNCHANGED <<reply, touched>>
      BY <2>1, <2>3
    <2>5. /\ call'.tool = "download" /\ call'.batch = call.batch
          /\ call'.todo = call.todo /\ call'.to = call.to
          /\ call'.overwrite = call.overwrite /\ call'.held = r.data
          /\ call' \in Downloads /\ call' # Idle
      BY <1>1, <2>2, <2>3, <2>4 DEF Downloads, Idle
    <2>6. TypeOK'
      BY <1>1, <2>4, <2>5 DEF TypeOK
    <2>7. BatchInv' /\ DownloadedInv'
      BY <1>1, <2>4, <2>5 DEF BatchInv, DownloadedInv
    <2>8. HeldInv'
      <3> SUFFICES ASSUME NEW j \in call.todo, First(j, call.todo)
                   PROVE  /\ r.data = objects[j]
                          /\ call.overwrite \/ files[call.to[j]] = Absent
        BY <1>1, <2>4, <2>5 DEF HeldInv
      <3>1. j = k
        <4>1. j <= k /\ k <= j /\ j \in Nat /\ k \in Nat
          BY <1>1, <1>2, <1>3, TransfersAssumption DEF First, Downloads
        <4> QED
          BY <4>1
      <3> QED
        BY <2>2, <2>3, <3>1 DEF MayWrite
    <2>9. RacedWithinPieces'
      <3>1. PieceCap' = PieceCap /\ PieceCap = GetCap
        BY <1>1, <2>5, GetCapFacts DEF PieceCap, Limit, BatchInv, TypeOK
      <3> QED
        BY <1>1, <2>2, <2>3, <2>5, <3>1 DEF RacedWithinPieces
    <2> QED
      BY <2>5, <2>6, <2>7, <2>8, <2>9 DEF CallInv
  <1> QED
    BY <1>4, <1>5

Downloaded(n) ==
    \/ files'[call.to[n]] = objects[n] /\ objects[n] # Absent
    \/ touched \cap {<<"key", n>>, <<"file", call.to[n]>>} # {}

(* A write for the first key leaves all that came before where it is: if   *)
(* an earlier key has the same target, the target is there.                *)
LEMMA DownloadMoves ==
    ASSUME IInv, call.tool = "download", call.held # Absent,
           NEW k \in call.todo, First(k, call.todo),
           files' = [files EXCEPT ![call.to[k]] = call.held],
           ~call.overwrite \/ Distinct(call.to)
    PROVE  \A n \in call.batch \ (call.todo \ {k}) : Downloaded(n)
  <1>1. /\ call \in Downloads /\ call.todo \subseteq call.batch
        /\ call.to \in [call.batch -> Files]
        /\ DownloadedInv /\ HeldInv
        /\ files \in [Files -> Payloads \cup {Absent}]
    BY DEF IInv, TypeOK, Idle, Uploads, Downloads, CallInv, BatchInv
  <1>2. /\ call.held = objects[k] \/ <<"key", k>> \in touched
        /\ call.overwrite \/ files[call.to[k]] = Absent
             \/ <<"file", call.to[k]>> \in touched
    BY <1>1 DEF HeldInv
  <1>3. SUFFICES ASSUME NEW n \in call.batch \ (call.todo \ {k})
                 PROVE  Downloaded(n)
    OBVIOUS
  <1>4. CASE n = k
    BY <1>1, <1>2, <1>4 DEF Downloaded
  <1>5. CASE n # k
    <2>1. \/ files[call.to[n]] = objects[n] /\ objects[n] # Absent
          \/ touched \cap {<<"key", n>>, <<"file", call.to[n]>>} # {}
      BY <1>1, <1>5 DEF DownloadedInv
    <2>2. CASE call.to[n] # call.to[k]
      <3>1. files'[call.to[n]] = files[call.to[n]]
        BY <1>1, <2>2
      <3> QED
        BY <2>1, <3>1 DEF Downloaded
    <2>3. CASE call.to[n] = call.to[k]
      <3>1. ~call.overwrite
        BY <1>1, <1>5, <2>3 DEF Distinct
      <3> QED
        BY <1>2, <2>1, <2>3, <3>1 DEF Downloaded
    <2> QED
      BY <2>2, <2>3
  <1> QED
    BY <1>4, <1>5

LEMMA DownloadWriteInv == IInv /\ DownloadWrite => IInv'
  <1> SUFFICES ASSUME IInv, DownloadWrite
               PROVE  IInv'
    OBVIOUS
  <1> USE DEF IInv
  <1>1. /\ call \in Downloads /\ call.tool = "download" /\ call # Idle
        /\ call.held # Absent /\ call.held \in Payloads
        /\ BatchInv /\ DownloadedInv /\ HeldInv
        /\ UNCHANGED <<objects, env>>
    BY DEF DownloadWrite, TypeOK, Idle, Uploads, Downloads, CallInv
  <1>2. PICK k \in call.todo :
          /\ First(k, call.todo)
          /\ \/ /\ files' = [files EXCEPT ![call.to[k]] = call.held]
                /\ bytes' = bytes + Size[call.held]
                /\ Advance(k)
             \/ /\ files' \in {files, [files EXCEPT ![call.to[k]] = Empty]}
                /\ Answer("failed", 0)
                /\ UNCHANGED bytes
    BY DEF DownloadWrite
  <1>3. /\ k \in Keys /\ k \in call.batch
        /\ call.to[k] \in Files /\ call.to \in [call.batch -> Files]
    BY <1>1, <1>2 DEF Downloads, BatchInv
  <1>4. Size[call.held] \in Nat /\ Empty \in Payloads
    BY <1>1, TransfersAssumption
  <1>5. /\ bytes' \in Nat /\ env' \in Environments
        /\ files' \in [Files -> Payloads \cup {Absent}]
        /\ objects' \in [Keys -> Payloads \cup {Absent}]
    BY <1>1, <1>2, <1>3, <1>4 DEF TypeOK
  <1>6. CASE \E outcome \in {"ok", "failed"}, n \in Nat : Answer(outcome, n)
    BY <1>5, <1>6, AnswerInv
  <1>7. CASE ~\E outcome \in {"ok", "failed"}, n \in Nat : Answer(outcome, n)
    <2>1. Cardinality(call.batch) \in Nat
      BY <1>1, FS_CardinalityType DEF BatchInv
    <2>2. /\ files' = [files EXCEPT ![call.to[k]] = call.held]
          /\ bytes' = bytes + Size[call.held]
          /\ Advance(k) /\ call.todo # {k}
      BY <1>2, <1>7, <2>1 DEF Advance
    <2>3. /\ call' = [call EXCEPT !.todo = @ \ {k}, !.held = Absent]
          /\ UNCHANGED <<reply, touched>>
      BY <1>1, <2>2 DEF Advance
    <2>4. /\ call'.tool = "download" /\ call'.batch = call.batch
          /\ call'.todo = call.todo \ {k} /\ call'.to = call.to
          /\ call'.overwrite = call.overwrite /\ call'.held = Absent
          /\ call' \in Downloads /\ call' # Idle
      BY <1>1, <1>2, <2>2, <2>3 DEF Downloads, Idle
    <2>5. TypeOK'
      BY <1>5, <2>3, <2>4 DEF TypeOK
    <2>6. BatchInv' /\ HeldInv'
      BY <1>1, <2>4 DEF BatchInv, HeldInv
    <2>7. DownloadedInv'
      <3>1. ~call.overwrite \/ Distinct(call.to) =>
              \A n \in call.batch \ (call.todo \ {k}) : Downloaded(n)
        BY <1>1, <1>2, <2>2, DownloadMoves
      <3> QED
        BY <1>1, <2>3, <2>4, <3>1 DEF DownloadedInv, Distinct, Downloaded
    <2>8. RacedWithinPieces'
      <3> DEFINE done == Cardinality(call.batch \ call.todo)
      <3>1. /\ PieceCap' = PieceCap /\ PieceCap \in Nat
            /\ Size[call.held] <= PieceCap /\ bytes <= done * PieceCap
        BY <1>1, <2>4, PieceCapType
        DEF PieceCap, Limit, BatchInv, TypeOK, RacedWithinPieces
      <3>2. /\ done \in Nat
            /\ Cardinality(call'.batch \ call'.todo) = done + 1
        <4>1. /\ IsFiniteSet(call.batch) /\ call.todo \in SUBSET call.batch
              /\ k \in call.todo
          BY <1>1, <1>2 DEF BatchInv
        <4>2. call'.batch \ call'.todo = call.batch \ (call.todo \ {k})
          BY <2>4
        <4>3. /\ Cardinality(call.batch \ call.todo) \in Nat
              /\ Cardinality(call.batch \ (call.todo \ {k})) = done + 1
          BY <4>1, OneMore
        <4> QED
          BY <4>2, <4>3
      <3>3. (done + 1) * PieceCap = done * PieceCap + PieceCap
        BY <3>1, <3>2
      <3>4. done * PieceCap \in Nat
        BY <3>1, <3>2
      <3> HIDE DEF done
      <3>5. bytes' <= (done + 1) * PieceCap
        BY <1>4, <2>2, <3>1, <3>3, <3>4 DEF TypeOK
      <3> QED
        BY <2>4, <3>1, <3>2, <3>5 DEF RacedWithinPieces
    <2> QED
      BY <2>4, <2>5, <2>6, <2>7, <2>8 DEF CallInv
  <1> QED
    BY <1>6, <1>7

-----------------------------------------------------------------------------
(* Others.                                                                 *)

(* A change to the contents outside the process is one of touched.         *)
LEMMA OthersInv ==
    ASSUME IInv, UNCHANGED <<env, call, reply, bytes>>,
           objects' \in [Keys -> Payloads \cup {Absent}],
           files' \in [Files -> Payloads \cup {Absent}],
           touched' \subseteq ({"key"} \X Keys) \cup ({"file"} \X Files),
           call # Idle => touched \subseteq touched',
           call # Idle => \A k \in Keys :
               objects'[k] = objects[k] \/ <<"key", k>> \in touched',
           call # Idle => \A f \in Files :
               files'[f] = files[f] \/ <<"file", f>> \in touched'
    PROVE  IInv'
  <1> USE DEF IInv
  <1>1. TypeOK'
    BY DEF TypeOK
  <1>2. RacedWithinPieces'
    BY DEF RacedWithinPieces, PieceCap, Limit
  <1>3. CASE call = Idle
    BY <1>1, <1>2, <1>3 DEF CallInv, Idle
  <1>4. CASE call # Idle
    <2>1. BatchInv'
      BY <1>4 DEF CallInv, BatchInv
    <2>2. ASSUME call.tool = "upload"
          PROVE  UploadInv'
      <3>1. /\ UploadInv /\ call.to \in [call.batch -> Keys]
            /\ call.batch \subseteq Files
        BY <1>4, <2>2 DEF CallInv, BatchInv, TypeOK, Uploads, Downloads
      <3> QED
        BY <1>4, <3>1 DEF UploadInv, Distinct
    <2>3. ASSUME call.tool = "download"
          PROVE  DownloadedInv' /\ HeldInv'
      <3>1. /\ DownloadedInv /\ HeldInv /\ call.to \in [call.batch -> Files]
            /\ call.batch \subseteq Keys /\ call.todo \subseteq call.batch
        BY <1>4, <2>3 DEF CallInv, BatchInv, TypeOK, Uploads, Downloads
      <3>2. DownloadedInv'
        BY <1>4, <3>1 DEF DownloadedInv, Distinct
      <3>3. HeldInv'
        BY <1>4, <3>1 DEF HeldInv
      <3> QED
        BY <3>2, <3>3
    <2> QED
      BY <1>1, <1>2, <1>4, <2>1, <2>2, <2>3 DEF CallInv
  <1> QED
    BY <1>3, <1>4

LEMMA InitIInv == Init => IInv
  <1> SUFFICES ASSUME Init PROVE IInv
    OBVIOUS
  <1>1. TypeOK /\ call = Idle
    BY DEF Init, TypeOK, Replies
  <1> QED
    BY <1>1, IdleInv

LEMMA NextIInv == IInv /\ [Next]_vars => IInv'
  <1> SUFFICES ASSUME IInv, [Next]_vars
               PROVE  IInv'
    OBVIOUS
  <1>1. TypeOK
    BY DEF IInv
  <1>2. ASSUME NEW f \in Files, NEW k \in Keys, UploadFile(f, k)
        PROVE  IInv'
    BY <1>1, <1>2, UploadFileInv
  <1>3. ASSUME NEW asked \in Asked, UploadDirectory(asked)
        PROVE  IInv'
    BY <1>1, <1>3, UploadDirectoryInv
  <1>4. CASE UploadNext
    BY <1>4, UploadNextInv
  <1>5. ASSUME NEW k \in Keys, NEW f \in Files, NEW overwrite \in BOOLEAN,
               DownloadFile(k, f, overwrite)
        PROVE  IInv'
    BY <1>1, <1>5, DownloadFileInv
  <1>6. ASSUME NEW asked \in Asked, NEW overwrite \in BOOLEAN,
               DownloadPrefix(asked, overwrite)
        PROVE  IInv'
    BY <1>1, <1>6, DownloadPrefixInv
  <1>7. CASE DownloadGet
    BY <1>7, DownloadGetInv
  <1>8. CASE DownloadWrite
    BY <1>8, DownloadWriteInv
  <1>9. ASSUME NEW k \in Keys, NEW v \in Payloads \cup {Absent}, OthersStore(k, v)
        PROVE  IInv'
    <2>1. /\ objects' = [objects EXCEPT ![k] = v]
          /\ UNCHANGED <<files, env, call, reply, bytes>>
          /\ touched' = IF call = Idle THEN {} ELSE touched \cup {<<"key", k>>}
      BY <1>9 DEF OthersStore, Touch
    <2>2. touched' \subseteq ({"key"} \X Keys) \cup ({"file"} \X Files)
      BY <1>1, <2>1 DEF TypeOK
    <2> QED
      BY <1>1, <2>1, <2>2, OthersInv DEF TypeOK
  <1>10. ASSUME NEW f \in Files, NEW v \in Payloads \cup {Absent}, OthersWrite(f, v)
         PROVE  IInv'
    <2>1. /\ files' = [files EXCEPT ![f] = v]
          /\ UNCHANGED <<objects, env, call, reply, bytes>>
          /\ touched' = IF call = Idle THEN {} ELSE touched \cup {<<"file", f>>}
      BY <1>10 DEF OthersWrite, Touch
    <2>2. touched' \subseteq ({"key"} \X Keys) \cup ({"file"} \X Files)
      BY <1>1, <2>1 DEF TypeOK
    <2> QED
      BY <1>1, <2>1, <2>2, OthersInv DEF TypeOK
  <1>11. ASSUME NEW e \in Environments, Restart(e)
         PROVE  IInv'
    BY <1>1, <1>11, AnswerInv DEF Restart, TypeOK
  <1>12. CASE UNCHANGED vars
    BY <1>1, <1>12, OthersInv DEF vars, TypeOK
  <1> QED
    BY <1>2, <1>3, <1>4, <1>5, <1>6, <1>7, <1>8, <1>9, <1>10, <1>11, <1>12 DEF Next

THEOREM TransfersInvariance == Spec => []IInv
  BY InitIInv, NextIInv, PTL DEF Spec

-----------------------------------------------------------------------------
(* The properties.                                                         *)

(* The variables of the transfer tools keep their types.                   *)
THEOREM TransfersTypeCorrect == Spec => []TypeOK
  <1>1. IInv => TypeOK
    BY DEF IInv
  <1> QED
    BY <1>1, TransfersInvariance, PTL

(* Whatever others write meanwhile, a batch moves at most the governor's   *)
(* cap for each object it has gone through (guard.py get_object and        *)
(* put_object).                                                            *)
THEOREM RacedTransfersBounded == Spec => []RacedWithinPieces
  <1>1. IInv => RacedWithinPieces
    BY DEF IInv
  <1> QED
    BY <1>1, TransfersInvariance, PTL

(* Only its own write and others change a file while a download runs.      *)
LEMMA FilesChange ==
    ASSUME IInv, [Next]_vars, call.tool = "download", NEW f \in Files,
           files'[f] # files[f]
    PROVE  DownloadWrite \/ <<"file", f>> \in touched'
  <1>1. call # Idle /\ files \in [Files -> Payloads \cup {Absent}]
    BY DEF IInv, TypeOK, Idle
  <1>2. CASE DownloadWrite
    BY <1>2
  <1>3. ASSUME NEW g \in Files, NEW v \in Payloads \cup {Absent}, OthersWrite(g, v)
        PROVE  <<"file", f>> \in touched'
    BY <1>1, <1>3 DEF OthersWrite, Touch
  <1>4. CASE UploadNext \/ DownloadGet
              \/ (\E k \in Keys, v \in Payloads \cup {Absent} : OthersStore(k, v))
              \/ (\E e \in Environments : Restart(e))
    BY <1>4 DEF UploadNext, DownloadGet, OthersStore, Restart
  <1> QED
    BY <1>1, <1>2, <1>3, <1>4
    DEF Next, vars, UploadFile, UploadDirectory, DownloadFile, DownloadPrefix

(* Without overwrite a download loses no file except one that others wrote *)
(* during it.                                                              *)
THEOREM DownloadsDoNotClobber == Spec => NoClobber
  <1> DEFINE Step ==
        \A f \in Files :
            call.tool = "download" /\ ~call.overwrite
              /\ files[f] # Absent /\ files'[f] # files[f]
            => <<"file", f>> \in touched \cup touched'
  <1>1. IInv /\ [Next]_vars => Step
    <2> SUFFICES ASSUME IInv, [Next]_vars, NEW f \in Files,
                        call.tool = "download", ~call.overwrite,
                        files[f] # Absent, files'[f] # files[f],
                        <<"file", f>> \notin touched'
                 PROVE  <<"file", f>> \in touched
      OBVIOUS
    <2>1. DownloadWrite
      BY FilesChange
    <2>2. PICK k \in call.todo :
            /\ First(k, call.todo)
            /\ files' \in {files, [files EXCEPT ![call.to[k]] = call.held],
                          [files EXCEPT ![call.to[k]] = Empty]}
      BY <2>1 DEF DownloadWrite
    <2>3. f = call.to[k]
      BY <2>2 DEF IInv, TypeOK
    <2>4. HeldInv /\ call.held # Absent
      BY <2>1 DEF DownloadWrite, IInv, CallInv
    <2> QED
      BY <2>2, <2>3, <2>4 DEF HeldInv
  <1> QED
    BY <1>1, TransfersInvariance, PTL DEF Spec, NoClobber

(* The step on which a transfer answers success is the last of its loop.   *)
LEMMA SuccessStep ==
    ASSUME IInv, [Next]_vars, Answers("ok")
    PROVE  UploadNext \/ DownloadWrite
  <1>1. CASE DownloadGet
    <2>1. PICK k \in call.todo :
            IF MayWrite(call.to[k], call.overwrite)
            THEN \E r \in GuardedGet(k) :
                   IF r.outcome = "ok"
                   THEN call' = [call EXCEPT !.held = r.data]
                   ELSE reply'.outcome = r.outcome
            ELSE reply'.outcome = "refused"
      BY <1>1 DEF DownloadGet, Answer
    <2>2. call' # [call EXCEPT !.held = Absent]
          /\ \A v \in Payloads : call' # [call EXCEPT !.held = v]
      <3>1. call \in Downloads /\ call' = Idle
        BY <1>1 DEF DownloadGet, Answers, IInv, TypeOK, Idle, Uploads, Downloads
      <3> QED
        BY <3>1 DEF Downloads, Idle
    <2>3. k \in Keys
      BY <1>1 DEF DownloadGet, IInv, TypeOK, Idle, Uploads, Downloads
    <2>4. \A r \in GuardedGet(k) : r.outcome = "ok" => r.data \in Payloads
      BY <2>3, GuardedGetFacts DEF IInv, TypeOK, Contents
    <2> QED
      BY <2>1, <2>2, <2>4 DEF Answers
  <1>2. CASE \E e \in Environments : Restart(e)
    BY <1>2 DEF Restart, Answer, Answers
  <1>3. CASE \/ \E k \in Keys, v \in Payloads \cup {Absent} : OthersStore(k, v)
             \/ \E f \in Files, v \in Payloads \cup {Absent} : OthersWrite(f, v)
             \/ UNCHANGED vars
    BY <1>3 DEF OthersStore, OthersWrite, vars, Answers
  <1> QED
    BY <1>1, <1>2, <1>3
    DEF Next, UploadFile, UploadDirectory, DownloadFile, DownloadPrefix, Answers

(* A transfer that answers success has moved each one of its batch, those  *)
(* that others changed and several keys overwriting one target excepted    *)
(* (the answers of the batch tools).                                       *)
THEOREM SuccessMeansMoved == Spec => ReportedIsMoved
  <1> DEFINE Step ==
        Answers("ok") =>
          /\ reply'.count = Cardinality(call.batch)
          /\ call.tool = "upload" \/ ~call.overwrite \/ Distinct(call.to) =>
               \A n \in call.batch : Moved(n)
  <1>1. IInv /\ [Next]_vars => Step
    <2> SUFFICES ASSUME IInv, [Next]_vars, Answers("ok")
                 PROVE  Step
      OBVIOUS
    <2>1. CASE UploadNext
      <3>1. call.tool = "upload" /\ call \in Uploads /\ call' = Idle
        BY <2>1 DEF UploadNext, Answers, IInv, TypeOK, Idle, Uploads, Downloads
      <3>2. PICK f \in call.todo :
              \/ Answer("failed", 0)
              \/ \E r \in GuardedPut(call.to[f], files[f]) :
                   /\ files[f] # Absent
                   /\ objects' = r.objects
                   /\ IF r.outcome = "ok" THEN Advance(f) ELSE Answer(r.outcome, 0)
        BY <2>1 DEF UploadNext
      <3>3. ~Answer("failed", 0)
        BY DEF Answer, Answers
      <3>4. PICK r \in GuardedPut(call.to[f], files[f]) :
              /\ files[f] # Absent
              /\ objects' = r.objects
              /\ IF r.outcome = "ok" THEN Advance(f) ELSE Answer(r.outcome, 0)
        BY <3>2, <3>3
      <3>5. r.outcome = "ok" /\ Advance(f)
        BY <3>4 DEF Answer, Answers
      <3>6. call.todo = {f} /\ reply'.count = Cardinality(call.batch)
        BY <3>1, <3>5 DEF Advance, Answer, Uploads, Idle
      <3>7. call.to[f] \in Keys /\ files[f] \in Payloads
        BY <3>1, <3>4 DEF IInv, TypeOK, CallInv, BatchInv, Uploads, Idle
      <3>8. objects' = [objects EXCEPT ![call.to[f]] = files[f]]
        BY <3>4, <3>5, <3>7, GuardedPutFacts DEF IInv, TypeOK, Contents
      <3>9. \A n \in call.batch \ (call.todo \ {f}) : Moved(n)
        BY <3>1, <3>8, UploadMoves
      <3> QED
        BY <3>6, <3>9
    <2>2. CASE DownloadWrite
      <3>1. /\ call.tool = "download" /\ call \in Downloads /\ call' = Idle
            /\ call.held # Absent
        BY <2>2 DEF DownloadWrite, Answers, IInv, TypeOK, Idle, Uploads, Downloads
      <3>2. PICK k \in call.todo :
              /\ First(k, call.todo)
              /\ \/ files' = [files EXCEPT ![call.to[k]] = call.held] /\ Advance(k)
                 \/ Answer("failed", 0)
        BY <2>2 DEF DownloadWrite
      <3>3. files' = [files EXCEPT ![call.to[k]] = call.held] /\ Advance(k)
        BY <3>2 DEF Answer, Answers
      <3>4. call.todo = {k} /\ reply'.count = Cardinality(call.batch)
        <4>1. [call EXCEPT !.todo = @ \ {k}, !.held = Absent].tool = "download"
          BY <3>1 DEF Downloads
        <4>2. call'.tool = "idle"
          BY <3>1 DEF Idle
        <4>3. call.todo = {k}
          BY <3>1, <3>3, <4>1, <4>2 DEF Advance
        <4> QED
          BY <3>3, <4>3 DEF Advance, Answer
      <3>5. ~call.overwrite \/ Distinct(call.to) =>
              \A n \in call.batch : Downloaded(n)
        BY <3>1, <3>2, <3>3, <3>4, DownloadMoves
      <3>6. \A n \in call.batch : Downloaded(n) => Moved(n)
        BY <3>1 DEF Downloaded, Moved
      <3> QED
        BY <3>1, <3>4, <3>5, <3>6
    <2> QED
      BY <2>1, <2>2, SuccessStep
  <1> QED
    BY <1>1, TransfersInvariance, PTL DEF Spec, ReportedIsMoved

-----------------------------------------------------------------------------
(* The transfer tools implement GovernedStore with the deletes off.        *)

Stored == [l \in {"bucket"} \X Keys |-> objects[l[2]]]

GovernedStep == [Governed!Next]_(Governed!vars)

LEMMA StoreStays ==
    ASSUME objects' = objects PROVE GovernedStep
  <1>1. Governed!Reset
    BY DEF Governed!Reset
  <1> QED
    BY <1>1 DEF GovernedStep, Governed!Next

LEMMA PutIsGoverned ==
    ASSUME objects \in Contents, NEW k \in Keys, NEW v \in Payloads,
           Loads(env), Size[v] <= Limit.max_put_bytes, env' = env,
           objects' = [objects EXCEPT ![k] = v]
    PROVE  GovernedStep
  <1>1. <<"bucket", k>> \in Governed!Locations /\ <<"bucket", k>>[1] = "bucket"
    BY DEF Governed!Locations
  <1>2. ASSUME NEW m \in {"bucket"} \X Keys
        PROVE  objects'[m[2]] = IF m = <<"bucket", k>> THEN v ELSE objects[m[2]]
    BY DEF Contents
  <1>3. Stored' = [Stored EXCEPT ![<<"bucket", k>>] = v]
    BY <1>2 DEF Stored
  <1>4. v # Absent
    BY TransfersAssumption
  <1>5. UNCHANGED Governed!Unset
    BY DEF Governed!Unset, Limit
  <1>6. Governed!Write(<<"bucket", k>>, v)
    BY <1>1, <1>3, <1>4, <1>5 DEF Governed!Write, Stored
  <1> QED
    BY <1>1, <1>6 DEF GovernedStep, Governed!Next

(* The only step of a transfer that changes the store.                     *)
LEMMA UploadNextIsGoverned == IInv /\ UploadNext => GovernedStep
  <1> SUFFICES ASSUME IInv, UploadNext, objects' # objects
               PROVE  GovernedStep
    BY StoreStays
  <1>1. /\ call \in Uploads /\ BatchInv /\ env' = env
        /\ objects \in Contents /\ files \in [Files -> Payloads \cup {Absent}]
    BY DEF UploadNext, IInv, TypeOK, Idle, Downloads, CallInv, Contents
  <1>2. PICK f \in call.todo :
          files[f] # Absent /\ \E r \in GuardedPut(call.to[f], files[f]) : objects' = r.objects
    BY DEF UploadNext
  <1>3. PICK r \in GuardedPut(call.to[f], files[f]) : objects' = r.objects
    BY <1>2
  <1>4. call.to[f] \in Keys /\ files[f] \in Payloads
    BY <1>1, <1>2 DEF Uploads, BatchInv
  <1>5. /\ Size[files[f]] <= Limit.max_put_bytes
        /\ objects' = [objects EXCEPT ![call.to[f]] = files[f]]
    BY <1>1, <1>3, <1>4, GuardedPutFacts
  <1>6. Loads(env)
    BY <1>1 DEF BatchInv
  <1> QED
    BY <1>1, <1>4, <1>5, <1>6, PutIsGoverned

(* However long ago its sizes were checked, an upload puts nothing that    *)
(* the put cap of the moment keeps out, and no transfer removes or moves   *)
(* an object: the four tools do to the store only what the object tools    *)
(* may (ImplementsGovernedStore), and less.                                *)
THEOREM TransfersKeepTheGovernor == Spec => TransfersAreGoverned
  <1>1. ASSUME IInv, [Next]_vars
        PROVE  \/ \E k \in Keys, v \in Payloads \cup {Absent} : OthersStore(k, v)
               \/ GovernedStep
    <2>1. ASSUME NEW f \in Files, NEW k \in Keys, UploadFile(f, k)
          PROVE  objects' = objects
      BY <2>1 DEF UploadFile, Begin, Refuse
    <2>2. ASSUME NEW asked \in Asked, UploadDirectory(asked) PROVE objects' = objects
      BY <2>2 DEF UploadDirectory, Begin, Refuse, Nothing
    <2>3. ASSUME NEW k \in Keys, NEW f \in Files, NEW overwrite \in BOOLEAN,
                 DownloadFile(k, f, overwrite)
          PROVE  objects' = objects
      BY <2>3 DEF DownloadFile, Begin, Refuse
    <2>4. ASSUME NEW asked \in Asked, NEW overwrite \in BOOLEAN,
                 DownloadPrefix(asked, overwrite)
          PROVE  objects' = objects
      BY <2>4 DEF DownloadPrefix, Begin, Refuse, Nothing
    <2>5. CASE DownloadGet \/ DownloadWrite \/ UNCHANGED vars
      BY <2>5, StoreStays DEF DownloadGet, DownloadWrite, vars
    <2>6. ASSUME NEW f \in Files, NEW v, OthersWrite(f, v) PROVE objects' = objects
      BY <2>6 DEF OthersWrite
    <2>7. ASSUME NEW e \in Environments, Restart(e) PROVE objects' = objects
      BY <2>7 DEF Restart
    <2> QED
      BY <1>1, <2>1, <2>2, <2>3, <2>4, <2>5, <2>6, <2>7, StoreStays, UploadNextIsGoverned
         DEF Next
  <1>2. IInv /\ [Next]_vars =>
          [\/ \E k \in Keys, v \in Payloads \cup {Absent} : OthersStore(k, v)
           \/ [Governed!Next]_(Governed!vars)]_vars
    BY <1>1 DEF GovernedStep
  <1> QED
    BY <1>2, TransfersInvariance, PTL DEF Spec, TransfersAreGoverned

=============================================================================
