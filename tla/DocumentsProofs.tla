--------------------------- MODULE DocumentsProofs ---------------------------
(***************************************************************************)
(* Proofs about Documents, for any number of documents and requests, of     *)
(* which each may fail before its commit: the bytes behind the rows, the    *)
(* log that survives a document, and no download after a deletion.          *)
(*                                                                          *)
(* Nothing is locked.  What keeps the requests apart is that a document is  *)
(* uploaded once and that its log is never empty afterwards: a request that *)
(* has loaded a document, even one that is gone by now, cannot meet the     *)
(* upload of it again.                                                      *)
(***************************************************************************)
EXTENDS Documents, TLAPS

\* A request has a kind and a document from its first step on, and a document
\* that a request other than its upload is about was uploaded before.
Begun ==
  \A r \in Requests :
    /\ step[r] = "idle" <=> kind[r] = "none"
    /\ kind[r] # "none" => target[r] \in Docs
    /\ kind[r] \notin {"none", "upload"} => log[target[r]] # <<>>

\* The upload of a document is one request, and has not committed while the
\* log of the document is empty.
UploadedOnce ==
  /\ \A q, r \in Requests :
       kind[q] = "upload" /\ kind[r] = "upload" /\ target[q] = target[r] => q = r
  /\ \A d \in Docs : log[d] # <<>> =>
       \E r \in Requests : kind[r] = "upload" /\ target[r] = d
  /\ \A r \in Requests :
       kind[r] = "upload" /\ step[r] \in {"read", "commit"} => log[target[r]] = <<>>

\* What the log of a document says, by itself.
WellLogged(d) ==
  /\ log[d] # <<>> => log[d][1] = "UPLOAD"
  /\ \A i \in DOMAIN log[d] : log[d][i] = "UPLOAD" => i = 1
  /\ \A i, j \in DOMAIN log[d] :
       log[d][i] = "PROCESS_REQUESTED" /\ log[d][j] = "DELETE" => i < j

\* What it says of the rows and the bytes.
Kept(d) ==
  /\ d \in rows <=> log[d] # <<>> /\ ~Has(d, "DELETE")
  /\ d \in rows => jobs[d] > 0
  /\ d \in rows => d \in stored \/ Erased(d)
  /\ Has(d, "DELETE") => d \notin stored

\* A deletion that is about to commit has left no bytes, and an upload has put
\* them.
StorageFirst ==
  \A r \in Requests : step[r] = "commit" =>
    /\ kind[r] = "delete" => target[r] \notin stored
    /\ kind[r] = "upload" => target[r] \in stored

IInv ==
  /\ TypeOK /\ Begun /\ UploadedOnce /\ StorageFirst
  /\ \A d \in Docs : WellLogged(d) /\ Kept(d)

-----------------------------------------------------------------------------
(* Lemmas.                                                                  *)

\* One more entry in the log of a document.
LEMMA LogGrows ==
  ASSUME TypeOK, NEW d \in Docs, NEW a \in Actions, Logged(d, a)
  PROVE  /\ log' \in [Docs -> Seq(Actions)]
         /\ \A e \in Docs \ {d} : log'[e] = log[e]
         /\ Len(log'[d]) = Len(log[d]) + 1 /\ log'[d] # <<>>
         /\ log'[d][Len(log[d]) + 1] = a
         /\ \A i \in DOMAIN log[d] : log'[d][i] = log[d][i]
         /\ DOMAIN log'[d] = DOMAIN log[d] \cup {Len(log[d]) + 1}
         /\ Len(log[d]) \in Nat /\ DOMAIN log[d] = 1..Len(log[d])
<1>1. log[d] \in Seq(Actions)
  BY DEF TypeOK
<1>2. log' = [log EXCEPT ![d] = Append(log[d], a)]
  BY DEF Logged, TypeOK
<1>3. Append(log[d], a) \in Seq(Actions)
  BY <1>1
<1>4. log'[d] = Append(log[d], a) /\ log' \in [Docs -> Seq(Actions)]
      /\ \A e \in Docs \ {d} : log'[e] = log[e]
  BY <1>2, <1>3 DEF TypeOK
<1>5. /\ Len(log'[d]) = Len(log[d]) + 1 /\ log'[d] # <<>>
      /\ log'[d][Len(log[d]) + 1] = a
      /\ \A i \in DOMAIN log[d] : log'[d][i] = log[d][i]
  BY <1>1, <1>4
<1>6. Len(log[d]) \in Nat /\ DOMAIN log[d] = 1..Len(log[d])
  BY <1>1
<1>7. DOMAIN log'[d] = 1..(Len(log[d]) + 1)
  BY <1>1, <1>4
<1>8. 1..(Len(log[d]) + 1) = (1..Len(log[d])) \cup {Len(log[d]) + 1}
  BY <1>6
<1> QED
  BY <1>4, <1>5, <1>6, <1>7, <1>8

\* What has been logged is the former entries and the new one.
LEMMA HasGrows ==
  ASSUME TypeOK, NEW d \in Docs, NEW a \in Actions, Logged(d, a)
  PROVE  /\ \A b : Has(d, b)' <=> Has(d, b) \/ b = a
         /\ \A e \in Docs \ {d} : \A b : Has(e, b)' <=> Has(e, b)
BY LogGrows DEF Has

\* An entry other than the upload, in a log that has begun, keeps the log in
\* order; a job is requested only before the deletion.
LEMMA OrderKept ==
  ASSUME TypeOK, NEW d \in Docs, NEW a \in Actions \ {"UPLOAD"}, Logged(d, a),
         WellLogged(d), log[d] # <<>>, a = "PROCESS_REQUESTED" => ~Has(d, "DELETE")
  PROVE  WellLogged(d)'
<1>. DEFINE n == Len(log[d]) + 1
<1>1. /\ \A i \in DOMAIN log[d] : i \in 1..(n - 1) /\ log'[d][i] = log[d][i]
      /\ DOMAIN log'[d] = DOMAIN log[d] \cup {n} /\ log'[d][n] = a /\ n - 1 \in Nat
      /\ log[d] \in Seq(Actions)
  BY LogGrows DEF TypeOK
<1>2. 1 \in DOMAIN log[d]
  BY <1>1
<1>3. log'[d][1] = "UPLOAD"
  BY <1>1, <1>2 DEF WellLogged
<1>4. \A i \in DOMAIN log'[d] : log'[d][i] = "UPLOAD" => i = 1
  BY <1>1 DEF WellLogged
<1>5. ASSUME NEW i \in DOMAIN log'[d], NEW j \in DOMAIN log'[d],
             log'[d][i] = "PROCESS_REQUESTED", log'[d][j] = "DELETE"
      PROVE  i < j
  <2>1. CASE i = n
    <3>1. a = "PROCESS_REQUESTED" /\ j # n
      BY <1>1, <1>5, <2>1
    <3> QED
      BY <1>1, <1>5, <3>1 DEF Has
  <2>2. CASE i # n /\ j = n
    BY <1>1, <2>2
  <2>3. CASE i # n /\ j # n
    BY <1>1, <1>5, <2>3 DEF WellLogged
  <2> QED
    BY <2>1, <2>2, <2>3
<1> QED
  BY <1>3, <1>4, <1>5 DEF WellLogged

\* A step of request r, which is under way, that says nothing in the log and
\* touches no row: it leaves the bytes, or puts those of an upload.
LEMMA SilentIInv ==
  ASSUME IInv, NEW r \in Requests, NEW s \in Steps \ {"idle"},
         step[r] # "idle", step' = [step EXCEPT ![r] = s],
         UNCHANGED <<rows, jobs, log, kind, target, seen_jobs, tokens>>,
         published' \in SUBSET rows,
         \/ stored' = stored /\ ~(kind[r] = "delete" /\ s = "commit")
            /\ ~(kind[r] = "upload" /\ s \in {"read", "commit"})
         \/ kind[r] = "upload" /\ step[r] = "read" /\ stored' = stored \cup {target[r]}
            /\ s = "commit"
  PROVE  IInv'
<1>0. /\ TypeOK /\ Begun /\ UploadedOnce /\ StorageFirst
      /\ \A d \in Docs : WellLogged(d) /\ Kept(d)
  BY DEF IInv
<1>1. step' \in [Requests -> Steps] /\ step'[r] = s /\ \A q \in Requests \ {r} : step'[q] = step[q]
  BY <1>0 DEF TypeOK
<1>2. kind[r] # "none" /\ target[r] \in Docs
  BY <1>0 DEF Begun
<1>3. stored' \in SUBSET Docs
  BY <1>0, <1>2 DEF TypeOK
<1>4. TypeOK'
  BY <1>0, <1>1, <1>3 DEF TypeOK
<1>5. Begun'
  BY <1>0, <1>1 DEF Begun
<1>6. UploadedOnce'
  BY <1>0, <1>1 DEF UploadedOnce
<1>7. StorageFirst'
  <2>1. CASE stored' = stored /\ ~(kind[r] = "delete" /\ s = "commit")
    BY <1>0, <1>1, <2>1 DEF StorageFirst
  <2>2. CASE kind[r] = "upload" /\ step[r] = "read" /\ stored' = stored \cup {target[r]}
    <3>1. log[target[r]] = <<>>
      BY <1>0, <2>2 DEF UploadedOnce
    <3>2. \A q \in Requests : kind[q] = "delete" => target[q] # target[r]
      BY <1>0, <3>1 DEF Begun
    <3> QED
      BY <1>0, <1>1, <2>2, <3>2 DEF StorageFirst
  <2> QED
    BY <2>1, <2>2
<1>8. ASSUME NEW d \in Docs PROVE WellLogged(d)' /\ Kept(d)'
  <2>1. WellLogged(d)'
    BY <1>0 DEF WellLogged
  <2>2. (Has(d, "DELETE")' <=> Has(d, "DELETE")) /\ (Erased(d)' <=> Erased(d))
    BY DEF Has, Erased
  <2>3. Has(d, "DELETE") => d \notin stored'
    <3>1. CASE stored' = stored
      BY <1>0, <3>1 DEF Kept
    <3>2. CASE kind[r] = "upload" /\ step[r] = "read" /\ stored' = stored \cup {target[r]}
      <4>1. log[target[r]] = <<>>
        BY <1>0, <3>2 DEF UploadedOnce
      <4>2. ~Has(target[r], "DELETE")
        BY <4>1 DEF Has
      <4> QED
        BY <1>0, <3>2, <4>2 DEF Kept
    <3> QED
      BY <3>1, <3>2
  <2>4. stored \subseteq stored'
    OBVIOUS
  <2> QED
    BY <1>0, <2>1, <2>2, <2>3, <2>4 DEF Kept
<1> QED
  BY <1>4, <1>5, <1>6, <1>7, <1>8 DEF IInv

\* A request that is about a document begins.
LEMMA BeginIInv ==
  ASSUME IInv, NEW r \in Requests, NEW k \in Kinds, NEW d \in Docs, Begin(r, k, d),
         UNCHANGED <<dbVars, stored, tokens>>,
         IF k = "upload" THEN \A q \in Requests : kind[q] # "upload" \/ target[q] # d
                         ELSE d \in rows
  PROVE  IInv'
<1>0. /\ TypeOK /\ Begun /\ UploadedOnce /\ StorageFirst
      /\ \A e \in Docs : WellLogged(e) /\ Kept(e)
  BY DEF IInv
<1>1. /\ kind' \in [Requests -> Kinds \cup {"none"}] /\ kind'[r] = k
      /\ target' \in [Requests -> Docs \cup {None}] /\ target'[r] = d
      /\ step' \in [Requests -> Steps] /\ step'[r] = "read"
      /\ \A q \in Requests \ {r} : kind'[q] = kind[q] /\ target'[q] = target[q] /\ step'[q] = step[q]
      /\ seen_jobs' = seen_jobs
  BY <1>0 DEF TypeOK, Begin, Steps
<1>2. k # "none" /\ kind[r] = "none"
  BY <1>0 DEF Begin, Begun, Kinds
<1>3. UNCHANGED <<rows, published, jobs, log, stored, tokens>>
  BY DEF dbVars
<1>4. k # "upload" => log[d] # <<>>
  BY <1>0 DEF Kept
<1>5. TypeOK'
  BY <1>0, <1>1, <1>3 DEF TypeOK
<1>6. Begun'
  BY <1>0, <1>1, <1>2, <1>3, <1>4 DEF Begun
<1>7. UploadedOnce'
  <2>1. \A p, q \in Requests :
          kind'[p] = "upload" /\ kind'[q] = "upload" /\ target'[p] = target'[q] => p = q
    BY <1>0, <1>1 DEF UploadedOnce
  <2>2. \A e \in Docs : log[e] # <<>> => \E q \in Requests : kind'[q] = "upload" /\ target'[q] = e
    BY <1>0, <1>1, <1>2 DEF UploadedOnce
  <2>3. k = "upload" => log[d] = <<>>
    BY <1>0 DEF UploadedOnce
  <2> QED
    BY <1>0, <1>1, <1>3, <2>1, <2>2, <2>3 DEF UploadedOnce
<1>8. StorageFirst'
  BY <1>0, <1>1, <1>3 DEF StorageFirst
<1>9. ASSUME NEW e \in Docs PROVE WellLogged(e)' /\ Kept(e)'
  <2>1. WellLogged(e)'
    BY <1>0, <1>3 DEF WellLogged
  <2>2. Has(e, "DELETE")' <=> Has(e, "DELETE")
    BY <1>3 DEF Has
  <2>3. Erased(e) => Erased(e)'
    BY <1>1, <1>2 DEF Erased
  <2> QED
    BY <1>0, <1>3, <2>1, <2>2, <2>3 DEF Kept
<1> QED
  BY <1>5, <1>6, <1>7, <1>8, <1>9 DEF IInv

\* A commit of request r, which is no upload, that logs action a.
LEMMA LoggedIInv ==
  ASSUME IInv, NEW r \in Requests, NEW a \in Actions \ {"UPLOAD"}, NEW d \in Docs,
         kind[r] \notin {"none", "upload"}, target[r] = d, Logged(d, a),
         Goto(r, "done"), UNCHANGED stored,
         published' \in SUBSET rows', tokens' \in SUBSET Docs, jobs' \in [Docs -> Nat],
         rows' = IF a = "DELETE" THEN rows \ {d} ELSE rows,
         \A e \in rows' : jobs'[e] >= jobs[e],
         a = "PROCESS_REQUESTED" => d \in rows,
         a = "DELETE" => d \notin stored
  PROVE  IInv'
<1>0. /\ TypeOK /\ Begun /\ UploadedOnce /\ StorageFirst
      /\ \A e \in Docs : WellLogged(e) /\ Kept(e)
  BY DEF IInv
<1>1. /\ step' \in [Requests -> Steps] /\ step'[r] = "done"
      /\ \A q \in Requests \ {r} : step'[q] = step[q]
      /\ UNCHANGED <<kind, target, seen_jobs>>
  BY <1>0 DEF TypeOK, Goto, Steps
<1>2. log[d] # <<>>
  BY <1>0 DEF Begun
<1>3. log' \in [Docs -> Seq(Actions)] /\ log'[d] # <<>> /\ \A e \in Docs \ {d} : log'[e] = log[e]
  BY <1>0, <1>2, LogGrows
<1>4. /\ Has(d, "DELETE")' <=> Has(d, "DELETE") \/ a = "DELETE"
      /\ \A e \in Docs \ {d} : Has(e, "DELETE")' <=> Has(e, "DELETE")
  <2>1. a \in Actions
    OBVIOUS
  <2>2. \A b : Has(d, b)' <=> Has(d, b) \/ b = a
    BY ONLY <1>0, <2>1, HasGrows, d \in Docs, Logged(d, a)
  <2>3. \A e \in Docs \ {d} : \A b : Has(e, b)' <=> Has(e, b)
    BY ONLY <1>0, <2>1, HasGrows, d \in Docs, Logged(d, a)
  <2> QED
    BY <2>2, <2>3
<1>5. TypeOK'
  BY <1>0, <1>1, <1>3 DEF TypeOK
<1>6. Begun'
  BY <1>0, <1>1, <1>3 DEF Begun
<1>7. UploadedOnce'
  <2>1. \A q \in Requests : kind[q] = "upload" /\ step[q] \in {"read", "commit"} => target[q] # d
    BY <1>0, <1>2 DEF UploadedOnce
  <2>2. \A q \in Requests : kind[q] = "upload" /\ step'[q] \in {"read", "commit"}
          => step[q] \in {"read", "commit"} /\ target[q] \in Docs
    BY <1>0, <1>1 DEF Begun
  <2>3. \A q \in Requests : kind[q] = "upload" /\ step'[q] \in {"read", "commit"} => log'[target[q]] = <<>>
    BY <1>0, <1>3, <2>1, <2>2 DEF UploadedOnce
  <2>4. \A e \in Docs : log'[e] # <<>> => log[e] # <<>>
    BY <1>2, <1>3
  <2> QED
    BY <1>0, <1>1, <2>3, <2>4 DEF UploadedOnce
<1>8. StorageFirst'
  BY <1>0, <1>1 DEF StorageFirst
<1>9. ASSUME NEW e \in Docs PROVE WellLogged(e)' /\ Kept(e)'
  <2>1. Erased(e)' <=> Erased(e)
    BY <1>1 DEF Erased
  <2>2. jobs[e] \in Nat /\ jobs'[e] \in Nat
    BY <1>0 DEF TypeOK
  <2>3. CASE e = d
    <3>1. a = "PROCESS_REQUESTED" => ~Has(d, "DELETE")
      BY <1>0, <1>2 DEF Kept
    <3>2. WellLogged(d)'
      BY <1>0, <1>2, <3>1, OrderKept
    <3>3. Kept(d)'
      BY <1>0, <1>2, <1>3, <1>4, <2>1, <2>2, <2>3 DEF Kept
    <3> QED
      BY <2>3, <3>2, <3>3
  <2>4. CASE e # d
    <3>1. log'[e] = log[e] /\ (Has(e, "DELETE")' <=> Has(e, "DELETE")) /\ (e \in rows' <=> e \in rows)
      BY <1>3, <1>4, <2>4
    <3>2. WellLogged(e)'
      BY <1>0, <3>1 DEF WellLogged
    <3>3. Kept(e)'
      BY <1>0, <2>1, <2>2, <3>1 DEF Kept
    <3> QED
      BY <3>2, <3>3
  <2> QED
    BY <2>3, <2>4
<1> QED
  BY <1>5, <1>6, <1>7, <1>8, <1>9 DEF IInv

\* The commit of an upload: the first entry of the log.
LEMMA CommitUploadIInv ==
  ASSUME IInv, NEW r \in Requests, NEW d \in Docs, target[r] = d, CommitUpload(r)
  PROVE  IInv'
<1>0. /\ TypeOK /\ Begun /\ UploadedOnce /\ StorageFirst
      /\ \A e \in Docs : WellLogged(e) /\ Kept(e)
  BY DEF IInv
<1>1. /\ step' \in [Requests -> Steps] /\ step'[r] = "done"
      /\ \A q \in Requests \ {r} : step'[q] = step[q]
      /\ kind[r] = "upload" /\ step[r] = "commit"
      /\ UNCHANGED <<kind, target, seen_jobs, published, stored, tokens>>
      /\ rows' = rows \cup {d}
  BY <1>0 DEF TypeOK, CommitUpload, Goto, At, Steps
<1>2. /\ jobs' \in [Docs -> Nat] /\ jobs'[d] = 1
      /\ \A e \in Docs \ {d} : jobs'[e] = jobs[e]
  BY <1>0 DEF TypeOK, CommitUpload
<1>3. log[d] = <<>> /\ d \in stored
  BY <1>0, <1>1 DEF UploadedOnce, StorageFirst
<1>4. log' = [log EXCEPT ![d] = <<"UPLOAD">>]
  BY <1>0, <1>3 DEF CommitUpload, Logged, TypeOK
<1>5. /\ log' \in [Docs -> Seq(Actions)] /\ log'[d] = <<"UPLOAD">>
      /\ \A e \in Docs \ {d} : log'[e] = log[e]
  BY <1>0, <1>4 DEF TypeOK, Actions
<1>6. TypeOK'
  BY <1>0, <1>1, <1>2, <1>5 DEF TypeOK
<1>7. Begun'
  <2>1. log'[d] # <<>>
    BY <1>5
  <2>2. \A e \in Docs : log[e] # <<>> => log'[e] # <<>>
    BY <1>5, <2>1
  <2> QED
    BY <1>0, <1>1, <2>2 DEF Begun
<1>8. UploadedOnce'
  <2>1. \A e \in Docs : log'[e] # <<>> => \E q \in Requests : kind[q] = "upload" /\ target[q] = e
    BY <1>0, <1>1, <1>5 DEF UploadedOnce
  <2>2. \A q \in Requests : kind[q] = "upload" /\ step'[q] \in {"read", "commit"}
          => target[q] # d /\ target[q] \in Docs /\ log[target[q]] = <<>>
    BY <1>0, <1>1 DEF UploadedOnce, Begun
  <2>3. \A q \in Requests : kind[q] = "upload" /\ step'[q] \in {"read", "commit"}
          => log'[target[q]] = <<>>
    BY <1>5, <2>2
  <2> QED
    BY <1>0, <1>1, <2>1, <2>3 DEF UploadedOnce
<1>9. StorageFirst'
  BY <1>0, <1>1 DEF StorageFirst
<1>10. ASSUME NEW e \in Docs PROVE WellLogged(e)' /\ Kept(e)'
  <2>1. CASE e = d
    <3>1. DOMAIN log'[d] = {1} /\ log'[d][1] = "UPLOAD" /\ log'[d] # <<>>
      BY <1>5
    <3>2. ~Has(d, "DELETE")'
      BY <3>1 DEF Has
    <3> QED
      BY <1>1, <1>2, <1>3, <2>1, <3>1, <3>2 DEF WellLogged, Kept
  <2>2. CASE e # d
    <3>1. log'[e] = log[e] /\ jobs'[e] = jobs[e] /\ (e \in rows' <=> e \in rows)
      BY <1>1, <1>2, <1>5, <2>2
    <3>2. Erased(e)' <=> Erased(e)
      BY <1>1 DEF Erased
    <3>3. Has(e, "DELETE")' <=> Has(e, "DELETE")
      BY <3>1 DEF Has
    <3> QED
      BY <1>0, <1>1, <3>1, <3>2, <3>3 DEF WellLogged, Kept
  <2> QED
    BY <2>1, <2>2
<1> QED
  BY <1>6, <1>7, <1>8, <1>9, <1>10 DEF IInv

\* A deletion erases the bytes of what is still a document.  A document that
\* is gone by then has lost its bytes to the deletion that removed it.
LEMMA EraseBytesIInv ==
  ASSUME IInv, NEW r \in Requests, NEW d \in Docs, target[r] = d, EraseBytes(r)
  PROVE  IInv'
<1>0. /\ TypeOK /\ Begun /\ UploadedOnce /\ StorageFirst
      /\ \A e \in Docs : WellLogged(e) /\ Kept(e)
  BY DEF IInv
<1>1. /\ step' \in [Requests -> Steps] /\ step'[r] = "commit"
      /\ \A q \in Requests \ {r} : step'[q] = step[q]
      /\ kind[r] = "delete" /\ step[r] = "read"
      /\ UNCHANGED <<kind, target, rows, published, jobs, log, tokens>>
      /\ stored' = IF d \in rows THEN stored \ {d} ELSE stored
  BY <1>0 DEF TypeOK, EraseBytes, At, Steps, dbVars
<1>2. /\ seen_jobs' \in [Requests -> Nat] /\ seen_jobs'[r] = jobs[d]
      /\ \A q \in Requests \ {r} : seen_jobs'[q] = seen_jobs[q]
  BY <1>0 DEF TypeOK, EraseBytes
<1>3. log[d] # <<>>
  BY <1>0, <1>1 DEF Begun
<1>4. d \notin stored'
  BY <1>0, <1>1, <1>3 DEF Kept
<1>5. TypeOK'
  BY <1>0, <1>1, <1>2 DEF TypeOK
<1>6. Begun' /\ UploadedOnce'
  <2>1. Begun'
    BY <1>0, <1>1 DEF Begun
  <2>2. UploadedOnce'
    BY <1>0, <1>1 DEF UploadedOnce
  <2> QED
    BY <2>1, <2>2
<1>7. StorageFirst'
  <2>1. \A q \in Requests : kind[q] = "upload" /\ step[q] = "commit" => target[q] # d
    BY <1>0, <1>3 DEF UploadedOnce
  <2> QED
    BY <1>0, <1>1, <1>4, <2>1 DEF StorageFirst
<1>8. ASSUME NEW e \in Docs PROVE WellLogged(e)' /\ Kept(e)'
  <2>1. WellLogged(e)'
    BY <1>0, <1>1 DEF WellLogged
  <2>2. Has(e, "DELETE")' <=> Has(e, "DELETE")
    BY <1>1 DEF Has
  <2>3. e # d \/ e \notin rows => (e \in stored' <=> e \in stored)
    BY <1>1
  <2>4. e \in rows => e \in stored' \/ Erased(e)'
    <3>1. CASE e = d
      BY <1>0, <1>1, <1>2, <3>1 DEF Erased, Kept, TypeOK
    <3>2. CASE e # d
      BY <1>0, <1>1, <1>2, <2>3, <3>2 DEF Erased, Kept
    <3> QED
      BY <3>1, <3>2
  <2>5. e \in stored' => e \in stored
    BY <1>1
  <2> QED
    BY <1>0, <1>1, <2>1, <2>2, <2>4, <2>5 DEF Kept
<1> QED
  BY <1>5, <1>6, <1>7, <1>8 DEF IInv

-----------------------------------------------------------------------------
(* The invariant.                                                           *)

LEMMA InitIInv == Init => IInv
<1> SUFFICES ASSUME Init PROVE IInv
  OBVIOUS
<1>1. TypeOK
  BY DEF Init, TypeOK, Steps, Kinds, Actions
<1>2. Begun /\ UploadedOnce /\ StorageFirst
  BY DEF Init, Begun, UploadedOnce, StorageFirst
<1>3. \A d \in Docs : WellLogged(d) /\ Kept(d)
  BY DEF Init, WellLogged, Kept, Has
<1> QED
  BY <1>1, <1>2, <1>3 DEF IInv

LEMMA NextIInv == IInv /\ [Next]_vars => IInv'
<1> SUFFICES ASSUME IInv, [Next]_vars PROVE IInv'
  OBVIOUS
<1>0. /\ TypeOK /\ Begun /\ UploadedOnce /\ StorageFirst
      /\ \A e \in Docs : WellLogged(e) /\ Kept(e)
  BY DEF IInv
<1>1. CASE UNCHANGED vars
  <2>1. UNCHANGED <<rows, published, jobs, log, stored, tokens, kind, target, step, seen_jobs>>
    BY <1>1 DEF vars, dbVars, reqVars
  <2>2. TypeOK' /\ Begun' /\ UploadedOnce' /\ StorageFirst'
    BY <1>0, <2>1 DEF TypeOK, Begun, UploadedOnce, StorageFirst
  <2>3. ASSUME NEW d \in Docs PROVE WellLogged(d)' /\ Kept(d)'
    <3>1. (Has(d, "DELETE")' <=> Has(d, "DELETE")) /\ (Erased(d)' <=> Erased(d))
      BY <2>1 DEF Has, Erased
    <3> QED
      BY <1>0, <2>1, <3>1 DEF WellLogged, Kept
  <2> QED
    BY <2>2, <2>3 DEF IInv
<1>2. ASSUME NEW r \in Requests, NEW d \in Docs, BeginUpload(r, d) PROVE IInv'
  BY <1>2, BeginIInv DEF BeginUpload, Kinds
<1>3. ASSUME NEW r \in Requests, NEW d \in Docs, BeginDelete(r, d) PROVE IInv'
  <2>. DEFINE k == IF d \in published THEN "blocked" ELSE "delete"
  <2>1. k \in Kinds /\ k # "upload"
    BY DEF Kinds
  <2>2. Begin(r, k, d) /\ d \in rows /\ UNCHANGED <<dbVars, stored, tokens>>
    BY <1>3 DEF BeginDelete
  <2> HIDE DEF k
  <2> QED
    BY <2>1, <2>2, BeginIInv
<1>4. ASSUME NEW r \in Requests, NEW d \in Docs,
             NEW k \in {"process", "token", "download", "publish", "unpublish"}, BeginOn(r, k, d)
      PROVE  IInv'
  <2>1. k \in Kinds /\ k # "upload"
    BY DEF Kinds
  <2> QED
    BY <1>4, <2>1, BeginIInv DEF BeginOn
<1>5. ASSUME NEW r \in Requests, NEW s \in Steps, step[r] = s, s # "idle"
      PROVE  /\ target[r] \in Docs /\ kind[r] # "none"
  BY <1>0, <1>5 DEF Begun
<1>6. ASSUME NEW r \in Requests, PutBytes(r) PROVE IInv'
  BY <1>0, <1>6, SilentIInv DEF PutBytes, At, Goto, Steps, dbVars, TypeOK
<1>7. ASSUME NEW r \in Requests, CommitUpload(r) PROVE IInv'
  BY <1>5, <1>7, CommitUploadIInv DEF CommitUpload, At, Steps
<1>8. ASSUME NEW r \in Requests, CommitBlocked(r) PROVE IInv'
  <2>1. target[r] \in Docs
    BY <1>5, <1>8 DEF CommitBlocked, At, Steps
  <2>2. /\ kind[r] = "blocked" /\ Logged(target[r], "DELETE_BLOCKED") /\ Goto(r, "done")
        /\ UNCHANGED <<rows, published, jobs, stored>>
    BY <1>8 DEF CommitBlocked, At
  <2>3. published' \in SUBSET rows' /\ tokens' \in SUBSET Docs /\ jobs' \in [Docs -> Nat]
    BY <1>0, <1>8, <2>1 DEF CommitBlocked, TypeOK
  <2>4. \A e \in rows' : jobs'[e] >= jobs[e]
    BY <1>0, <2>2 DEF TypeOK
  <2> QED
    BY <2>1, <2>2, <2>3, <2>4, LoggedIInv DEF Actions
<1>9. ASSUME NEW r \in Requests, EraseBytes(r) PROVE IInv'
  BY <1>5, <1>9, EraseBytesIInv DEF EraseBytes, At, Steps
<1>10. ASSUME NEW r \in Requests, CommitDelete(r) PROVE IInv'
  <2>1. target[r] \in Docs
    BY <1>5, <1>10 DEF CommitDelete, At, Steps
  <2>2. /\ kind[r] = "delete" /\ Logged(target[r], "DELETE") /\ Goto(r, "done")
        /\ rows' = rows \ {target[r]} /\ published' = published \ {target[r]}
        /\ UNCHANGED <<stored, tokens>> /\ target[r] \notin stored
    BY <1>0, <1>10 DEF CommitDelete, At, StorageFirst
  <2>3. jobs' \in [Docs -> Nat] /\ \A e \in Docs \ {target[r]} : jobs'[e] = jobs[e]
    BY <1>0, <1>10, <2>1 DEF CommitDelete, TypeOK
  <2>4. \A e \in rows' : jobs'[e] >= jobs[e]
    BY <1>0, <2>2, <2>3 DEF TypeOK
  <2>5. published' \in SUBSET rows' /\ tokens' \in SUBSET Docs
    BY <1>0, <2>2 DEF TypeOK
  <2> QED
    BY <2>1, <2>2, <2>3, <2>4, <2>5, LoggedIInv DEF Actions
<1>11. ASSUME NEW r \in Requests, CommitProcess(r) PROVE IInv'
  <2>1. target[r] \in Docs
    BY <1>5, <1>11 DEF CommitProcess, At, Steps
  <2>2. /\ jobs' \in [Docs -> Nat] /\ jobs'[target[r]] = jobs[target[r]] + 1
        /\ \A e \in Docs \ {target[r]} : jobs'[e] = jobs[e]
    BY <1>0, <1>11, <2>1 DEF CommitProcess, TypeOK
  <2>3. ASSUME NEW e \in rows PROVE jobs'[e] >= jobs[e]
    <3>1. e \in Docs /\ jobs[e] \in Nat
      BY <1>0 DEF TypeOK
    <3>2. jobs'[e] = jobs[e] \/ jobs'[e] = jobs[e] + 1
      BY <2>2, <3>1
    <3> QED
      BY <3>1, <3>2
  <2> QED
    BY <1>0, <1>11, <2>1, <2>2, <2>3, LoggedIInv DEF CommitProcess, At, Actions, TypeOK
<1>12. ASSUME NEW r \in Requests, CommitToken(r) PROVE IInv'
  <2>1. target[r] \in Docs
    BY <1>5, <1>12 DEF CommitToken, At, Steps
  <2>2. /\ kind[r] = "token" /\ Logged(target[r], "DOWNLOAD_TOKEN_ISSUED") /\ Goto(r, "done")
        /\ UNCHANGED <<rows, published, jobs, stored>>
    BY <1>12 DEF CommitToken, At
  <2>3. published' \in SUBSET rows' /\ tokens' \in SUBSET Docs /\ jobs' \in [Docs -> Nat]
    BY <1>0, <1>12, <2>1 DEF CommitToken, TypeOK
  <2>4. \A e \in rows' : jobs'[e] >= jobs[e]
    BY <1>0, <2>2 DEF TypeOK
  <2> QED
    BY <2>1, <2>2, <2>3, <2>4, LoggedIInv DEF Actions
<1>13. ASSUME NEW r \in Requests, GetBytes(r) PROVE IInv'
  BY <1>0, <1>13, SilentIInv DEF GetBytes, At, Goto, Steps, dbVars, TypeOK
<1>14. ASSUME NEW r \in Requests, CommitDownload(r) PROVE IInv'
  <2>1. target[r] \in Docs
    BY <1>5, <1>14 DEF CommitDownload, At, Steps
  <2>2. /\ kind[r] = "download" /\ Logged(target[r], "DOWNLOAD") /\ Goto(r, "done")
        /\ UNCHANGED <<rows, published, jobs, stored>>
    BY <1>14 DEF CommitDownload, At
  <2>3. published' \in SUBSET rows' /\ tokens' \in SUBSET Docs /\ jobs' \in [Docs -> Nat]
    BY <1>0, <1>14, <2>1 DEF CommitDownload, TypeOK
  <2>4. \A e \in rows' : jobs'[e] >= jobs[e]
    BY <1>0, <2>2 DEF TypeOK
  <2> QED
    BY <2>1, <2>2, <2>3, <2>4, LoggedIInv DEF Actions
<1>15. ASSUME NEW r \in Requests, CommitMark(r) PROVE IInv'
  BY <1>0, <1>15, SilentIInv DEF CommitMark, At, Goto, Steps, TypeOK
<1>16. ASSUME NEW r \in Requests, Fail(r) PROVE IInv'
  BY <1>0, <1>16, SilentIInv DEF Fail, Goto, Steps, dbVars, TypeOK
<1> QED
  BY <1>1, <1>2, <1>3, <1>4, <1>6, <1>7, <1>8, <1>9, <1>10, <1>11, <1>12, <1>13, <1>14,
     <1>15, <1>16 DEF Next

LEMMA SpecIInv == Spec => []IInv
BY InitIInv, NextIInv, PTL DEF Spec

-----------------------------------------------------------------------------
(* The theorems.                                                            *)

\* Every variable keeps its type; a published document is one that exists.
THEOREM DocumentsTypeCorrect == Spec => []TypeOK
<1>1. IInv => TypeOK
  BY DEF IInv
<1> QED
  BY <1>1, SpecIInv, PTL

\* The bytes of every listed document are in the storage, or a deletion of it
\* has erased them; and what is stored without a row was neither deleted nor
\* ever listed.
THEOREM BytesKept == Spec => []BytesBehindRows
<1>1. IInv => BytesBehindRows
  <2> SUFFICES ASSUME IInv PROVE BytesBehindRows
    OBVIOUS
  <2>1. \A d \in rows : d \in stored \/ Erased(d)
    BY DEF IInv, TypeOK, Kept
  <2>2. ASSUME NEW d \in stored \ rows PROVE ~Has(d, "DELETE") /\ ~Has(d, "UPLOAD")
    <3>1. d \in Docs /\ ~Has(d, "DELETE") /\ log[d] = <<>>
      BY DEF IInv, TypeOK, Kept
    <3> QED
      BY <3>1 DEF Has
  <2> QED
    BY <2>1, <2>2 DEF BytesBehindRows
<1> QED
  BY <1>1, SpecIInv, PTL

\* A document exists exactly if its log says so, and its log is in order.
THEOREM LogTrusted == Spec => []LogTellsFate
<1>1. IInv => LogTellsFate
  <2> SUFFICES ASSUME IInv, NEW d \in Docs
               PROVE  /\ d \in rows <=> Has(d, "UPLOAD") /\ ~Has(d, "DELETE")
                      /\ \A i, j \in DOMAIN log[d] : log[d][i] = "PROCESS_REQUESTED" =>
                           (log[d][j] = "DELETE" => i < j) /\ (log[d][j] = "UPLOAD" => j < i)
    BY DEF LogTellsFate
  <2>1. WellLogged(d) /\ Kept(d) /\ log[d] \in Seq(Actions)
    BY DEF IInv, TypeOK
  <2>2. log[d] # <<>> <=> Has(d, "UPLOAD")
    <3>1. log[d] # <<>> => 1 \in DOMAIN log[d]
      BY <2>1
    <3>2. log[d] = <<>> => DOMAIN log[d] = {}
      OBVIOUS
    <3> QED
      BY <2>1, <3>1, <3>2 DEF WellLogged, Has
  <2>3. ASSUME NEW i \in DOMAIN log[d], NEW j \in DOMAIN log[d],
               log[d][i] = "PROCESS_REQUESTED", log[d][j] = "UPLOAD"
        PROVE  j < i
    <3>1. j = 1 /\ i # 1 /\ i >= 1 /\ i \in Nat
      BY <2>1, <2>3 DEF WellLogged
    <3> QED
      BY <3>1
  <2> QED
    BY <2>1, <2>2, <2>3 DEF WellLogged, Kept
<1> QED
  BY <1>1, SpecIInv, PTL

\* No step hands out the bytes of a document whose deletion is on record.
THEOREM DeletionFinal == Spec => NeverServedAfterDeletion
<1>. DEFINE Served == \A r \in Requests :
       kind[r] = "download" /\ step[r] = "read" /\ step'[r] = "bytes" => ~Has(target[r], "DELETE")
<1>1. IInv /\ [Next]_vars => [Served]_vars
  <2> SUFFICES ASSUME IInv, Next, NEW r \in Requests,
                      kind[r] = "download", step[r] = "read", step'[r] = "bytes"
               PROVE  ~Has(target[r], "DELETE")
    OBVIOUS
  <2>1. TypeOK /\ Begun /\ \A d \in Docs : Kept(d)
    BY DEF IInv
  <2>2. GetBytes(r)
    <3>1. PICK q \in Requests :
            \/ \E d \in Docs : BeginUpload(q, d) \/ BeginDelete(q, d)
                 \/ \E k \in {"process", "token", "download", "publish", "unpublish"} : BeginOn(q, k, d)
            \/ PutBytes(q) \/ CommitUpload(q) \/ CommitBlocked(q) \/ EraseBytes(q)
            \/ CommitDelete(q) \/ CommitProcess(q) \/ CommitToken(q) \/ GetBytes(q)
            \/ CommitDownload(q) \/ CommitMark(q) \/ Fail(q)
      BY DEF Next
    <3>2. CASE GetBytes(q)
      <4>1. q = r
        BY <2>1, <3>2 DEF GetBytes, Goto, TypeOK
      <4> QED
        BY <3>2, <4>1
    <3>3. CASE \E d \in Docs : BeginUpload(q, d) \/ BeginDelete(q, d)
                 \/ \E k \in {"process", "token", "download", "publish", "unpublish"} : BeginOn(q, k, d)
      BY <2>1, <3>3 DEF BeginUpload, BeginDelete, BeginOn, Begin, TypeOK
    <3>4. CASE \/ PutBytes(q) \/ CommitUpload(q) \/ CommitBlocked(q) \/ EraseBytes(q)
               \/ CommitDelete(q) \/ CommitProcess(q) \/ CommitToken(q)
               \/ CommitDownload(q) \/ CommitMark(q) \/ Fail(q)
      BY <2>1, <3>4 DEF PutBytes, CommitUpload, CommitBlocked, EraseBytes, CommitDelete,
         CommitProcess, CommitToken, CommitDownload, CommitMark, Fail, Goto, TypeOK
    <3> QED
      BY <3>1, <3>2, <3>3, <3>4
  <2>3. target[r] \in Docs /\ target[r] \in stored
    BY <2>1, <2>2 DEF GetBytes, Begun
  <2> QED
    BY <2>1, <2>3 DEF Kept
<1>2. Spec => [][Served]_vars
  BY <1>1, SpecIInv, PTL DEF Spec
<1> QED
  BY <1>2 DEF NeverServedAfterDeletion
=============================================================================
