----------------------------- MODULE Documents -----------------------------
(***************************************************************************)
(* Exhibitor documents, services/document/service.py: the bytes live in an  *)
(* object storage that knows no transactions, everything else in the        *)
(* database.  An upload writes the bytes before it commits its rows, a      *)
(* deletion erases them before it commits the removal, and neither locks    *)
(* anything: a failure, or another request, may come in between.            *)
(*                                                                          *)
(* A request is a reading phase, at most one effect on the storage and a    *)
(* commit.  Every document has one version (no code adds a second), so the  *)
(* source_document row and its document_file row are one member of rows.    *)
(***************************************************************************)
EXTENDS Naturals, Sequences, FiniteSets

CONSTANTS
  Docs,       \* document ids: one per upload (a fresh uuid)
  Content,    \* [Docs -> Contents]: what is uploaded, exhibitor and hash
  Contents,
  Requests,   \* bound: the requests there are, each of them made once
  None

ASSUME DocumentsAssumption ==
  /\ IsFiniteSet(Docs) /\ IsFiniteSet(Requests)
  /\ Content \in [Docs -> Contents]
  /\ None \notin Docs

VARIABLES
  rows,       \* documents whose source_document and document_file rows exist
  published,  \* those with published_file_id set
  jobs,       \* [Docs -> Nat]: document_processing_job rows
  log,        \* [Docs -> sequence of document_access_log actions]
  stored,     \* documents whose bytes are in the object storage
  tokens,     \* documents for which a signed download token has been issued
  kind,       \* [Requests -> what the request asks for]
  target,     \* [Requests -> the document it is about]
  step,       \* [Requests -> how far it has come]
  seen_jobs   \* [Requests -> Nat]: the jobs a deletion has loaded

dbVars  == <<rows, published, jobs, log>>
reqVars == <<kind, target, step, seen_jobs>>
vars    == <<dbVars, stored, tokens, reqVars>>

Kinds   == {"upload", "delete", "blocked", "process", "token", "download",
            "publish", "unpublish"}
Steps   == {"idle", "read", "bytes", "commit", "failed", "done"}
Actions == {"UPLOAD", "DELETE", "DELETE_BLOCKED", "PROCESS_REQUESTED",
            "DOWNLOAD_TOKEN_ISSUED", "DOWNLOAD"}

TypeOK ==
  /\ rows \in SUBSET Docs
  /\ published \in SUBSET rows
  /\ jobs \in [Docs -> Nat]
  /\ log \in [Docs -> Seq(Actions)]
  /\ stored \in SUBSET Docs
  /\ tokens \in SUBSET Docs
  /\ kind \in [Requests -> Kinds \cup {"none"}]
  /\ target \in [Requests -> Docs \cup {None}]
  /\ step \in [Requests -> Steps]
  /\ seen_jobs \in [Requests -> Nat]

Init ==
  /\ rows = {} /\ published = {}
  /\ jobs = [d \in Docs |-> 0]
  /\ log = [d \in Docs |-> <<>>]
  /\ stored = {} /\ tokens = {}
  /\ kind = [r \in Requests |-> "none"]
  /\ target = [r \in Requests |-> None]
  /\ step = [r \in Requests |-> "idle"]
  /\ seen_jobs = [r \in Requests |-> 0]

Begin(r, k, d) ==
  /\ step[r] = "idle"
  /\ kind' = [kind EXCEPT ![r] = k]
  /\ target' = [target EXCEPT ![r] = d]
  /\ step' = [step EXCEPT ![r] = "read"]
  /\ UNCHANGED seen_jobs

At(r, k, s) == kind[r] = k /\ step[r] = s

Goto(r, s) ==
  /\ step' = [step EXCEPT ![r] = s]
  /\ UNCHANGED <<kind, target, seen_jobs>>

Logged(d, action) == log' = [log EXCEPT ![d] = Append(@, action)]

-----------------------------------------------------------------------------
(* upload_document.                                                         *)

\* find_duplicate finds no committed document of the same content; d is new.
BeginUpload(r, d) ==
  /\ \A q \in Requests : kind[q] # "upload" \/ target[q] # d
  /\ \A e \in rows : Content[e] # Content[d]
  /\ Begin(r, "upload", d)
  /\ UNCHANGED <<dbVars, stored, tokens>>

\* The rows are in the session, not committed, when the bytes are put.
PutBytes(r) ==
  /\ At(r, "upload", "read")
  /\ stored' = stored \cup {target[r]}
  /\ Goto(r, "commit")
  /\ UNCHANGED <<dbVars, tokens>>

\* Mutant: the rows are committed before the bytes are put.
CommitUploadEarly(r) ==
  /\ At(r, "upload", "read")
  /\ rows' = rows \cup {target[r]}
  /\ jobs' = [jobs EXCEPT ![target[r]] = 1]
  /\ Logged(target[r], "UPLOAD")
  /\ Goto(r, "done")
  /\ UNCHANGED <<published, stored, tokens>>

\* Document, version, first processing job and log entry, in one commit.
CommitUpload(r) ==
  /\ At(r, "upload", "commit")
  /\ rows' = rows \cup {target[r]}
  /\ jobs' = [jobs EXCEPT ![target[r]] = 1]
  /\ Logged(target[r], "UPLOAD")
  /\ Goto(r, "done")
  /\ UNCHANGED <<published, stored, tokens>>

-----------------------------------------------------------------------------
(* delete_document.                                                         *)

\* The document is loaded; a published one is only logged as blocked.
BeginDelete(r, d) ==
  /\ d \in rows
  /\ Begin(r, IF d \in published THEN "blocked" ELSE "delete", d)
  /\ UNCHANGED <<dbVars, stored, tokens>>

CommitBlocked(r) ==
  /\ At(r, "blocked", "read")
  /\ Logged(target[r], "DELETE_BLOCKED")
  /\ Goto(r, "done")
  /\ UNCHANGED <<rows, published, jobs, stored, tokens>>

\* Mutant: the bytes are left in the storage.
EraseNothing(r) ==
  /\ At(r, "delete", "read")
  /\ step' = [step EXCEPT ![r] = "commit"]
  /\ seen_jobs' = [seen_jobs EXCEPT ![r] = jobs[target[r]]]
  /\ UNCHANGED <<dbVars, stored, tokens, kind, target>>

\* The bytes of the versions that are found now go first; the session then
\* loads the processing jobs that it will delete with the document.
EraseBytes(r) ==
  /\ At(r, "delete", "read")
  /\ stored' = IF target[r] \in rows THEN stored \ {target[r]} ELSE stored
  /\ step' = [step EXCEPT ![r] = "commit"]
  /\ seen_jobs' = [seen_jobs EXCEPT ![r] = jobs[target[r]]]
  /\ UNCHANGED <<dbVars, tokens, kind, target>>

\* Mutant: a deletion leaves no trace in the log.
CommitDeleteUnlogged(r) ==
  /\ At(r, "delete", "commit")
  /\ jobs[target[r]] <= seen_jobs[r]
  /\ rows' = rows \ {target[r]}
  /\ published' = published \ {target[r]}
  /\ jobs' = [jobs EXCEPT ![target[r]] = 0]
  /\ Goto(r, "done")
  /\ UNCHANGED <<log, stored, tokens>>

\* Jobs, version and document go in one commit, which the foreign key refuses
\* if a job has been added since (Fail).  A row that another deletion has
\* removed meanwhile is no error, and is logged once more.
CommitDelete(r) ==
  /\ At(r, "delete", "commit")
  /\ jobs[target[r]] <= seen_jobs[r]
  /\ rows' = rows \ {target[r]}
  /\ published' = published \ {target[r]}
  /\ jobs' = [jobs EXCEPT ![target[r]] = 0]
  /\ Logged(target[r], "DELETE")
  /\ Goto(r, "done")
  /\ UNCHANGED <<stored, tokens>>

-----------------------------------------------------------------------------
(* create_processing_job, the download token and the download.              *)

\* The request has loaded the document.  Marking what is already marked, or
\* the reverse, writes nothing and is left out.
BeginOn(r, k, d) ==
  /\ d \in rows
  /\ k = "download" => d \in tokens
  /\ k = "publish" => d \notin published
  /\ k = "unpublish" => d \in published
  /\ Begin(r, k, d)
  /\ UNCHANGED <<dbVars, stored, tokens>>

\* The foreign key of the job wants the document.
CommitProcess(r) ==
  /\ At(r, "process", "read")
  /\ target[r] \in rows
  /\ jobs' = [jobs EXCEPT ![target[r]] = @ + 1]
  /\ Logged(target[r], "PROCESS_REQUESTED")
  /\ Goto(r, "done")
  /\ UNCHANGED <<rows, published, stored, tokens>>

\* The log has no foreign key: the document may be gone by now.
CommitToken(r) ==
  /\ At(r, "token", "read")
  /\ tokens' = tokens \cup {target[r]}
  /\ Logged(target[r], "DOWNLOAD_TOKEN_ISSUED")
  /\ Goto(r, "done")
  /\ UNCHANGED <<rows, published, jobs, stored>>

GetBytes(r) ==
  /\ At(r, "download", "read")
  /\ target[r] \in stored
  /\ Goto(r, "bytes")
  /\ UNCHANGED <<dbVars, stored, tokens>>

CommitDownload(r) ==
  /\ At(r, "download", "bytes")
  /\ Logged(target[r], "DOWNLOAD")
  /\ Goto(r, "done")
  /\ UNCHANGED <<rows, published, jobs, stored, tokens>>

\* mark_current_version_published and unpublish_document, for the approval
\* workflow; the update of a row that is gone is an error (Fail).
CommitMark(r) ==
  /\ At(r, "publish", "read") \/ At(r, "unpublish", "read")
  /\ target[r] \in rows
  /\ published' = IF kind[r] = "publish" THEN published \cup {target[r]}
                  ELSE published \ {target[r]}
  /\ Goto(r, "done")
  /\ UNCHANGED <<rows, jobs, log, stored, tokens>>

\* Anything that keeps a request from its commit: an error of the storage or
\* of the database, or the end of the process.  The session is rolled back.
Fail(r) ==
  /\ step[r] \notin {"idle", "done", "failed"}
  /\ Goto(r, "failed")
  /\ UNCHANGED <<dbVars, stored, tokens>>

Next ==
  \E r \in Requests :
    \/ \E d \in Docs :
         \/ BeginUpload(r, d) \/ BeginDelete(r, d)
         \/ \E k \in {"process", "token", "download", "publish", "unpublish"} :
              BeginOn(r, k, d)
    \/ PutBytes(r) \/ CommitUpload(r)
    \/ CommitBlocked(r) \/ EraseBytes(r) \/ CommitDelete(r)
    \/ CommitProcess(r) \/ CommitToken(r) \/ GetBytes(r) \/ CommitDownload(r)
    \/ CommitMark(r)
    \/ Fail(r)

Spec == Init /\ [][Next]_vars

-----------------------------------------------------------------------------
(* Properties.                                                              *)

Has(d, action) == \E i \in DOMAIN log[d] : log[d][i] = action

\* A deletion of d has erased its bytes, finished or not: it has loaded the
\* jobs, and a document has at least one.
Erased(d) ==
  \E r \in Requests : kind[r] = "delete" /\ target[r] = d /\ seen_jobs[r] > 0

\* The bytes of every listed document are in the storage, whatever uploads
\* failed half way, unless somebody has started to delete it; and bytes nobody
\* can list are left behind only by an upload that did not commit, never by a
\* completed deletion.
BytesBehindRows ==
  /\ \A d \in rows : d \in stored \/ Erased(d)
  /\ \A d \in stored \ rows : ~Has(d, "DELETE") /\ ~Has(d, "UPLOAD")

\* The log survives the document and tells what became of it: a document
\* exists exactly if it was uploaded and not deleted, and no job was requested
\* for it before the one or after the other.
LogTellsFate ==
  \A d \in Docs :
    /\ d \in rows <=> Has(d, "UPLOAD") /\ ~Has(d, "DELETE")
    /\ \A i, j \in DOMAIN log[d] : log[d][i] = "PROCESS_REQUESTED" =>
         (log[d][j] = "DELETE" => i < j) /\ (log[d][j] = "UPLOAD" => j < i)

\* Once a deletion is on record no download gets hold of the bytes any more,
\* whatever tokens are around and whichever requests were half way.
NeverServedAfterDeletion ==
  [][\A r \in Requests :
       kind[r] = "download" /\ step[r] = "read" /\ step'[r] = "bytes" =>
         ~Has(target[r], "DELETE")]_vars
=============================================================================
