-------------------------- MODULE KnowledgeIngestion --------------------------
(***************************************************************************)
(* Knowledge documents (backend/knowledge): a document is uploaded to an   *)
(* active source with an ingestion job; Celery workers claim the job,      *)
(* extract, chunk and embed outside any transaction, and write the chunks  *)
(* in a last one; failures are retried, a sweep re-publishes stuck jobs,   *)
(* managers retry failed documents, and searches read the chunks and       *)
(* record their hits in a later transaction.                               *)
(*                                                                         *)
(* A message may be lost or delivered again at any time; a delivery that   *)
(* finds the job SUCCEEDED does nothing.                                   *)
(***************************************************************************)
EXTENDS Naturals

CONSTANTS
    Documents, Sources, Workers, Searches,
    SourceOf,        \* the source a document is uploaded to
    NoDocument,
    MaxAttempts      \* KNOWLEDGE_INGESTION_MAX_ATTEMPTS

ASSUME KnowledgeAssumption ==
    /\ SourceOf \in [Documents -> Sources]
    /\ NoDocument \notin Documents
    /\ MaxAttempts \in Nat \ {0}

VARIABLES
    active,    \* KnowledgeSource.is_active
    uploading, \* uploads that have read their source as active
    document,  \* KnowledgeDocument.status
    job,       \* KnowledgeIngestionJob: status and attempt_count
    chunks,    \* which write of its chunks a document has, 0 for none
    published,     \* documents with a published ingest_knowledge_document message
    ingester,    \* what each worker slot is doing
    search     \* searches: the chunks they have ranked, then recorded as hits

knowledgeVars == <<active, uploading, document, job, chunks, published, ingester, search>>

DocumentStatuses == {"none", "QUEUED", "PROCESSING", "READY", "FAILED"}
JobStatuses == {"none", "QUEUED", "PROCESSING", "SUCCEEDED", "FAILED"}
Idle == [pc |-> "idle", doc |-> NoDocument]
NoSearch == [pc |-> "idle", found |-> [d \in Documents |-> 0]]

KnowledgeInit ==
    /\ active = [s \in Sources |-> FALSE]
    /\ uploading = {}
    /\ document = [d \in Documents |-> "none"]
    /\ job = [d \in Documents |-> [status |-> "none", attempts |-> 0]]
    /\ chunks = [d \in Documents |-> 0]
    /\ published = {}
    /\ ingester = [w \in Workers |-> Idle]
    /\ search = [q \in Searches |-> NoSearch]

\* The message is published after the commit, or lost.
PublishJob(d) == published' \in {published, published \cup {d}}

-----------------------------------------------------------------------------
\* Requests of managers.

create_source(s) ==
    /\ ~active[s]
    /\ active' = [active EXCEPT ![s] = TRUE]
    /\ UNCHANGED <<uploading, document, job, chunks, published, ingester, search>>

\* The whole row is saved as it was loaded, with the fields of the request replaced:
\* a deactivated source may come back.
update_source(s) ==
    /\ \E v \in BOOLEAN : active' = [active EXCEPT ![s] = v]
    /\ UNCHANGED <<uploading, document, job, chunks, published, ingester, search>>

\* The upload checks the source on the row its request has read, and never again: the source
\* may be deactivated before the document is inserted.
ReadSource(d) ==
    /\ document[d] = "none" /\ d \notin uploading /\ active[SourceOf[d]]
    /\ uploading' = uploading \cup {d}
    /\ UNCHANGED <<active, document, job, chunks, published, ingester, search>>

upload_document(d) ==
    /\ d \in uploading /\ document[d] = "none"
    /\ uploading' = uploading \ {d}
    /\ document' = [document EXCEPT ![d] = "QUEUED"]
    /\ job' = [job EXCEPT ![d].status = "QUEUED"]
    /\ PublishJob(d)
    /\ UNCHANGED <<active, chunks, ingester, search>>

retry_document(d) ==
    /\ document[d] = "FAILED"
    /\ document' = [document EXCEPT ![d] = "QUEUED"]
    /\ job' = [job EXCEPT ![d] = [status |-> "QUEUED", attempts |-> 0]]
    /\ PublishJob(d)
    /\ UNCHANGED <<active, uploading, chunks, ingester, search>>

-----------------------------------------------------------------------------
\* Workers.

\* The claim: any job that has not succeeded, also one another worker processes.
\* The count is compared with MaxAttempts only, so it stops there.
claim_ingestion(w, d) ==
    /\ ingester[w].pc = "idle" /\ d \in published
    /\ job[d].status # "SUCCEEDED"
    /\ job' = [job EXCEPT ![d] = [status   |-> "PROCESSING",
                                  attempts |-> IF @.attempts < MaxAttempts THEN @.attempts + 1
                                                                           ELSE MaxAttempts]]
    /\ document' = [document EXCEPT ![d] = "PROCESSING"]
    /\ ingester' = [ingester EXCEPT ![w] = [pc |-> "working", doc |-> d]]
    /\ published' \in {published, published \ {d}}
    /\ UNCHANGED <<active, uploading, chunks, search>>

\* Mutation: a job that has succeeded meanwhile is failed as well.
mark_failed_always(d) ==
    /\ job' = [job EXCEPT ![d].status = "FAILED"]
    /\ document' = [document EXCEPT ![d] = "FAILED"]

mark_failed(d) ==
    IF job[d].status = "SUCCEEDED" THEN UNCHANGED <<job, document>>
    ELSE /\ job' = [job EXCEPT ![d].status = "FAILED"]
         /\ document' = [document EXCEPT ![d] = "FAILED"]

\* A PermanentIngestionError: malformed, empty or unsupported content.
FailPermanently(w) ==
    /\ ingester[w].pc = "working"
    /\ mark_failed(ingester[w].doc)
    /\ ingester' = [ingester EXCEPT ![w] = Idle]
    /\ UNCHANGED <<active, uploading, chunks, published, search>>

mark_retryable_failure(w) ==
    LET d == ingester[w].doc
    IN  /\ ingester[w].pc = "working"
        /\ IF job[d].status = "SUCCEEDED" THEN UNCHANGED <<job, document>>
           ELSE /\ job' = [job EXCEPT ![d].status = "QUEUED"]
                /\ document' = [document EXCEPT ![d] = "QUEUED"]
        /\ ingester' = [ingester EXCEPT ![w].pc = "retrying"]
        /\ UNCHANGED <<active, uploading, chunks, published, search>>

\* The task reads the attempt count, then fails the job or publishes a retry; the
\* count may be that of another worker by now.
ReadAttempts(w) ==
    LET d == ingester[w].doc
    IN  /\ ingester[w].pc = "retrying"
        /\ IF job[d].attempts >= MaxAttempts
           THEN ingester' = [ingester EXCEPT ![w].pc = "failing"] /\ UNCHANGED published
           ELSE ingester' = [ingester EXCEPT ![w] = Idle] /\ PublishJob(d)
        /\ UNCHANGED <<active, uploading, document, job, chunks, search>>

fail_ingestion(w) ==
    /\ ingester[w].pc = "failing"
    /\ mark_failed(ingester[w].doc)
    /\ ingester' = [ingester EXCEPT ![w] = Idle]
    /\ UNCHANGED <<active, uploading, chunks, published, search>>

\* Mutation: the last transaction does not look at the status of the job.
complete_ingestion_always(w) ==
    LET d == ingester[w].doc
    IN  /\ ingester[w].pc = "working"
        /\ chunks' = [chunks EXCEPT ![d] = IF @ < 2 THEN @ + 1 ELSE @]
        /\ document' = [document EXCEPT ![d] = "READY"]
        /\ job' = [job EXCEPT ![d].status = "SUCCEEDED"]
        /\ ingester' = [ingester EXCEPT ![w] = Idle]
        /\ UNCHANGED <<active, uploading, published, search>>

\* The last transaction replaces the chunks of a job that is still PROCESSING.
complete_ingestion(w) ==
    LET d == ingester[w].doc
    IN  /\ ingester[w].pc = "working"
        /\ IF job[d].status = "PROCESSING"
           THEN /\ chunks' = [chunks EXCEPT ![d] = @ + 1]
                /\ document' = [document EXCEPT ![d] = "READY"]
                /\ job' = [job EXCEPT ![d].status = "SUCCEEDED"]
           ELSE UNCHANGED <<chunks, document, job>>
        /\ ingester' = [ingester EXCEPT ![w] = Idle]
        /\ UNCHANGED <<active, uploading, published, search>>

IngesterCrash(w) ==
    /\ ingester[w].pc # "idle"
    /\ ingester' = [ingester EXCEPT ![w] = Idle]
    /\ UNCHANGED <<active, uploading, document, job, chunks, published, search>>

\* Mutation: only jobs that were never claimed are published again.
recover_stuck_ingestion_job_queued(d) ==
    /\ job[d].status = "QUEUED" /\ d \notin published
    /\ published' = published \cup {d}
    /\ UNCHANGED <<active, uploading, document, job, chunks, ingester, search>>

recover_stuck_ingestion_job(d) ==
    /\ job[d].status \in {"QUEUED", "PROCESSING"} /\ d \notin published
    /\ published' = published \cup {d}
    /\ UNCHANGED <<active, uploading, document, job, chunks, ingester, search>>

-----------------------------------------------------------------------------
\* search_knowledge: rank the chunks of READY documents of active sources, then
\* insert the hits.

Searchable(d) == document[d] = "READY" /\ active[SourceOf[d]]

RankChunks(q) ==
    /\ search[q].pc = "idle"
    /\ \E D \in SUBSET {d \in Documents : Searchable(d)} :
          search' = [search EXCEPT ![q] =
              [pc |-> "ranked", found |-> [d \in Documents |-> IF d \in D THEN chunks[d] ELSE 0]]]
    /\ UNCHANGED <<active, uploading, document, job, chunks, published, ingester>>

RecordHits(q) ==
    /\ search[q].pc = "ranked"
    /\ search' = [search EXCEPT ![q].pc = "recorded"]
    /\ UNCHANGED <<active, uploading, document, job, chunks, published, ingester>>

-----------------------------------------------------------------------------
Finish(w) == complete_ingestion(w) \/ FailPermanently(w) \/ mark_retryable_failure(w)

KnowledgeNext ==
    \/ \E s \in Sources : create_source(s) \/ update_source(s)
    \/ \E d \in Documents : \/ ReadSource(d) \/ upload_document(d) \/ retry_document(d)
                            \/ recover_stuck_ingestion_job(d)
    \/ \E w \in Workers : \/ \E d \in Documents : claim_ingestion(w, d)
                          \/ Finish(w) \/ ReadAttempts(w) \/ fail_ingestion(w) \/ IngesterCrash(w)
    \/ \E q \in Searches : RankChunks(q) \/ RecordHits(q)

KnowledgeSpec == KnowledgeInit /\ [][KnowledgeNext]_knowledgeVars

\* The sweep runs for ever, a published job is taken when a worker is free again and
\* again, and the workers of a document do not die every time.
KnowledgeFairness ==
    /\ \A d \in Documents :
          /\ WF_knowledgeVars(recover_stuck_ingestion_job(d))
          /\ SF_knowledgeVars(\E w \in Workers : claim_ingestion(w, d))
    /\ \A w \in Workers, d \in Documents :
          /\ SF_knowledgeVars(ingester[w].doc = d /\ Finish(w))
          /\ SF_knowledgeVars(ingester[w].doc = d /\ ReadAttempts(w))
          /\ SF_knowledgeVars(ingester[w].doc = d /\ fail_ingestion(w))

-----------------------------------------------------------------------------
KnowledgeTypeOK ==
    /\ active \in [Sources -> BOOLEAN]
    /\ uploading \subseteq Documents
    /\ document \in [Documents -> DocumentStatuses]
    /\ job \in [Documents -> [status : JobStatuses, attempts : 0..MaxAttempts]]
    /\ chunks \in [Documents -> Nat]
    /\ published \subseteq Documents
    /\ ingester \in [Workers -> [pc : {"idle", "working", "retrying", "failing"},
                               doc : Documents \cup {NoDocument}]]
    /\ search \in [Searches -> [pc : {"idle", "ranked", "recorded"}, found : [Documents -> Nat]]]

\* The job and its document always tell the same story, and the chunks are those of
\* exactly one completed ingestion, whatever redeliveries, retries and crashes the
\* overlapping workers went through.
ReadyHasChunksOnce ==
    \A d \in Documents :
        /\ document[d] = IF job[d].status = "SUCCEEDED" THEN "READY" ELSE job[d].status
        /\ chunks[d] = IF document[d] = "READY" THEN 1 ELSE 0

\* What a search has ranked is still there when it records its hits, and stays there
\* for those who read them: RetrievalHit.chunk refers to existing rows.
HitsExist ==
    \A q \in Searches, d \in Documents : search[q].found[d] > 0 =>
        search[q].found[d] = chunks[d] /\ document[d] = "READY"

\* A document that waits for its ingestion is ingested or reported as failed.
IngestionEnds ==
    \A d \in Documents : document[d] \in {"QUEUED", "PROCESSING"} ~> document[d] \in {"READY", "FAILED"}
=============================================================================
