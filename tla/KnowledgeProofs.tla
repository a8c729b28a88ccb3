---------------------------- MODULE KnowledgeProofs ----------------------------
(***************************************************************************)
(* Knowledge, from the upload to what the model reads.                     *)
(*                                                                         *)
(* KnowledgeIngestion, for any number of documents, sources, workers,      *)
(* searches and attempts: a document that is READY has the chunks of one   *)
(* ingestion, and the hits of every search refer to chunks that exist.     *)
(* The two hold together: hits are safe because no step takes a document   *)
(* out of READY, which holds because the job and its document agree.       *)
(*                                                                         *)
(* KnowledgeChunking, for any document and settings: chunks lose no text   *)
(* and cite the pages it comes from. AgentContext, for any conversation,   *)
(* ranking and limits: the model reads the newest history that fits, and   *)
(* references cite what it reads. Both are proved by the invariant of      *)
(* their loops; what has to be shown by induction over the data rests on   *)
(* LeastNumber, that a set of numbers has a least element.                 *)
(***************************************************************************)
EXTENDS KnowledgeIngestion, KnowledgeChunking, AgentContext, FiniteSetTheorems,
        SequenceTheorems, WellFoundedInduction, TLAPS

-----------------------------------------------------------------------------
(* KnowledgeIngestion *)

JobRows == [status : JobStatuses, attempts : 0..MaxAttempts]

\* A worker that is not idle has a document.
IngestersInv == \A w \in Workers : ingester[w].pc # "idle" => ingester[w].doc \in Documents

KInv == KnowledgeTypeOK /\ ReadyHasChunksOnce /\ HitsExist /\ IngestersInv

\* What a step of KnowledgeNext must show of the documents, their jobs and the searches.
RowsKept ==
    /\ document' \in [Documents -> DocumentStatuses]
    /\ job' \in [Documents -> JobRows]
    /\ chunks' \in [Documents -> Nat]
    /\ ReadyHasChunksOnce' /\ HitsExist'

\* The documents, jobs, chunks and searches stay as they are.
LEMMA NoRowWritten ==
    ASSUME KInv, UNCHANGED <<document, job, chunks, search>>
    PROVE  RowsKept
BY DEF KInv, KnowledgeTypeOK, RowsKept, ReadyHasChunksOnce, HitsExist, JobRows

\* A job that has not succeeded gets another status, and its document with it.
LEMMA RowWritten ==
    ASSUME KInv, NEW d \in Documents, job[d].status # "SUCCEEDED",
           NEW row \in JobRows, row.status # "SUCCEEDED",
           job' = [job EXCEPT ![d] = row],
           document' = [document EXCEPT ![d] = row.status],
           UNCHANGED <<chunks, search>>
    PROVE  RowsKept
<1>1. row.status \in DocumentStatuses /\ row.status # "READY"
  BY DEF JobRows, JobStatuses, DocumentStatuses
<1>2. job' \in [Documents -> JobRows] /\ document' \in [Documents -> DocumentStatuses]
  BY <1>1 DEF KInv, KnowledgeTypeOK, JobRows
<1>3. job[d].status # "READY" /\ document[d] # "READY"
  BY DEF KInv, KnowledgeTypeOK, ReadyHasChunksOnce, JobStatuses
<1>4. /\ job'[d] = row /\ document'[d] = row.status
      /\ \A e \in Documents : e # d => job'[e] = job[e] /\ document'[e] = document[e]
  BY DEF KInv, KnowledgeTypeOK
<1>5. ReadyHasChunksOnce'
  BY <1>1, <1>3, <1>4 DEF KInv, ReadyHasChunksOnce
<1>6. HitsExist'
  BY <1>3, <1>4 DEF KInv, HitsExist
<1> QED
  BY <1>2, <1>5, <1>6 DEF KInv, KnowledgeTypeOK, RowsKept

\* The row a job has after a change of its status.
LEMMA StatusRow ==
    ASSUME KInv, NEW d \in Documents, NEW s \in JobStatuses
    PROVE  /\ [job[d] EXCEPT !.status = s] \in JobRows
           /\ [job[d] EXCEPT !.status = s].status = s
BY DEF KInv, KnowledgeTypeOK, JobRows

\* The worker's record after a step.
LEMMA IngesterUpdate ==
    ASSUME KInv, NEW w \in Workers,
           NEW pc \in {"idle", "working", "retrying", "failing"}, NEW d \in Documents \cup {NoDocument},
           pc # "idle" => d \in Documents,
           ingester' = [ingester EXCEPT ![w] = [pc |-> pc, doc |-> d]]
    PROVE  /\ ingester' \in [Workers -> [pc : {"idle", "working", "retrying", "failing"},
                                         doc : Documents \cup {NoDocument}]]
           /\ IngestersInv'
<1> DEFINE rec == [pc |-> pc, doc |-> d]
<1>1. rec.pc = pc /\ rec.doc = d
  OBVIOUS
<1>2. \A v \in Workers : ingester'[v] = IF v = w THEN rec ELSE ingester[v]
  BY DEF KInv, KnowledgeTypeOK
<1> QED
  BY <1>1, <1>2 DEF KInv, KnowledgeTypeOK, IngestersInv

\* A worker leaves its document, or goes on with it.
LEMMA IngesterMoves ==
    ASSUME KInv, NEW w \in Workers, ingester[w].pc # "idle",
           \/ ingester' = [ingester EXCEPT ![w] = Idle]
           \/ \E pc \in {"retrying", "failing"} : ingester' = [ingester EXCEPT ![w].pc = pc]
    PROVE  /\ ingester' \in [Workers -> [pc : {"idle", "working", "retrying", "failing"},
                                         doc : Documents \cup {NoDocument}]]
           /\ IngestersInv'
<1>1. ingester[w].doc \in Documents
  BY DEF KInv, IngestersInv
<1>2. CASE ingester' = [ingester EXCEPT ![w] = Idle]
  BY <1>2, IngesterUpdate DEF Idle
<1>3. ASSUME NEW pc \in {"retrying", "failing"}, ingester' = [ingester EXCEPT ![w].pc = pc]
      PROVE  /\ ingester' \in [Workers -> [pc : {"idle", "working", "retrying", "failing"},
                                           doc : Documents \cup {NoDocument}]]
             /\ IngestersInv'
  <2> DEFINE d == ingester[w].doc
  <2>1. ingester' = [ingester EXCEPT ![w] = [pc |-> pc, doc |-> d]]
    <3>1. ingester[w] \in [pc : {"idle", "working", "retrying", "failing"},
                           doc : Documents \cup {NoDocument}]
      BY DEF KInv, KnowledgeTypeOK
    <3>2. [ingester[w] EXCEPT !.pc = pc] = [pc |-> pc, doc |-> d]
      BY <3>1
    <3>3. ingester' = [ingester EXCEPT ![w] = [ingester[w] EXCEPT !.pc = pc]]
      BY <1>3
    <3> QED
      BY <3>2, <3>3
  <2>2. d \in Documents /\ pc \in {"idle", "working", "retrying", "failing"}
    BY <1>1
  <2> HIDE DEF d
  <2> QED
    BY <2>1, <2>2, IngesterUpdate
<1> QED
  BY <1>2, <1>3

\* mark_failed spares a job that has succeeded.
LEMMA FailedRow ==
    ASSUME KInv, NEW d \in Documents, mark_failed(d), UNCHANGED <<chunks, search>>
    PROVE  RowsKept
<1>1. CASE job[d].status = "SUCCEEDED"
  BY <1>1, NoRowWritten DEF mark_failed
<1>2. CASE job[d].status # "SUCCEEDED"
  <2> DEFINE row == [job[d] EXCEPT !.status = "FAILED"]
  <2>1. row \in JobRows /\ row.status = "FAILED"
    BY StatusRow DEF JobStatuses
  <2>2. job' = [job EXCEPT ![d] = row] /\ document' = [document EXCEPT ![d] = "FAILED"]
    BY <1>2 DEF mark_failed
  <2> HIDE DEF row
  <2> QED
    BY <1>2, <2>1, <2>2, RowWritten
<1> QED
  BY <1>1, <1>2

-----------------------------------------------------------------------------
\* Requests of managers, and the sweep.
LEMMA ManagerStep ==
    ASSUME KInv,
           \/ \E s \in Sources : create_source(s) \/ update_source(s)
           \/ \E d \in Documents : \/ ReadSource(d) \/ upload_document(d) \/ retry_document(d)
                                  \/ recover_stuck_ingestion_job(d)
    PROVE  KInv'
<1>1. /\ UNCHANGED <<ingester, search>> /\ active' \in [Sources -> BOOLEAN] /\ published' \subseteq Documents
      /\ uploading' \subseteq Documents
  BY DEF KInv, KnowledgeTypeOK, create_source, update_source, ReadSource, upload_document, retry_document,
         recover_stuck_ingestion_job, PublishJob
<1>2. RowsKept
  <2>1. ASSUME NEW d \in Documents, upload_document(d) PROVE RowsKept
    <3> DEFINE row == [job[d] EXCEPT !.status = "QUEUED"]
    <3>1. row \in JobRows /\ row.status = "QUEUED"
      BY StatusRow DEF JobStatuses
    <3>2. /\ job' = [job EXCEPT ![d] = row] /\ document' = [document EXCEPT ![d] = "QUEUED"]
          /\ UNCHANGED <<chunks, search>> /\ document[d] = "none"
      BY <2>1 DEF upload_document
    <3>3. job[d].status # "SUCCEEDED"
      BY <3>2 DEF KInv, ReadyHasChunksOnce
    <3> HIDE DEF row
    <3> QED
      BY <3>1, <3>2, <3>3, RowWritten
  <2>2. ASSUME NEW d \in Documents, retry_document(d) PROVE RowsKept
    <3> DEFINE row == [status |-> "QUEUED", attempts |-> 0]
    <3>1. row \in JobRows /\ row.status = "QUEUED"
      BY KnowledgeAssumption DEF JobRows, JobStatuses
    <3>2. /\ job' = [job EXCEPT ![d] = row] /\ document' = [document EXCEPT ![d] = "QUEUED"]
          /\ UNCHANGED <<chunks, search>> /\ document[d] = "FAILED"
      BY <2>2 DEF retry_document
    <3>3. job[d].status # "SUCCEEDED"
      BY <3>2 DEF KInv, ReadyHasChunksOnce
    <3> HIDE DEF row
    <3> QED
      BY <3>1, <3>2, <3>3, RowWritten
  <2>3. ASSUME \/ \E s \in Sources : create_source(s) \/ update_source(s)
               \/ \E d \in Documents : ReadSource(d) \/ recover_stuck_ingestion_job(d)
        PROVE  RowsKept
    BY <2>3, NoRowWritten DEF create_source, update_source, ReadSource, recover_stuck_ingestion_job
  <2> QED
    BY <2>1, <2>2, <2>3
<1> QED
  BY <1>1, <1>2 DEF KInv, KnowledgeTypeOK, RowsKept, JobRows, IngestersInv

\* The claim of a published job.
LEMMA ClaimStep ==
    ASSUME KInv, NEW w \in Workers, NEW d \in Documents, claim_ingestion(w, d)
    PROVE  KInv'
<1> DEFINE n == IF job[d].attempts < MaxAttempts THEN job[d].attempts + 1 ELSE MaxAttempts
           row == [status |-> "PROCESSING", attempts |-> n]
<1>1. job[d].attempts \in 0..MaxAttempts
  BY DEF KInv, KnowledgeTypeOK
<1>2. row \in JobRows /\ row.status = "PROCESSING"
  BY <1>1, KnowledgeAssumption DEF JobRows, JobStatuses
<1>3. /\ job' = [job EXCEPT ![d] = row] /\ document' = [document EXCEPT ![d] = "PROCESSING"]
      /\ ingester' = [ingester EXCEPT ![w] = [pc |-> "working", doc |-> d]]
      /\ job[d].status # "SUCCEEDED" /\ published' \subseteq Documents
      /\ UNCHANGED <<active, uploading, chunks, search>>
  BY DEF claim_ingestion, KInv, KnowledgeTypeOK
<1> HIDE DEF row
<1>4. RowsKept
  BY <1>2, <1>3, RowWritten
<1>5. /\ ingester' \in [Workers -> [pc : {"idle", "working", "retrying", "failing"},
                                    doc : Documents \cup {NoDocument}]]
      /\ IngestersInv'
  BY <1>3, IngesterUpdate
<1> QED
  BY <1>3, <1>4, <1>5 DEF KInv, KnowledgeTypeOK, RowsKept, JobRows

\* The last transaction: the only one that writes chunks, and only while the job is
\* PROCESSING.
LEMMA CompleteStep ==
    ASSUME KInv, NEW w \in Workers, complete_ingestion(w)
    PROVE  RowsKept
<1> DEFINE d == ingester[w].doc
<1>1. d \in Documents
  BY DEF complete_ingestion, KInv, IngestersInv
<1>2. CASE job[d].status = "PROCESSING"
  <2> DEFINE row == [job[d] EXCEPT !.status = "SUCCEEDED"]
  <2>1. row \in JobRows /\ row.status = "SUCCEEDED"
    BY <1>1, StatusRow DEF JobStatuses
  <2>2. /\ job' = [job EXCEPT ![d] = row] /\ document' = [document EXCEPT ![d] = "READY"]
        /\ chunks' = [chunks EXCEPT ![d] = @ + 1] /\ UNCHANGED search
    BY <1>2 DEF complete_ingestion
  <2> HIDE DEF row, d
  <2>3. document[d] # "READY" /\ chunks[d] = 0
    BY <1>1, <1>2 DEF KInv, ReadyHasChunksOnce
  <2>4. /\ job'[d] = row /\ document'[d] = "READY" /\ chunks'[d] = 1
        /\ \A e \in Documents : e # d =>
              job'[e] = job[e] /\ document'[e] = document[e] /\ chunks'[e] = chunks[e]
    BY <1>1, <2>2, <2>3 DEF KInv, KnowledgeTypeOK
  <2>5. ReadyHasChunksOnce'
    BY <2>1, <2>4 DEF KInv, ReadyHasChunksOnce
  <2>6. HitsExist'
    BY <1>1, <2>2, <2>3, <2>4 DEF KInv, HitsExist
  <2>7. /\ job' \in [Documents -> JobRows] /\ document' \in [Documents -> DocumentStatuses]
        /\ chunks' \in [Documents -> Nat]
    BY <1>1, <2>1, <2>2, <2>3 DEF KInv, KnowledgeTypeOK, JobRows, DocumentStatuses
  <2> QED
    BY <2>5, <2>6, <2>7 DEF RowsKept
<1>3. CASE job[d].status # "PROCESSING"
  BY <1>3, NoRowWritten DEF complete_ingestion
<1> QED
  BY <1>2, <1>3

\* The other steps of a worker that has a document.
LEMMA WorkerStep ==
    ASSUME KInv, NEW w \in Workers,
           Finish(w) \/ ReadAttempts(w) \/ fail_ingestion(w) \/ IngesterCrash(w)
    PROVE  KInv'
<1> DEFINE d == ingester[w].doc
<1>1. ingester[w].pc # "idle" /\ d \in Documents
  BY DEF Finish, complete_ingestion, FailPermanently, mark_retryable_failure, ReadAttempts,
         fail_ingestion, IngesterCrash, KInv, IngestersInv
<1>2. /\ UNCHANGED <<active, uploading, search>> /\ published' \subseteq Documents
  BY <1>1 DEF Finish, complete_ingestion, FailPermanently, mark_retryable_failure, ReadAttempts,
         fail_ingestion, IngesterCrash, PublishJob, KInv, KnowledgeTypeOK
<1>3. /\ ingester' \in [Workers -> [pc : {"idle", "working", "retrying", "failing"},
                                    doc : Documents \cup {NoDocument}]]
      /\ IngestersInv'
  BY <1>1, IngesterMoves DEF Finish, complete_ingestion, FailPermanently, mark_retryable_failure,
         ReadAttempts, fail_ingestion, IngesterCrash
<1>4. RowsKept
  <2>1. CASE complete_ingestion(w)
    BY <2>1, CompleteStep
  <2>2. CASE FailPermanently(w) \/ fail_ingestion(w)
    BY <1>1, <2>2, FailedRow DEF FailPermanently, fail_ingestion
  <2>3. CASE mark_retryable_failure(w)
    <3>1. CASE job[d].status = "SUCCEEDED"
      BY <2>3, <3>1, NoRowWritten DEF mark_retryable_failure
    <3>2. CASE job[d].status # "SUCCEEDED"
      <4> DEFINE row == [job[d] EXCEPT !.status = "QUEUED"]
      <4>1. row \in JobRows /\ row.status = "QUEUED"
        BY <1>1, StatusRow DEF JobStatuses
      <4>2. /\ job' = [job EXCEPT ![d] = row] /\ document' = [document EXCEPT ![d] = "QUEUED"]
            /\ UNCHANGED <<chunks, search>>
        BY <2>3, <3>2 DEF mark_retryable_failure
      <4> HIDE DEF row, d
      <4> QED
        BY <1>1, <3>2, <4>1, <4>2, RowWritten
    <3> QED
      BY <3>1, <3>2
  <2>4. CASE ReadAttempts(w) \/ IngesterCrash(w)
    BY <2>4, NoRowWritten DEF ReadAttempts, IngesterCrash
  <2> QED
    BY <2>1, <2>2, <2>3, <2>4 DEF Finish
<1> QED
  BY <1>2, <1>3, <1>4 DEF KInv, KnowledgeTypeOK, RowsKept, JobRows

\* A search ranks chunks of READY documents and records them later.
LEMMA SearchStep ==
    ASSUME KInv, NEW q \in Searches, RankChunks(q) \/ RecordHits(q)
    PROVE  KInv'
<1>1. UNCHANGED <<active, uploading, document, job, chunks, published, ingester>>
  BY DEF RankChunks, RecordHits
<1> DEFINE Found == [pc : {"idle", "ranked", "recorded"}, found : [Documents -> Nat]]
<1>2. ASSUME NEW rec \in Found, search' = [search EXCEPT ![q] = rec],
             \A d \in Documents : rec.found[d] > 0 => rec.found[d] = chunks[d] /\ document[d] = "READY"
      PROVE  search' \in [Searches -> Found] /\ HitsExist'
  <2>1. \A r \in Searches : search'[r] = IF r = q THEN rec ELSE search[r]
    BY <1>2 DEF KInv, KnowledgeTypeOK
  <2> QED
    BY <1>1, <1>2, <2>1 DEF KInv, KnowledgeTypeOK, HitsExist
<1>3. search' \in [Searches -> Found] /\ HitsExist'
  <2>1. CASE RankChunks(q)
    <3>1. PICK D \in SUBSET {d \in Documents : Searchable(d)} :
             search' = [search EXCEPT ![q] =
                 [pc |-> "ranked", found |-> [d \in Documents |-> IF d \in D THEN chunks[d] ELSE 0]]]
      BY <2>1 DEF RankChunks
    <3> DEFINE rec == [pc |-> "ranked", found |-> [d \in Documents |-> IF d \in D THEN chunks[d] ELSE 0]]
    <3>2. rec \in Found
      BY DEF KInv, KnowledgeTypeOK
    <3>3. \A d \in Documents : rec.found[d] > 0 => rec.found[d] = chunks[d] /\ document[d] = "READY"
      BY DEF Searchable
    <3> HIDE DEF rec
    <3> QED
      BY <1>2, <3>1, <3>2, <3>3 DEF rec
  <2>2. CASE RecordHits(q)
    <3> DEFINE rec == [search[q] EXCEPT !.pc = "recorded"]
    <3>1. rec \in Found /\ rec.found = search[q].found
      BY DEF KInv, KnowledgeTypeOK
    <3>2. search' = [search EXCEPT ![q] = rec]
      BY <2>2 DEF RecordHits
    <3> HIDE DEF rec
    <3>3. \A d \in Documents : rec.found[d] > 0 => rec.found[d] = chunks[d] /\ document[d] = "READY"
      BY <3>1 DEF KInv, HitsExist
    <3> QED
      BY <1>2, <3>1, <3>2, <3>3
  <2> QED
    BY <2>1, <2>2
<1> QED
  BY <1>1, <1>3 DEF KInv, KnowledgeTypeOK, ReadyHasChunksOnce, IngestersInv

\* The invariant holds at first and is kept by every step.
LEMMA KnowledgeInductive ==
    /\ KnowledgeInit => KInv
    /\ KInv /\ [KnowledgeNext]_knowledgeVars => KInv'
<1>1. KnowledgeInit => KInv
  BY KnowledgeAssumption
     DEF KnowledgeInit, KInv, KnowledgeTypeOK, ReadyHasChunksOnce, HitsExist, IngestersInv, Idle,
         NoSearch, DocumentStatuses, JobStatuses
<1>2. ASSUME KInv, KnowledgeNext PROVE KInv'
  BY <1>2, ManagerStep, ClaimStep, WorkerStep, SearchStep DEF KnowledgeNext
<1>3. ASSUME KInv, UNCHANGED knowledgeVars PROVE KInv'
  BY <1>3 DEF knowledgeVars, KInv, KnowledgeTypeOK, ReadyHasChunksOnce, HitsExist, IngestersInv
<1> QED
  BY <1>1, <1>2, <1>3

\* Whatever messages are delivered again and whatever workers overlap, run_ingestion
\* leaves a READY document with the chunks of one ingestion, and no other one with any.
THEOREM ChunksAreWrittenOnce == KnowledgeSpec => [](KnowledgeTypeOK /\ ReadyHasChunksOnce)
<1>1. KInv => KnowledgeTypeOK /\ ReadyHasChunksOnce
  BY DEF KInv
<1> QED
  BY <1>1, KnowledgeInductive, PTL DEF KnowledgeSpec

\* The chunks search_knowledge has ranked are still there when it inserts its hits, and
\* ever after, without a lock.
THEOREM HitsStayValid == KnowledgeSpec => []HitsExist
<1>1. KInv => HitsExist
  BY DEF KInv
<1> QED
  BY <1>1, KnowledgeInductive, PTL DEF KnowledgeSpec

-----------------------------------------------------------------------------
(* KnowledgeChunking *)

ChunkingTypeOK ==
    /\ stage \in {"normalize", "chunk", "done", "rejected"}
    /\ pages \in Seq(Seq(Characters)) /\ page \in 1..(Len(pages) + 1)
    /\ text \in Seq(Characters) /\ offset = Len(text)
    /\ origin \in Seq([page : Nat, at : Nat]) /\ Len(origin) = Len(text)
    /\ sections \in SUBSET [page : Nat, from : Nat, to : Nat]
    /\ cursor \in Nat
    /\ drafts \in Seq([start : Nat, end : Nat, page_start : Nat, page_end : Nat])

\* A character of the text is one of an earlier page, or a blank between two sections.
FromPages ==
    \A i \in 1..Len(text) :
        \/ origin[i] = NoOrigin /\ text[i] \in Blank
        \/ /\ origin[i].page \in 1..(page - 1)
           /\ origin[i].at \in 1..Len(pages[origin[i].page])
           /\ text[i] = Normalized(pages[origin[i].page][origin[i].at])

InSourceOrder ==
    \A i, j \in 1..Len(text) : i < j /\ origin[i] # NoOrigin /\ origin[j] # NoOrigin =>
        \/ origin[i].page < origin[j].page
        \/ origin[i].page = origin[j].page /\ origin[i].at < origin[j].at

InkJoined ==
    \A p \in 1..(page - 1) : \A k \in Inked(pages[p]) :
        \E i \in 1..Len(text) : origin[i] = [page |-> p, at |-> k]

\* A section starts and ends with a character that is not blank, and all its characters
\* come from its page.
SectionsFit ==
    \A s \in sections :
        /\ s.page \in 1..(page - 1) /\ s.from < s.to /\ s.to <= Len(text)
        /\ \A i \in (s.from + 1)..s.to : origin[i].page = s.page
        /\ text[s.from + 1] \notin Blank /\ text[s.to] \notin Blank

SectionsCover ==
    \A i \in 1..Len(text) : origin[i] # NoOrigin =>
        \E s \in sections : s.page = origin[i].page /\ s.from < i /\ i <= s.to

EndsInked == text # <<>> => text[1] \notin Blank /\ text[Len(text)] \notin Blank

JoinInv == /\ FromPages /\ InSourceOrder /\ InkJoined
           /\ SectionsFit /\ SectionsCover /\ EndsInked

\* Offset i needs no chunk of its own any more.
Kept(i) == IsBlank(i) \/ Covered(i) \/ BehindBlanks(i) \/ InShortPiece(i)

DraftsFit ==
    \A k \in 1..Len(drafts) :
        /\ drafts[k].start < drafts[k].end /\ drafts[k].end <= Len(text)
        /\ drafts[k].end <= drafts[k].start + ChunkSize
        /\ ~IsBlank(drafts[k].start) /\ ~IsBlank(drafts[k].end - 1)
        /\ k > 1 => drafts[k].start > drafts[k - 1].start

WindowInv ==
    /\ stage = "normalize" => drafts = <<>> /\ cursor = 0
    /\ stage # "normalize" => page = Len(pages) + 1
    /\ stage = "chunk" => /\ cursor < Len(text) /\ \A i \in 0..(cursor - 1) : Kept(i)
                          /\ \A k \in 1..Len(drafts) : drafts[k].start < cursor
    /\ stage = "done" => \A i \in 0..(Len(text) - 1) : Kept(i)

ChunkingInv == ChunkingTypeOK /\ JoinInv /\ DraftsFit /\ WindowInv /\ ChunksCiteTheirPages

\* Every non-empty set of natural numbers has a least element.
LEMMA LeastNumber ==
    ASSUME NEW S \in SUBSET Nat, S # {}
    PROVE  \E n \in S : \A m \in S : n <= m
<1> DEFINE R == OpToRel(<, Nat)
<1>1. IsWellFoundedOn(R, Nat)
  BY NatLessThanWellFounded
<1>2. \A x, y \in Nat : x < y => <<x, y>> \in R
  BY DEF OpToRel
<1> HIDE DEF R
<1>3. PICK n \in S : \A m \in S : ~ (<<m, n>> \in R)
  BY <1>1, WFMin
<1>4. ASSUME NEW m \in S PROVE n <= m
  <2>1. ~ (m < n)
    BY <1>2, <1>3
  <2> QED BY <2>1
<1> QED
  BY <1>4

\* What Min and Max are on the sets they are used for.
LEMMA MinFacts ==
    ASSUME NEW S \in SUBSET Nat, S # {}
    PROVE  Min(S) \in S /\ \A m \in S : Min(S) <= m
BY LeastNumber, Zenon DEF Min

LEMMA MaxFacts ==
    ASSUME NEW b \in Nat, NEW S \in SUBSET (0..b), S # {}
    PROVE  Max(S) \in S /\ \A m \in S : m <= Max(S)
<1> DEFINE T == {b - s : s \in S}
<1>1. T \in SUBSET Nat /\ T # {}
  <2>1. ASSUME NEW s \in S PROVE b - s \in Nat
    OBVIOUS
  <2> QED
    BY <2>1
<1>2. PICK t \in T : \A m \in T : t <= m
  BY <1>1, LeastNumber
<1>3. PICK n \in S : t = b - n
  OBVIOUS
<1>4. ASSUME NEW m \in S PROVE n >= m
  <2>1. b - n <= b - m
    BY <1>2, <1>3
  <2> QED BY <2>1
<1>5. Max(S) \in S /\ \A m \in S : Max(S) >= m
  BY <1>4, Zenon DEF Max
<1> QED
  BY <1>5

\* InOrder lists a set of places once each, from the smallest on.
LEMMA OrderFacts ==
    ASSUME NEW n \in Nat, NEW S \in SUBSET (1..n)
    PROVE  /\ InOrder(S) \in Seq(S) /\ Len(InOrder(S)) = Cardinality(S)
           /\ \A a, b \in DOMAIN InOrder(S) : a < b => InOrder(S)[a] < InOrder(S)[b]
           /\ \A i \in S : \E a \in DOMAIN InOrder(S) : InOrder(S)[a] = i
           /\ InOrder(S) = <<>> <=> S = {}
<1> DEFINE upto(i) == {j \in S : j <= i}
           place == [i \in S |-> Cardinality(upto(i))]
           size == Cardinality(S)
<1>1. IsFiniteSet(S) /\ size \in Nat
  <2>1. IsFiniteSet(1..n)
    BY FS_Interval
  <2> QED
    BY <2>1, FS_Subset, FS_CardinalityType
<1>2. ASSUME NEW i \in S
      PROVE  /\ IsFiniteSet(upto(i)) /\ Cardinality(upto(i)) \in 1..size
  <2>1. IsFiniteSet(upto(i)) /\ Cardinality(upto(i)) <= size
    BY <1>1, FS_Subset
  <2>2. upto(i) # {}
    OBVIOUS
  <2>3. Cardinality(upto(i)) \in Nat /\ Cardinality(upto(i)) # 0
    BY <2>1, <2>2, FS_EmptySet, FS_CardinalityType
  <2> QED
    BY <1>1, <2>1, <2>3
<1>3. ASSUME NEW i \in S, NEW k \in S, i < k
      PROVE  place[i] < place[k]
  <2>1. upto(i) \in SUBSET upto(k) /\ k \in upto(k) /\ k \notin upto(i)
    <3>1. \A j \in S : j \in Nat
      OBVIOUS
    <3>2. \A j \in S : j <= i => j <= k
      BY <1>3, <3>1
    <3>3. k <= k /\ ~ (k <= i)
      BY <1>3, <3>1
    <3> QED
      BY <3>2, <3>3, Zenon
  <2>2. Cardinality(upto(i)) <= Cardinality(upto(k)) /\ Cardinality(upto(i)) # Cardinality(upto(k))
    BY <1>2, <2>1, FS_Subset
  <2> QED
    BY <1>2, <2>2
<1>4. place \in Injection(S, 1..size)
  <2>1. place \in [S -> 1..size]
    BY <1>2
  <2>2. ASSUME NEW i \in S, NEW k \in S, place[i] = place[k] PROVE i = k
    <3>1. i \in Nat /\ k \in Nat /\ place[i] \in Nat
      BY <2>1
    <3> QED
      BY <1>3, <2>2, <3>1
  <2> QED
    BY <2>1, <2>2 DEF Injection, IsInjective
<1>5. IsFiniteSet(1..size) /\ Cardinality(1..size) = size
  BY <1>1, FS_Interval
<1>6. place \in Surjection(S, 1..size)
  BY <1>1, <1>4, <1>5, FS_Injection
<1>7. \A a \in 1..size : \E i \in S : place[i] = a
  BY <1>6 DEF Surjection
<1> DEFINE order == InOrder(S)
<1>8. /\ DOMAIN order = 1..size
      /\ order = [a \in 1..size |-> CHOOSE i \in S : Cardinality(upto(i)) = a]
  BY DEF InOrder
<1>9. ASSUME NEW a \in 1..size PROVE order[a] \in S /\ place[order[a]] = a
  <2>1. order[a] = CHOOSE i \in S : Cardinality(upto(i)) = a
    BY <1>8
  <2>2. \E i \in S : Cardinality(upto(i)) = a
    BY <1>7
  <2>3. order[a] \in S /\ Cardinality(upto(order[a])) = a
    BY <2>1, <2>2, Zenon
  <2> QED
    BY <2>3
<1> HIDE DEF order, place
<1>10. order \in Seq(S) /\ Len(order) = size
  <2>1. order \in [1..size -> S]
    BY <1>8, <1>9
  <2> QED
    BY <1>1, <2>1
<1>11. ASSUME NEW a \in 1..size, NEW b \in 1..size, a < b PROVE order[a] < order[b]
  <2>1. order[a] \in S /\ order[b] \in S /\ place[order[a]] = a /\ place[order[b]] = b
    BY <1>9
  <2>2. ~ (place[order[b]] < place[order[a]]) /\ place[order[a]] # place[order[b]]
    BY <1>11, <2>1
  <2>3. order[a] \in 1..n /\ order[b] \in 1..n
    BY <2>1, Zenon
  <2>4. ~ (order[b] < order[a]) /\ order[a] # order[b]
    BY <1>3, <2>1, <2>2
  <2> QED
    BY <2>3, <2>4
<1>12. ASSUME NEW i \in S PROVE \E a \in 1..size : order[a] = i
  <2>1. place[i] \in 1..size
    BY <1>2 DEF place
  <2>2. order[place[i]] \in S /\ place[order[place[i]]] = place[i]
    BY <1>9, <2>1
  <2>3. order[place[i]] = i
    BY <1>4, <2>2 DEF Injection, IsInjective
  <2> QED
    BY <2>1, <2>3
<1>13. order = <<>> <=> S = {}
  <2>1. order = <<>> <=> Len(order) = 0
    BY <1>10, EmptySeq
  <2>2. size = 0 <=> S = {}
    BY <1>1, FS_EmptySet
  <2> QED
    BY <1>10, <2>1, <2>2
<1> QED
  BY <1>8, <1>10, <1>11, <1>12, <1>13 DEF order

\* normalize_text only drops blanks, and what it keeps starts and ends with something else.
LEMMA NormalizedPage ==
    ASSUME NEW string \in Seq(Characters)
    PROVE  /\ normalize_text(string) \in SUBSET (1..Len(string))
           /\ Inked(string) \subseteq normalize_text(string)
           /\ \A i \in normalize_text(string) : \E j, k \in Inked(string) : j <= i /\ i <= k
<1>1. DOMAIN string = 1..Len(string)
  OBVIOUS
<1>2. ASSUME NEW i \in Inked(string) PROVE i \in normalize_text(string)
  <2>1. i \in DOMAIN string /\ string[i] \notin Blank /\ i \in Nat
    BY <1>1 DEF Inked
  <2>2. \A j \in i..Len(string) : i \in i..j
    BY <2>1
  <2>3. i <= i
    BY <2>1
  <2>4. string[i] # Nul /\ string[i] \notin {Newline, Return}
    BY <2>1 DEF Blank
  <2> QED
    BY <2>1, <2>2, <2>3, <2>4, Zenon DEF normalize_text
<1> QED
  <2>1. normalize_text(string) \in SUBSET DOMAIN string
    BY Zenon DEF normalize_text
  <2>2. \A i \in normalize_text(string) : \E j, k \in Inked(string) : j <= i /\ i <= k
    BY Zenon DEF normalize_text
  <2> QED
    BY <1>1, <1>2, <2>1, <2>2, Zenon

\* Normalizing a character makes it no other character unless it is blank.
LEMMA NormalizedCharacter ==
    ASSUME NEW char \in Characters
    PROVE  /\ Normalized(char) \in Characters
           /\ char \notin Blank => Normalized(char) = char
BY ChunkingAssumption DEF Normalized, Blank

\* The places that are kept, in their order.
LEMMA KeptInOrder ==
    ASSUME NEW string \in Seq(Characters), NEW kept, kept = InOrder(normalize_text(string))
    PROVE  /\ kept \in Seq(1..Len(string))
           /\ \A a, b \in DOMAIN kept : a < b => kept[a] < kept[b]
           /\ \A i \in Inked(string) : \E a \in DOMAIN kept : kept[a] = i
           /\ kept # <<>> => /\ string[kept[1]] \notin Blank
                             /\ string[kept[Len(kept)]] \notin Blank
<1> DEFINE S == normalize_text(string)
<1>1. /\ S \in SUBSET (1..Len(string)) /\ Inked(string) \subseteq S
      /\ \A i \in S : \E j, k \in Inked(string) : j <= i /\ i <= k
  BY NormalizedPage
<1>2. Len(string) \in Nat
  OBVIOUS
<1> HIDE DEF S
<1>3. /\ kept \in Seq(S)
      /\ \A a, b \in DOMAIN kept : a < b => kept[a] < kept[b]
      /\ \A i \in S : \E a \in DOMAIN kept : kept[a] = i
  BY <1>1, <1>2, OrderFacts DEF S
<1>4. kept \in Seq(1..Len(string)) /\ DOMAIN kept = 1..Len(kept) /\ Len(kept) \in Nat
  <2>1. DOMAIN kept = 1..Len(kept) /\ Len(kept) \in Nat /\ kept \in [1..Len(kept) -> S]
    BY <1>3
  <2>2. kept \in [1..Len(kept) -> 1..Len(string)]
    BY <1>1, <2>1
  <2> QED
    BY <2>1, <2>2
<1>5. ASSUME kept # <<>>
      PROVE  string[kept[1]] \notin Blank /\ string[kept[Len(kept)]] \notin Blank
  <2>1. 1 \in DOMAIN kept /\ Len(kept) \in DOMAIN kept
    BY <1>4, <1>5
  <2>2. ASSUME NEW a \in DOMAIN kept
        PROVE  kept[1] <= kept[a] /\ kept[a] <= kept[Len(kept)]
    <3>1. a \in 1..Len(kept) /\ kept[a] \in Nat /\ kept[1] \in Nat /\ kept[Len(kept)] \in Nat
      BY <1>4, <2>1
    <3>2. a = 1 \/ 1 < a
      BY <3>1
    <3>3. a = Len(kept) \/ a < Len(kept)
      BY <1>4, <3>1
    <3> QED
      BY <1>3, <2>1, <3>1, <3>2, <3>3
  <2>3. kept[1] \in S /\ kept[Len(kept)] \in S
    BY <1>3, <2>1
  <2>4. PICK j \in Inked(string) : j <= kept[1]
    BY <1>1, <2>3
  <2>5. PICK k \in Inked(string) : kept[Len(kept)] <= k
    BY <1>1, <2>3
  <2>6. PICK a \in DOMAIN kept : kept[a] = j
    BY <1>1, <1>3
  <2>7. PICK b \in DOMAIN kept : kept[b] = k
    BY <1>1, <1>3
  <2>8. kept[1] = j /\ kept[Len(kept)] = k
    BY <1>4, <2>1, <2>2, <2>4, <2>5, <2>6, <2>7
  <2> QED
    BY <2>8 DEF Inked
<1> QED
  BY <1>1, <1>3, <1>4, <1>5

\* The three parts of a joined sequence.
LEMMA ThreeParts ==
    ASSUME NEW S, NEW a \in Seq(S), NEW b \in Seq(S), NEW c \in Seq(S)
    PROVE  /\ (a \o b \o c) \in Seq(S) /\ Len((a \o b \o c)) = Len(a) + Len(b) + Len(c)
           /\ \A i \in 1..Len(a) : (a \o b \o c)[i] = a[i]
           /\ \A i \in 1..Len(b) : (a \o b \o c)[Len(a) + i] = b[i]
           /\ \A i \in 1..Len(c) : (a \o b \o c)[Len(a) + Len(b) + i] = c[i]
<1> DEFINE ab == a \o b
           joined == a \o b \o c
<1>1. /\ ab \in Seq(S) /\ Len(ab) = Len(a) + Len(b)
      /\ \A i \in 1..Len(a) : ab[i] = a[i]
      /\ \A i \in 1..Len(b) : ab[Len(a) + i] = b[i]
  OBVIOUS
<1>2. joined = ab \o c
  OBVIOUS
<1> HIDE DEF ab, joined
<1>3. /\ joined \in Seq(S) /\ Len(joined) = Len(ab) + Len(c)
      /\ \A i \in 1..Len(ab) : joined[i] = ab[i]
      /\ \A i \in 1..Len(c) : joined[Len(ab) + i] = c[i]
  <2>1. joined \in Seq(S) /\ Len(joined) = Len(ab) + Len(c)
    BY <1>1, <1>2, ConcatProperties
  <2>2. \A i \in 1..Len(ab) : joined[i] = ab[i]
    BY <1>1, <1>2
  <2>3. \A i \in 1..Len(c) : joined[Len(ab) + i] = c[i]
    BY <1>1, <1>2
  <2> QED
    BY <2>1, <2>2, <2>3
<1>4. /\ \A i \in 1..Len(a) : i \in 1..Len(ab)
      /\ \A i \in 1..Len(b) : Len(a) + i \in 1..Len(ab)
  BY <1>1
<1>5. /\ joined \in Seq(S) /\ Len(joined) = Len(a) + Len(b) + Len(c)
      /\ \A i \in 1..Len(a) : joined[i] = a[i]
      /\ \A i \in 1..Len(b) : joined[Len(a) + i] = b[i]
      /\ \A i \in 1..Len(c) : joined[Len(a) + Len(b) + i] = c[i]
  BY <1>1, <1>3, <1>4
<1> QED
  BY <1>5 DEF joined

\* A function on the first n numbers is a sequence.
LEMMA FunctionIsSeq ==
    ASSUME NEW S, NEW n \in Nat, NEW f \in [1..n -> S]
    PROVE  f \in Seq(S) /\ Len(f) = n /\ DOMAIN f = 1..n
OBVIOUS

\* What one turn of the loop appends: the blank line, then the page's kept characters.
Appended(kept, gap) ==
    LET l == Len(text)
    IN  /\ Len(text') = l + gap + Len(kept) /\ Len(origin') = l + gap + Len(kept)
        /\ text' \in Seq(Characters) /\ origin' \in Seq([page : Nat, at : Nat])
        /\ \A i \in 1..l : text'[i] = text[i] /\ origin'[i] = origin[i]
        /\ \A i \in 1..gap : text'[l + i] \in Blank /\ origin'[l + i] = NoOrigin
        /\ \A i \in 1..Len(kept) : /\ text'[l + gap + i] = Normalized(pages[page][kept[i]])
                                   /\ origin'[l + gap + i] = [page |-> page, at |-> kept[i]]
        /\ sections' = sections \cup {[page |-> page, from |-> l + gap, to |-> l + gap + Len(kept)]}
        /\ offset' = l + gap + Len(kept)

\* normalize_extracted_document on a page with text appends it, behind a blank line unless it is
\* the first.
LEMMA AppendStep ==
    ASSUME ChunkingTypeOK, normalize_extracted_document, NEW kept,
           kept = InOrder(normalize_text(pages[page])), kept # <<>>
    PROVE  Appended(kept, Gap) /\ Gap \in {0, 2} /\ (Gap = 0 <=> text = <<>>)
<1> DEFINE l == Len(text)
           string == pages[page]
           between == IF text = <<>> THEN <<>> ELSE <<Newline, Newline>>
           marks == [i \in DOMAIN between |-> NoOrigin]
           body == [i \in DOMAIN kept |-> Normalized(string[kept[i]])]
           places == [i \in DOMAIN kept |-> [page |-> page, at |-> kept[i]]]
<1>0. /\ text \in Seq(Characters) /\ offset = Len(text) /\ l \in Nat
      /\ origin \in Seq([page : Nat, at : Nat]) /\ Len(origin) = l
      /\ pages \in Seq(Seq(Characters)) /\ page \in 1..(Len(pages) + 1)
  BY DEF ChunkingTypeOK
<1>1. page \in 1..Len(pages) /\ string \in Seq(Characters) /\ page \in Nat
  BY <1>0 DEF normalize_extracted_document
<1>2. /\ kept \in Seq(1..Len(string)) /\ DOMAIN kept = 1..Len(kept) /\ Len(kept) \in Nat
      /\ Len(string) \in Nat /\ l \in Nat
      /\ \A i \in 1..Len(kept) : kept[i] \in 1..Len(string)
  <2>1. kept \in Seq(1..Len(string))
    BY <1>1, KeptInOrder
  <2>2. kept \in [1..Len(kept) -> 1..Len(string)] /\ Len(kept) \in Nat
    BY <2>1, LenProperties
  <2>3. Len(string) \in Nat /\ l \in Nat
    BY <1>0, <1>1
  <2> QED
    BY <2>1, <2>2, <2>3
<1>3. /\ text' = text \o between \o body
      /\ origin' = origin \o marks \o places
      /\ offset' = offset + Gap + Len(kept)
      /\ sections' = sections \cup {[page |-> page, from |-> offset + Gap, to |-> offset']}
  BY Zenon DEF normalize_extracted_document
<1>4. Gap \in {0, 2} /\ (Gap = 0 <=> text = <<>>) /\ Gap \in Nat
  BY DEF Gap
<1>5. Space \in Blank /\ Newline \in Blank /\ Newline \in Characters
  BY ChunkingAssumption DEF Blank
<1>6. /\ between \in Seq(Characters) /\ Len(between) = Gap /\ DOMAIN between = 1..Gap
      /\ \A i \in 1..Gap : between[i] \in Blank
  <2>1. CASE text = <<>>
    BY <2>1 DEF Gap
  <2>2. CASE text # <<>>
    BY <1>5, <2>2 DEF Gap
  <2> QED
    BY <2>1, <2>2
<1> HIDE DEF between
<1>7. NoOrigin \in [page : Nat, at : Nat]
  BY DEF NoOrigin
<1>8. /\ marks \in Seq([page : Nat, at : Nat]) /\ Len(marks) = Gap
      /\ \A i \in 1..Gap : marks[i] = NoOrigin
  <2>1. marks \in [1..Gap -> [page : Nat, at : Nat]]
    BY <1>6, <1>7
  <2>2. marks \in Seq([page : Nat, at : Nat]) /\ Len(marks) = Gap
    BY <1>4, <2>1, FunctionIsSeq, Zenon
  <2>3. \A i \in 1..Gap : marks[i] = NoOrigin
    BY <1>6, Zenon
  <2> QED
    BY <2>2, <2>3, Zenon
<1>9. /\ body \in Seq(Characters) /\ Len(body) = Len(kept)
      /\ \A i \in 1..Len(kept) : body[i] = Normalized(string[kept[i]])
  <2>1. \A i \in 1..Len(kept) : Normalized(string[kept[i]]) \in Characters
    BY <1>1, <1>2, NormalizedCharacter
  <2>2. body \in [1..Len(kept) -> Characters]
    BY <1>2, <2>1
  <2> QED
    BY <1>2, <2>2
<1>10. /\ places \in Seq([page : Nat, at : Nat]) /\ Len(places) = Len(kept)
       /\ \A i \in 1..Len(kept) : places[i] = [page |-> page, at |-> kept[i]]
  <2>1. places \in [1..Len(kept) -> [page : Nat, at : Nat]]
    BY <1>1, <1>2
  <2> QED
    BY <1>2, <2>1
<1> HIDE DEF marks, body, places, string
<1>11. /\ text' \in Seq(Characters) /\ Len(text') = l + Gap + Len(kept)
       /\ \A i \in 1..l : text'[i] = text[i]
       /\ \A i \in 1..Gap : text'[l + i] = between[i]
       /\ \A i \in 1..Len(kept) : text'[l + Gap + i] = body[i]
  <2> DEFINE joined == text \o between \o body
  <2>0. /\ joined \in Seq(Characters) /\ Len(joined) = Len(text) + Len(between) + Len(body)
        /\ \A i \in 1..Len(text) : joined[i] = text[i]
        /\ \A i \in 1..Len(between) : joined[Len(text) + i] = between[i]
        /\ \A i \in 1..Len(body) : joined[Len(text) + Len(between) + i] = body[i]
    <3>1. text \in Seq(Characters) /\ between \in Seq(Characters) /\ body \in Seq(Characters)
      BY <1>0, <1>6, <1>9
    <3>2. joined \in Seq(Characters)
      BY <3>1, ThreeParts, Zenon
    <3>3. Len(joined) = Len(text) + Len(between) + Len(body)
      BY <3>1, ThreeParts, SMT
    <3>4. \A i \in 1..Len(text) : joined[i] = text[i]
      BY <3>1, ThreeParts, SMT
    <3>5. \A i \in 1..Len(between) : joined[Len(text) + i] = between[i]
      BY <3>1, ThreeParts, SMT
    <3>6. \A i \in 1..Len(body) : joined[Len(text) + Len(between) + i] = body[i]
      BY <3>1, ThreeParts, SMT
    <3> QED
      BY <3>2, <3>3, <3>4, <3>5, <3>6, Zenon
  <2>1. text' = joined
    BY <1>3
  <2> HIDE DEF joined
  <2> QED
    <3>1. Len(text') = l + Gap + Len(kept)
      BY <1>6, <1>9, <2>0, <2>1
    <3>2. \A i \in 1..Gap : text'[l + i] = between[i]
      BY <1>6, <2>0, <2>1
    <3>3. \A i \in 1..Len(kept) : text'[l + Gap + i] = body[i]
      BY <1>6, <1>9, <2>0, <2>1
    <3> QED
      BY <2>0, <2>1, <3>1, <3>2, <3>3, Zenon
<1>12. /\ origin' \in Seq([page : Nat, at : Nat]) /\ Len(origin') = l + Gap + Len(kept)
       /\ \A i \in 1..l : origin'[i] = origin[i]
       /\ \A i \in 1..Gap : origin'[l + i] = marks[i]
       /\ \A i \in 1..Len(kept) : origin'[l + Gap + i] = places[i]
  <2> DEFINE joined == origin \o marks \o places
  <2>0. /\ joined \in Seq([page : Nat, at : Nat]) /\ Len(joined) = Len(origin) + Len(marks) + Len(places)
        /\ \A i \in 1..Len(origin) : joined[i] = origin[i]
        /\ \A i \in 1..Len(marks) : joined[Len(origin) + i] = marks[i]
        /\ \A i \in 1..Len(places) : joined[Len(origin) + Len(marks) + i] = places[i]
    <3>1. origin \in Seq([page : Nat, at : Nat]) /\ marks \in Seq([page : Nat, at : Nat]) /\ places \in Seq([page : Nat, at : Nat])
      BY <1>0, <1>8, <1>10
    <3>2. joined \in Seq([page : Nat, at : Nat])
      BY <3>1, ThreeParts, Zenon
    <3>3. Len(joined) = Len(origin) + Len(marks) + Len(places)
      BY <3>1, ThreeParts, SMT
    <3>4. \A i \in 1..Len(origin) : joined[i] = origin[i]
      BY <3>1, ThreeParts, SMT
    <3>5. \A i \in 1..Len(marks) : joined[Len(origin) + i] = marks[i]
      BY <3>1, ThreeParts, SMT
    <3>6. \A i \in 1..Len(places) : joined[Len(origin) + Len(marks) + i] = places[i]
      BY <3>1, ThreeParts, SMT
    <3> QED
      BY <3>2, <3>3, <3>4, <3>5, <3>6, Zenon
  <2>1. origin' = joined
    BY <1>3
  <2> HIDE DEF joined
  <2> QED
    <3>1. Len(origin') = l + Gap + Len(kept)
      BY <1>0, <1>8, <1>10, <2>0, <2>1
    <3>2. /\ \A i \in 1..l : origin'[i] = origin[i]
          /\ \A i \in 1..Gap : origin'[l + i] = marks[i]
      BY <1>0, <1>8, <2>0, <2>1
    <3>3. \A i \in 1..Len(kept) : origin'[l + Gap + i] = places[i]
      BY <1>0, <1>8, <1>10, <2>0, <2>1
    <3> QED
      BY <2>0, <2>1, <3>1, <3>2, <3>3, Zenon
<1>13. /\ offset' = l + Gap + Len(kept)
       /\ sections' = sections \cup {[page |-> page, from |-> l + Gap, to |-> l + Gap + Len(kept)]}
  BY <1>0, <1>3
<1>14. \A i \in 1..Gap : text'[l + i] \in Blank /\ origin'[l + i] = NoOrigin
  BY <1>6, <1>8, <1>11, <1>12
<1>15. \A i \in 1..Len(kept) : /\ text'[l + Gap + i] = Normalized(pages[page][kept[i]])
                               /\ origin'[l + Gap + i] = [page |-> page, at |-> kept[i]]
  <2> SUFFICES ASSUME NEW i \in 1..Len(kept)
               PROVE  /\ text'[l + Gap + i] = Normalized(pages[page][kept[i]])
                      /\ origin'[l + Gap + i] = [page |-> page, at |-> kept[i]]
    OBVIOUS
  <2>1. text'[l + Gap + i] = body[i] /\ origin'[l + Gap + i] = places[i]
    BY <1>11, <1>12, Zenon
  <2>2. body[i] = Normalized(pages[page][kept[i]]) /\ places[i] = [page |-> page, at |-> kept[i]]
    BY <1>9, <1>10, Zenon DEF string
  <2> QED
    BY <2>1, <2>2, Zenon
<1> QED
  BY <1>4, <1>11, <1>12, <1>13, <1>14, <1>15, Zenon DEF Appended

\* A turn that appends a page keeps what is known of the joined text.
LEMMA JoinAppended ==
    ASSUME ChunkingTypeOK, JoinInv, NEW kept, NEW gap \in {0, 2}, Appended(kept, gap),
           page \in 1..Len(pages), page' = page + 1, pages' = pages,
           gap = 0 <=> text = <<>>, kept # <<>>,
           kept = InOrder(normalize_text(pages[page]))
    PROVE  JoinInv'
<1> DEFINE l == Len(text)
           n == Len(kept)
           string == pages[page]
<1>1. /\ l \in Nat /\ page \in Nat \ {0} /\ string \in Seq(Characters) /\ Len(origin) = l
      /\ text \in Seq(Characters) /\ origin \in Seq([page : Nat, at : Nat])
      /\ sections \in SUBSET [page : Nat, from : Nat, to : Nat] /\ Len(string) \in Nat
      /\ pages \in Seq(Seq(Characters))
  BY DEF ChunkingTypeOK
<1>2. /\ kept \in Seq(1..Len(string))
      /\ \A a, b \in DOMAIN kept : a < b => kept[a] < kept[b]
      /\ \A i \in Inked(string) : \E a \in DOMAIN kept : kept[a] = i
      /\ string[kept[1]] \notin Blank /\ string[kept[Len(kept)]] \notin Blank
  <2>1. pages[page] \in Seq(Characters)
    BY <1>1
  <2> HIDE DEF string
  <2>2. string \in Seq(Characters) /\ kept = InOrder(normalize_text(string))
    BY <2>1 DEF string
  <2> QED
    BY <2>2, KeptInOrder
<1>3. n \in Nat \ {0} /\ DOMAIN kept = 1..n /\ \A a \in 1..n : kept[a] \in 1..Len(string)
  <2>1. kept \in [1..Len(kept) -> 1..Len(string)] /\ Len(kept) \in Nat \ {0}
    BY <1>2, LenProperties, EmptySeq
  <2> QED
    BY <2>1
<1> HIDE DEF string
<1>4. Len(text') = l + gap + n /\ Len(origin') = l + gap + n
  BY DEF Appended
<1>0. l \in Nat /\ n \in Nat \ {0} /\ gap \in Nat /\ Len(text') \in Nat /\ 1..l \subseteq 1..Len(text')
  BY <1>1, <1>3, <1>4
<1>5. \A i \in 1..l : text'[i] = text[i] /\ origin'[i] = origin[i]
  BY DEF Appended
<1>6. \A i \in 1..gap : text'[l + i] \in Blank /\ origin'[l + i] = NoOrigin
  BY DEF Appended
<1>7. \A i \in 1..n : /\ text'[l + gap + i] = Normalized(string[kept[i]])
                      /\ origin'[l + gap + i] = [page |-> page, at |-> kept[i]]
  BY DEF Appended, string
<1>8. sections' = sections \cup {[page |-> page, from |-> l + gap, to |-> l + gap + n]}
  BY DEF Appended
<1> DEFINE new == [page |-> page, from |-> l + gap, to |-> l + gap + n]
\* The page's first and last kept characters are as they were.
<1>21. text'[l + gap + 1] = string[kept[1]] /\ text'[l + gap + n] = string[kept[n]]
  <2>1. 1 \in 1..n /\ n \in 1..n
    BY <1>3
  <2> HIDE DEF n
  <2>2. string[kept[1]] \in Characters /\ string[kept[n]] \in Characters
    <3>1. kept[1] \in 1..Len(string) /\ kept[n] \in 1..Len(string)
      BY <1>3, <2>1
    <3>2. \A i \in 1..Len(string) : string[i] \in Characters
      BY <1>1
    <3> QED
      BY <3>1, <3>2
  <2>3. /\ Normalized(string[kept[1]]) = string[kept[1]]
        /\ Normalized(string[kept[n]]) = string[kept[n]]
    BY <1>2, <2>2, NormalizedCharacter DEF n
  <2> QED
    BY <1>7, <2>1, <2>3
\* Where the characters of the new text come from.
<1>9. ASSUME NEW i \in 1..Len(text')
      PROVE  \/ i \in 1..l /\ text'[i] = text[i] /\ origin'[i] = origin[i]
             \/ i > l /\ text'[i] \in Blank /\ origin'[i] = NoOrigin
             \/ \E a \in 1..n : /\ i = l + gap + a /\ text'[i] = Normalized(string[kept[a]])
                                /\ origin'[i] = [page |-> page, at |-> kept[a]]
  <2>1. CASE i <= l
    <3>1. i \in 1..l
      BY <1>0, <2>1
    <3> QED
      BY <1>5, <3>1, Zenon
  <2>2. CASE i > l /\ i <= l + gap
    <3>1. (i - l) \in 1..gap /\ l + (i - l) = i
      BY <1>1, <2>2
    <3> QED
      BY <1>6, <2>2, <3>1
  <2>3. CASE i > l + gap
    <3>1. (i - l - gap) \in 1..n /\ l + gap + (i - l - gap) = i
      BY <1>1, <1>3, <1>4, <2>3
    <3> QED
      <4> DEFINE a == i - l - gap
      <4>1. /\ text'[l + gap + a] = Normalized(string[kept[a]])
            /\ origin'[l + gap + a] = [page |-> page, at |-> kept[a]]
        BY <1>7, <3>1
      <4>2. i = l + gap + a
        BY <3>1
      <4> HIDE DEF a
      <4> QED
        BY <3>1, <4>1, <4>2 DEF a
  <2>4. i <= l \/ (i > l /\ i <= l + gap) \/ i > l + gap
    BY <1>0
  <2> QED
    BY <2>1, <2>2, <2>3, <2>4, Zenon
<1>10. [page |-> page, at |-> 0].page = page /\ NoOrigin.page = 0
  BY DEF NoOrigin
<1>11. ASSUME NEW a \in 1..n
       PROVE  [page |-> page, at |-> kept[a]] # NoOrigin
  BY <1>1 DEF NoOrigin
<1>12. FromPages'
  <2> SUFFICES ASSUME NEW i \in 1..Len(text')
               PROVE  \/ origin'[i] = NoOrigin /\ text'[i] \in Blank
                      \/ /\ origin'[i].page \in 1..(page' - 1)
                         /\ origin'[i].at \in 1..Len(pages[origin'[i].page])
                         /\ text'[i] = Normalized(pages[origin'[i].page][origin'[i].at])
    BY DEF FromPages, Normalized, NoOrigin, Blank, Space, Newline, Return, Tab, Nul
  <2>1. CASE i \in 1..l /\ text'[i] = text[i] /\ origin'[i] = origin[i]
    <3>1. \/ origin[i] = NoOrigin /\ text[i] \in Blank
          \/ /\ origin[i].page \in 1..(page - 1)
             /\ origin[i].at \in 1..Len(pages[origin[i].page])
             /\ text[i] = Normalized(pages[origin[i].page][origin[i].at])
      BY <2>1 DEF JoinInv, FromPages
    <3>2. 1..(page - 1) \subseteq 1..(page' - 1)
      BY <1>1
    <3> QED
      BY <2>1, <3>1, <3>2, Zenon
  <2>2. CASE \E a \in 1..n : /\ i = l + gap + a /\ text'[i] = Normalized(string[kept[a]])
                             /\ origin'[i] = [page |-> page, at |-> kept[a]]
    <3>1. PICK a \in 1..n : text'[i] = Normalized(string[kept[a]]) /\ origin'[i] = [page |-> page, at |-> kept[a]]
      BY <2>2
    <3>2. page \in 1..(page' - 1)
      BY <1>1
    <3>3. origin'[i].page = page /\ origin'[i].at = kept[a]
      BY <3>1
    <3> QED
      BY <1>3, <3>1, <3>2, <3>3, Zenon DEF string
  <2> QED
    BY <1>9, <2>1, <2>2
<1>13. InSourceOrder'
  <2> SUFFICES ASSUME NEW i \in 1..Len(text'), NEW j \in 1..Len(text'), i < j,
                      origin'[i] # NoOrigin, origin'[j] # NoOrigin
               PROVE  \/ origin'[i].page < origin'[j].page
                      \/ origin'[i].page = origin'[j].page /\ origin'[i].at < origin'[j].at
    BY DEF InSourceOrder
  <2>1. CASE j \in 1..l /\ origin'[j] = origin[j]
    <3>1. i \in 1..l /\ origin'[i] = origin[i]
      <4>1. i \in 1..l
        BY <1>0, <2>1
      <4> QED
        BY <1>5, <4>1, Zenon
    <3> QED
      BY <2>1, <3>1 DEF JoinInv, InSourceOrder
  <2>2. CASE \E b \in 1..n : j = l + gap + b /\ origin'[j] = [page |-> page, at |-> kept[b]]
    <3>1. PICK b \in 1..n : j = l + gap + b /\ origin'[j] = [page |-> page, at |-> kept[b]]
      BY <2>2
    <3>2. CASE i \in 1..l /\ origin'[i] = origin[i]
      <4>1. origin[i].page \in 1..(page - 1)
        BY <3>2 DEF JoinInv, FromPages
      <4>2. origin'[i].page \in 1..(page - 1) /\ origin'[j].page = page
        BY <3>1, <3>2, <4>1
      <4>3. page \in Nat
        BY <1>1
      <4>4. \A q \in Nat : \A z \in 1..(q - 1) : z < q
        OBVIOUS
      <4> QED
        BY <4>2, <4>3, <4>4, Zenon
    <3>3. CASE \E a \in 1..n : i = l + gap + a /\ origin'[i] = [page |-> page, at |-> kept[a]]
      <4>1. PICK a \in 1..n : i = l + gap + a /\ origin'[i] = [page |-> page, at |-> kept[a]]
        BY <3>3
      <4>2. a < b
        BY <1>1, <1>3, <3>1, <4>1
      <4>3. kept[a] < kept[b]
        BY <1>2, <1>3, <4>2
      <4> QED
        BY <3>1, <4>1, <4>3
    <3> QED
      BY <1>9, <3>2, <3>3
  <2> QED
    BY <1>9, <2>1, <2>2
<1>14. InkJoined'
  <2> SUFFICES ASSUME NEW p \in 1..(page' - 1), NEW k \in Inked(pages[p])
               PROVE  \E i \in 1..Len(text') : origin'[i] = [page |-> p, at |-> k]
    BY Zenon DEF InkJoined, Inked, Blank, Space, Newline, Return, Tab, Nul
  <2>1. CASE p = page
    <3>1. PICK a \in 1..n : kept[a] = k
      BY <1>2, <1>3, <2>1 DEF string
    <3>2. l + gap + a \in 1..Len(text') /\ origin'[l + gap + a] = [page |-> p, at |-> k]
      <4>1. Len(text') = l + gap + n
        BY <1>4
      <4>2. \A b, c, d \in Nat : \A e \in 1..d : b + c + e \in 1..(b + c + d)
        OBVIOUS
      <4>3. l + gap + a \in 1..Len(text')
        BY <1>0, <4>1, <4>2, Zenon
      <4> QED
        BY <1>1, <1>3, <1>4, <1>7, <2>1, <3>1, <4>3
    <3> QED
      BY <3>2, Zenon
  <2>2. CASE p # page
    <3>1. p \in 1..(page - 1)
      BY <1>1, <2>2
    <3>2. PICK i \in 1..l : origin[i] = [page |-> p, at |-> k]
      BY <3>1 DEF JoinInv, InkJoined
    <3>3. i \in 1..Len(text') /\ origin'[i] = [page |-> p, at |-> k]
      BY <1>0, <1>5, <3>2, Zenon
    <3> QED
      BY <3>3, Zenon
  <2> QED
    BY <2>1, <2>2
<1>15. SectionsFit'
  <2> SUFFICES ASSUME NEW s \in sections'
               PROVE  /\ s.page \in 1..(page' - 1) /\ s.from < s.to /\ s.to <= Len(text')
                      /\ \A i \in (s.from + 1)..s.to : origin'[i].page = s.page
                      /\ text'[s.from + 1] \notin Blank /\ text'[s.to] \notin Blank
    BY Zenon DEF SectionsFit, Blank, Space, Newline, Return, Tab, Nul
  <2>1. CASE s \in sections
    <3>1. /\ s.page \in 1..(page - 1) /\ s.from < s.to /\ s.to <= l
          /\ \A i \in (s.from + 1)..s.to : origin[i].page = s.page
          /\ text[s.from + 1] \notin Blank /\ text[s.to] \notin Blank
          /\ s.from \in Nat /\ s.to \in Nat
      BY <1>1, <2>1 DEF JoinInv, SectionsFit
    <3>2. s.from + 1 \in 1..l /\ s.to \in 1..l /\ \A i \in (s.from + 1)..s.to : i \in 1..l
      <4>1. l \in Nat /\ s.from \in Nat /\ s.to \in Nat /\ s.from < s.to /\ s.to <= l
        BY <1>0, <3>1
      <4>2. \A b, c, d \in Nat : b < c /\ c <= d =>
               b + 1 \in 1..d /\ c \in 1..d /\ \A i \in (b + 1)..c : i \in 1..d
        OBVIOUS
      <4> QED
        BY <4>1, <4>2, Zenon
    <3>3. text'[s.from + 1] \notin Blank /\ text'[s.to] \notin Blank
      BY <1>5, <3>1, <3>2
    <3>4. \A i \in (s.from + 1)..s.to : origin'[i].page = s.page
      BY <1>5, <3>1, <3>2
    <3>5. s.page \in 1..(page' - 1) /\ s.to <= Len(text')
      <4>1. page \in Nat \ {0}
        BY <1>1
      <4>2. s.page \in 1..(page' - 1)
        BY <3>1, <4>1
      <4>3. s.to <= Len(text')
        BY <1>0, <1>4, <3>1
      <4> QED
        BY <4>2, <4>3
    <3> QED
      BY <3>1, <3>3, <3>4, <3>5
  <2>2. CASE s = new
    <3>1. s.page = page /\ s.from = l + gap /\ s.to = l + gap + n
      BY <2>2
    <3>2. s.page \in 1..(page' - 1) /\ s.from < s.to /\ s.to <= Len(text')
      BY <1>1, <1>3, <1>4, <3>1
    <3>3. \A i \in (s.from + 1)..s.to : origin'[i].page = s.page
      <4> SUFFICES ASSUME NEW i \in (l + gap + 1)..(l + gap + n) PROVE origin'[i].page = page
        BY <3>1
      <4>1. (i - l - gap) \in 1..n /\ l + gap + (i - l - gap) = i
        BY <1>1, <1>3
      <4>2. origin'[i] = [page |-> page, at |-> kept[i - l - gap]]
        BY <1>7, <4>1
      <4> QED
        BY <4>2
    <3> QED
      BY <1>2, <1>21, <3>1, <3>2, <3>3
  <2> QED
    BY <1>8, <2>1, <2>2
<1>16. SectionsCover'
  <2> SUFFICES ASSUME NEW i \in 1..Len(text'), origin'[i] # NoOrigin
               PROVE  \E s \in sections' : s.page = origin'[i].page /\ s.from < i /\ i <= s.to
    BY DEF SectionsCover
  <2>1. CASE i \in 1..l /\ origin'[i] = origin[i]
    <3>1. PICK s \in sections : s.page = origin[i].page /\ s.from < i /\ i <= s.to
      BY <2>1 DEF JoinInv, SectionsCover
    <3> QED
      BY <1>8, <2>1, <3>1
  <2>2. CASE \E a \in 1..n : i = l + gap + a /\ origin'[i] = [page |-> page, at |-> kept[a]]
    <3>1. PICK a \in 1..n : i = l + gap + a /\ origin'[i] = [page |-> page, at |-> kept[a]]
      BY <2>2
    <3>2. new.page = origin'[i].page /\ new.from < i /\ i <= new.to /\ new \in sections'
      BY <1>1, <1>3, <1>8, <3>1
    <3> QED
      BY <3>2, Zenon
  <2> QED
    BY <1>9, <2>1, <2>2
<1>17. EndsInked'
  <2>1. text'[Len(text')] = string[kept[n]]
    BY <1>4, <1>21
  <2>2. text'[1] \notin Blank
    <3>1. CASE text = <<>>
      <4>1. l = 0 /\ gap = 0 /\ 1 \in 1..n /\ l + gap + 1 = 1
        BY <1>3, <3>1
      <4> QED
        BY <1>2, <1>21, <4>1
    <3>2. CASE text # <<>>
      <4>1. 1 \in 1..l
        BY <1>1, <3>2, EmptySeq
      <4> QED
        <5>1. text[1] \notin Blank /\ text'[1] = text[1]
          BY <1>5, <3>2, <4>1 DEF JoinInv, EndsInked
        <5> QED
          BY <5>1
    <3> QED
      BY <3>1, <3>2
  <2> QED
    BY <1>2, <2>1, <2>2, Zenon DEF EndsInked, Blank, Space, Newline, Return, Tab, Nul
<1> QED
  BY <1>12, <1>13, <1>14, <1>15, <1>16, <1>17 DEF JoinInv

\* A page that is empty once normalized adds nothing and has nothing to keep.
LEMMA JoinNothing ==
    ASSUME ChunkingTypeOK, JoinInv, page \in 1..Len(pages), page' = page + 1, pages' = pages,
           InOrder(normalize_text(pages[page])) = <<>>,
           UNCHANGED <<text, offset, sections, origin>>
    PROVE  JoinInv'
<1>1. page \in Nat \ {0} /\ page' \in Nat /\ pages[page] \in Seq(Characters)
  BY DEF ChunkingTypeOK
<1>2. 1..(page - 1) \subseteq 1..(page' - 1)
  BY <1>1
<1>3. FromPages'
  BY <1>2, Zenon DEF JoinInv, FromPages, Blank, Space, Newline, Return, Tab, Nul, NoOrigin
<1>4. InSourceOrder'
  BY Zenon DEF JoinInv, InSourceOrder, NoOrigin
<1>5. InkJoined'
  <2> SUFFICES ASSUME NEW p \in 1..(page' - 1), NEW k \in Inked(pages[p])
               PROVE  \E i \in 1..Len(text) : origin[i] = [page |-> p, at |-> k]
    BY Zenon DEF InkJoined, Inked, Blank, Space, Newline, Return, Tab, Nul
  <2>1. CASE p = page
    <3> DEFINE kept == InOrder(normalize_text(pages[page]))
    <3>1. \A i \in Inked(pages[page]) : \E a \in DOMAIN kept : kept[a] = i
      <4> HIDE DEF kept
      <4>1. kept = InOrder(normalize_text(pages[page]))
        BY DEF kept
      <4> QED
        BY <1>1, <4>1, KeptInOrder
    <3>2. DOMAIN kept = {}
      OBVIOUS
    <3> HIDE DEF kept
    <3> QED
      BY <2>1, <3>1, <3>2
  <2>2. CASE p # page
    <3>1. p \in 1..(page - 1)
      BY <1>1, <2>2
    <3> QED
      BY <3>1 DEF JoinInv, InkJoined
  <2> QED
    BY <2>1, <2>2
<1>6. SectionsFit'
  BY <1>2, Zenon DEF JoinInv, SectionsFit, Blank, Space, Newline, Return, Tab, Nul
<1>7. SectionsCover'
  BY Zenon DEF JoinInv, SectionsCover, NoOrigin
<1>8. EndsInked'
  BY Zenon DEF JoinInv, EndsInked, Blank, Space, Newline, Return, Tab, Nul
<1> QED
  BY <1>3, <1>4, <1>5, <1>6, <1>7, <1>8 DEF JoinInv

\* A turn of the loop of normalize_extracted_document keeps the invariant.
LEMMA NormalizeStep ==
    ASSUME ChunkingInv, normalize_extracted_document
    PROVE  ChunkingInv'
<1> DEFINE kept == InOrder(normalize_text(pages[page]))
<1>1. /\ stage = "normalize" /\ page \in 1..Len(pages) /\ page \in Nat /\ Len(pages) \in Nat
      /\ page' = page + 1 /\ drafts = <<>> /\ cursor = 0
      /\ UNCHANGED <<stage, pages, cursor, drafts>>
  BY DEF ChunkingInv, ChunkingTypeOK, WindowInv, normalize_extracted_document
<1>2. ChunkingTypeOK' /\ JoinInv'
  <2>1. CASE kept = <<>>
    <3>1. UNCHANGED <<text, offset, sections, origin>>
      BY <2>1, Zenon DEF normalize_extracted_document
    <3>2. JoinInv'
      BY <1>1, <2>1, <3>1, JoinNothing DEF ChunkingInv
    <3>3. page' \in 1..(Len(pages') + 1)
      BY <1>1
    <3> QED
      BY <1>1, <3>1, <3>2, <3>3 DEF ChunkingInv, ChunkingTypeOK
  <2>2. CASE kept # <<>>
    <3> HIDE DEF kept
    <3>1. kept = InOrder(normalize_text(pages[page]))
      BY DEF kept
    <3>2. Appended(kept, Gap) /\ Gap \in {0, 2} /\ (Gap = 0 <=> text = <<>>)
      BY <2>2, <3>1, AppendStep DEF ChunkingInv
    <3>3. JoinInv'
      BY <1>1, <2>2, <3>1, <3>2, JoinAppended DEF ChunkingInv
    <3>4. /\ page' \in 1..(Len(pages') + 1) /\ Len(text) \in Nat /\ Len(kept) \in Nat
          /\ sections \in SUBSET [page : Nat, from : Nat, to : Nat]
      <4>1. pages[page] \in Seq(Characters)
        BY <1>1 DEF ChunkingInv, ChunkingTypeOK
      <4>2. kept \in Seq(1..Len(pages[page]))
        BY <3>1, <4>1, KeptInOrder
      <4> QED
        BY <1>1, <4>2, LenProperties DEF ChunkingInv, ChunkingTypeOK
    <3>5. sections' \in SUBSET [page : Nat, from : Nat, to : Nat]
      <4>1. sections' = sections \cup {[page |-> page, from |-> Len(text) + Gap,
                                        to |-> Len(text) + Gap + Len(kept)]}
        BY <3>2, Zenon DEF Appended
      <4>2. [page |-> page, from |-> Len(text) + Gap, to |-> Len(text) + Gap + Len(kept)]
               \in [page : Nat, from : Nat, to : Nat]
        BY <1>1, <3>2, <3>4
      <4> QED
        BY <3>4, <4>1, <4>2
    <3>6. /\ text' \in Seq(Characters) /\ offset' = Len(text')
          /\ origin' \in Seq([page : Nat, at : Nat]) /\ Len(origin') = Len(text')
      BY <3>2 DEF Appended
    <3> QED
      BY <1>1, <3>3, <3>4, <3>5, <3>6 DEF ChunkingInv, ChunkingTypeOK
  <2> QED
    BY <2>1, <2>2
<1>3. drafts' = <<>> /\ Len(drafts') = 0 /\ DOMAIN drafts' = {}
  BY <1>1
<1>4. DraftsFit' /\ ChunksCiteTheirPages'
  <2>1. DraftsFit'
    BY <1>3 DEF DraftsFit
  <2>2. ChunksCiteTheirPages'
    BY <1>3 DEF ChunksCiteTheirPages
  <2> QED
    BY <2>1, <2>2
<1>5. WindowInv'
  BY <1>1 DEF WindowInv
<1> QED
  BY <1>2, <1>4, <1>5 DEF ChunkingInv

\* JoinInv is about variables that chunk_text leaves alone.
LEMMA TextUnchanged ==
    ASSUME JoinInv, UNCHANGED <<pages, page, text, offset, sections, origin>>
    PROVE  JoinInv'
<1>1. FromPages'
  BY Zenon DEF JoinInv, FromPages, Blank, Space, Newline, Return, Tab, Nul, NoOrigin
<1>2. InSourceOrder'
  BY Zenon DEF JoinInv, InSourceOrder, NoOrigin
<1>3. InkJoined'
  BY Zenon DEF JoinInv, InkJoined, Inked, Blank, Space, Newline, Return, Tab, Nul
<1>4. SectionsFit'
  BY Zenon DEF JoinInv, SectionsFit, Blank, Space, Newline, Return, Tab, Nul
<1>5. SectionsCover'
  BY Zenon DEF JoinInv, SectionsCover, NoOrigin
<1>6. EndsInked'
  BY Zenon DEF JoinInv, EndsInked, Blank, Space, Newline, Return, Tab, Nul
<1> QED
  BY <1>1, <1>2, <1>3, <1>4, <1>5, <1>6 DEF JoinInv

\* DraftsFit and ChunksCiteTheirPages hold on while no draft is appended.
LEMMA DraftsUnchanged ==
    ASSUME DraftsFit, ChunksCiteTheirPages, UNCHANGED <<text, origin, drafts>>
    PROVE  DraftsFit' /\ ChunksCiteTheirPages'
<1>1. DraftsFit'
  BY Zenon DEF DraftsFit, IsBlank, Blank, Space, Newline, Return, Tab, Nul
<1>2. ChunksCiteTheirPages'
  BY Zenon DEF ChunksCiteTheirPages, IsBlank, Blank, Space, Newline, Return, Tab, Nul
<1> QED
  BY <1>1, <1>2

\* A character that is kept stays kept while text, origin and drafts stay.
LEMMA KeptUnchanged ==
    ASSUME UNCHANGED <<text, drafts>>, NEW i, Kept(i)
    PROVE  Kept(i)'
BY Zenon DEF Kept, Covered, BehindBlanks, InShortPiece, IsBlank, Blank, Space, Newline, Return, Tab, Nul

\* Rejecting a document and entering chunk_text keep the invariant.
LEMMA BeginStep ==
    ASSUME ChunkingInv, begin_chunk_text
    PROVE  ChunkingInv'
<1>1. /\ UNCHANGED <<pages, page, text, offset, sections, origin, cursor, drafts>>
      /\ page = Len(pages) + 1 /\ cursor = 0 /\ drafts = <<>>
      /\ stage' \in {"rejected", "done", "chunk"}
      /\ stage' = "done" => Inked(text) = {}
      /\ stage' = "chunk" => Inked(text) # {}
  <2>1. page > Len(pages) /\ page \in 1..(Len(pages) + 1) /\ Len(pages) \in Nat /\ stage = "normalize"
    BY DEF ChunkingInv, ChunkingTypeOK, begin_chunk_text
  <2>2. page = Len(pages) + 1
    BY <2>1
  <2>3. cursor = 0 /\ drafts = <<>>
    BY <2>1 DEF ChunkingInv, WindowInv
  <2>4. /\ UNCHANGED <<pages, page, text, offset, sections, origin, cursor, drafts>>
        /\ stage' \in {"rejected", "done", "chunk"}
        /\ stage' = "done" => Inked(text) = {}
        /\ stage' = "chunk" => Inked(text) # {}
    <3> DEFINE ink == Inked(text)
               stripped == IF ink = {} THEN 0 ELSE Max(ink) - Min(ink) + 1
    <3>1. stage' = IF stripped < MinimumChars THEN "rejected"
                   ELSE IF ink = {} THEN "done" ELSE "chunk"
      BY DEF begin_chunk_text
    <3> HIDE DEF stripped
    <3> QED
      BY <3>1 DEF begin_chunk_text
  <2> QED
    BY <2>2, <2>3, <2>4
<1>2. ChunkingTypeOK'
  BY <1>1 DEF ChunkingInv, ChunkingTypeOK
<1>3. JoinInv' /\ DraftsFit' /\ ChunksCiteTheirPages'
  BY <1>1, TextUnchanged, DraftsUnchanged DEF ChunkingInv
<1>4. text \in Seq(Characters) /\ Len(text) \in Nat /\ DOMAIN text = 1..Len(text)
  BY DEF ChunkingInv, ChunkingTypeOK
<1>5. Inked(text) = {} => Len(text) = 0
  <2> SUFFICES ASSUME Len(text) # 0 PROVE Inked(text) # {}
    BY <1>4
  <2>1. text # <<>> /\ 1 \in DOMAIN text
    BY <1>4
  <2>2. text[1] \notin Blank
    BY <2>1 DEF ChunkingInv, JoinInv, EndsInked
  <2> QED
    BY <2>1, <2>2 DEF Inked
<1>6. Inked(text) # {} => Len(text) > 0
  BY <1>4 DEF Inked
<1>7. WindowInv'
  <2>1. stage' # "normalize" /\ page' = Len(pages') + 1
    BY <1>1
  <2>2. stage' = "chunk" => cursor' < Len(text') /\ 0..(cursor' - 1) = {} /\ 1..Len(drafts') = {}
    BY <1>1, <1>4, <1>6
  <2>3. stage' = "done" => 0..(Len(text') - 1) = {}
    BY <1>1, <1>5
  <2> QED
    BY <2>1, <2>2, <2>3, Zenon DEF WindowInv
<1> QED
  BY <1>2, <1>3, <1>7 DEF ChunkingInv

\* The half of a chunk size that _window_end rounds down to.
LEMMA HalfFacts ==
    ASSUME NEW x \in Nat
    PROVE  x \div 2 \in Nat /\ x \div 2 <= x
OBVIOUS

\* The window is not empty, fits the chunk size, and is at least half a chunk unless it ends the text.
LEMMA WindowFacts ==
    ASSUME ChunkingTypeOK, cursor < Len(text)
    PROVE  /\ RawEnd \in (cursor + 1)..Len(text) /\ RawEnd <= cursor + ChunkSize
           /\ RawEnd = Len(text) \/ RawEnd = cursor + ChunkSize
           /\ preferred_end(cursor, RawEnd) \in (cursor + 1)..RawEnd
           /\ RawEnd = Len(text) => preferred_end(cursor, RawEnd) = Len(text)
           /\ \/ preferred_end(cursor, RawEnd) = Len(text)
              \/ preferred_end(cursor, RawEnd) >= cursor + (ChunkSize \div 2)
<1> DEFINE raw == RawEnd
           half == (raw - cursor) \div 2
           floor == cursor + (IF half > 1 THEN half ELSE 1)
           boundaries == {i \in floor..(raw - 1) : text[i + 1] \in {Space, Newline}}
           p == preferred_end(cursor, raw)
<1>1. cursor \in Nat /\ Len(text) \in Nat /\ ChunkSize \in Nat \ {0}
  BY ChunkingAssumption DEF ChunkingTypeOK
<1>2. /\ raw \in (cursor + 1)..Len(text) /\ raw <= cursor + ChunkSize
      /\ raw = Len(text) \/ raw = cursor + ChunkSize
  BY <1>1 DEF RawEnd
<1>3. p = IF raw >= Len(text) \/ boundaries = {} THEN raw ELSE Max(boundaries)
  BY DEF preferred_end
<1> HIDE DEF raw, p
<1>4. raw \in Nat /\ half \in Nat /\ half <= raw - cursor
  <2>1. raw - cursor \in Nat
    BY <1>1, <1>2
  <2> QED
    BY <1>1, <1>2, <2>1, HalfFacts
<1>5. ChunkSize \div 2 \in Nat /\ ChunkSize \div 2 <= ChunkSize
  BY <1>1, HalfFacts
<1>6. CASE raw >= Len(text)
  BY <1>1, <1>2, <1>3, <1>6 DEF raw, p
<1>7. CASE raw < Len(text) /\ boundaries = {}
  <2>1. p = raw /\ raw = cursor + ChunkSize
    BY <1>1, <1>2, <1>3, <1>7
  <2>2. p >= cursor + (ChunkSize \div 2) /\ p \in (cursor + 1)..raw /\ raw # Len(text)
    BY <1>1, <1>2, <1>5, <1>7, <2>1
  <2> QED
    BY <1>2, <2>2 DEF raw, p
<1>8. CASE raw < Len(text) /\ boundaries # {}
  <2>1. raw = cursor + ChunkSize /\ raw # Len(text)
    BY <1>1, <1>2, <1>8
  <2>2. half = ChunkSize \div 2
    <3>1. raw - cursor = ChunkSize
      BY <1>1, <2>1
    <3> QED
      BY <3>1
  <2> HIDE DEF half
  <2>3. floor \in Nat /\ floor >= cursor + 1 /\ floor >= cursor + half
    BY <1>1, <1>4
  <2>4. p = Max(boundaries)
    BY <1>1, <1>3, <1>4, <1>8
  <2> HIDE DEF floor
  <2>5. boundaries \in SUBSET (0..raw)
    BY <1>4, <2>3
  <2>6. p \in boundaries
    BY <1>4, <1>8, <2>4, <2>5, MaxFacts
  <2>7. p \in floor..(raw - 1)
    BY <2>6
  <2>8. p >= cursor + (ChunkSize \div 2) /\ p \in (cursor + 1)..raw
    <3>1. half \in Nat
      BY <1>4
    <3>2. p >= cursor + half
      BY <1>1, <1>4, <2>3, <2>7, <3>1
    <3> QED
      BY <1>1, <1>4, <2>2, <2>3, <2>7, <3>2
  <2> QED
    BY <1>2, <2>1, <2>8 DEF raw, p
<1> QED
  BY <1>1, <1>4, <1>6, <1>7, <1>8

\* The next window starts behind the start of the chunk and not behind its end.
LEMMA NextCursorFacts ==
    ASSUME NEW start \in Nat, NEW end \in Nat, start < end
    PROVE  NextCursor(start, end) \in (start + 1)..end
<1> DEFINE back == IF end > Overlap + start THEN end - Overlap ELSE start + 1
           last == IF end < back + 80 THEN end ELSE back + 80
           spaces == {i \in back..(last - 1) : text[i + 1] = Space}
<1>1. Overlap \in Nat
  BY ChunkingAssumption
<1>2. back \in (start + 1)..end /\ back \in Nat
  BY <1>1
<1> HIDE DEF back
<1>3. last \in Nat /\ last <= end
  BY <1>2
<1> HIDE DEF last
<1>4. NextCursor(start, end) = IF Overlap > 0 /\ spaces # {} THEN Min(spaces) + 1 ELSE back
  BY DEF NextCursor, back, last
<1>5. CASE spaces # {}
  <2>1. spaces \in SUBSET Nat
    BY <1>2, <1>3
  <2>2. Min(spaces) \in spaces
    BY <1>5, <2>1, MinFacts
  <2>3. Min(spaces) \in back..(last - 1)
    BY <2>2
  <2>4. Min(spaces) + 1 \in (start + 1)..end
    BY <1>2, <1>3, <2>3
  <2> QED
    BY <1>2, <1>4, <2>4
<1> QED
  BY <1>2, <1>4, <1>5

\* A character that is not blank comes from the page of a section around it.
LEMMA InkHasSection ==
    ASSUME ChunkingTypeOK, JoinInv, NEW i \in 0..(Len(text) - 1), ~IsBlank(i)
    PROVE  \E s \in sections : /\ s.page = origin[i + 1].page /\ s.from <= i /\ i < s.to
                               /\ s.page \in Nat /\ s.from \in Nat /\ s.to \in Nat
<1>1. Len(text) \in Nat /\ i \in Nat /\ i + 1 \in 1..Len(text)
  BY DEF ChunkingTypeOK
<1>2. text[i + 1] \notin Blank
  BY DEF IsBlank
<1>3. origin[i + 1] # NoOrigin
  <2>1. origin[i + 1].page \in 1..(page - 1)
    BY <1>1, <1>2 DEF JoinInv, FromPages
  <2>2. NoOrigin.page = 0
    BY DEF NoOrigin
  <2> QED
    BY <2>1, <2>2
<1>4. PICK s \in sections : s.page = origin[i + 1].page /\ s.from < i + 1 /\ i + 1 <= s.to
  BY <1>1, <1>3 DEF JoinInv, SectionsCover
<1>5. s.page \in Nat /\ s.from \in Nat /\ s.to \in Nat
  BY DEF ChunkingTypeOK
<1>6. s.from <= i /\ i < s.to
  BY <1>1, <1>4, <1>5
<1> QED
  BY <1>4, <1>5, <1>6

\* A section that a range with no blank at its ends touches has a character in the range.
LEMMA TouchedSection ==
    ASSUME ChunkingTypeOK, JoinInv, NEW start \in Nat, NEW end \in Nat,
           start < end, end <= Len(text), ~IsBlank(start),
           NEW s \in sections, s.to > start, s.from < end
    PROVE  \E i \in start..(end - 1) : ~IsBlank(i) /\ origin[i + 1].page = s.page
<1>1. /\ s.page \in Nat /\ s.from \in Nat /\ s.to \in Nat
  BY DEF ChunkingTypeOK
<1>2. /\ \A i \in (s.from + 1)..s.to : origin[i].page = s.page
      /\ text[s.from + 1] \notin Blank /\ s.from < s.to
  BY DEF JoinInv, SectionsFit
<1>3. CASE s.from >= start
  <2>1. s.from \in start..(end - 1) /\ s.from + 1 \in (s.from + 1)..s.to
    BY <1>1, <1>2, <1>3
  <2>2. ~IsBlank(s.from) /\ origin[s.from + 1].page = s.page
    BY <1>2, <2>1 DEF IsBlank
  <2> QED
    BY <2>1, <2>2
<1>4. CASE s.from < start
  <2>1. start \in start..(end - 1) /\ start + 1 \in (s.from + 1)..s.to
    BY <1>1, <1>4
  <2>2. origin[start + 1].page = s.page
    BY <1>2, <2>1
  <2> QED
    BY <2>1, <2>2
<1> QED
  BY <1>1, <1>3, <1>4

\* The pages that take_window cites for a chunk with no blank at its ends are the first and the
\* last page the chunk has a character of.
LEMMA CitedPages ==
    ASSUME ChunkingTypeOK, JoinInv, NEW start \in Nat, NEW end \in Nat,
           start < end, end <= Len(text), ~IsBlank(start),
           NEW cited, cited = pages_for_range(start, end)
    PROVE  /\ cited.first \in Nat /\ cited.last \in Nat
           /\ \E i \in start..(end - 1) : ~IsBlank(i) /\ origin[i + 1].page = cited.first
           /\ \E i \in start..(end - 1) : ~IsBlank(i) /\ origin[i + 1].page = cited.last
           /\ \A i \in start..(end - 1) : ~IsBlank(i) => origin[i + 1].page \in cited.first..cited.last
<1> DEFINE hit == {t \in sections : t.to > start /\ t.from < end}
           touched == {s.page : s \in hit}
<1>1. Len(text) \in Nat /\ Len(pages) \in Nat
  BY DEF ChunkingTypeOK
<1>2. ASSUME NEW i \in start..(end - 1), ~IsBlank(i)
      PROVE  origin[i + 1].page \in touched
  <2>1. i \in 0..(Len(text) - 1)
    BY <1>1
  <2>2. PICK s \in sections : /\ s.page = origin[i + 1].page /\ s.from <= i /\ i < s.to
                              /\ s.page \in Nat /\ s.from \in Nat /\ s.to \in Nat
    BY <1>2, <2>1, InkHasSection
  <2>3. s.to > start /\ s.from < end
    BY <1>1, <2>2
  <2> QED
    BY <2>2, <2>3
<1>3. touched # {}
  <2>1. start \in start..(end - 1)
    OBVIOUS
  <2> QED
    BY <1>2, <2>1
<1>4. touched \in SUBSET (0..Len(pages))
  <2> SUFFICES ASSUME NEW s \in sections PROVE s.page \in 0..Len(pages)
    OBVIOUS
  <2>1. s.page \in 1..(page - 1) /\ page \in 1..(Len(pages) + 1)
    BY DEF JoinInv, SectionsFit, ChunkingTypeOK
  <2> QED
    BY <1>1, <2>1
<1>5. ASSUME NEW p \in touched
      PROVE  \E i \in start..(end - 1) : ~IsBlank(i) /\ origin[i + 1].page = p
  <2>1. PICK s \in sections : s.to > start /\ s.from < end /\ s.page = p
    OBVIOUS
  <2> QED
    BY <2>1, TouchedSection
<1>6. cited.first = Min(touched) /\ cited.last = Max(touched)
  BY <1>3 DEF pages_for_range
<1> HIDE DEF touched
<1>7. touched \in SUBSET Nat
  BY <1>1, <1>4
<1>8. Min(touched) \in touched /\ \A m \in touched : Min(touched) <= m
  BY <1>3, <1>7, MinFacts
<1>9. Max(touched) \in touched /\ \A m \in touched : m <= Max(touched)
  BY <1>1, <1>3, <1>4, MaxFacts
<1>10. cited.first \in Nat /\ cited.last \in Nat
  BY <1>6, <1>7, <1>8, <1>9
<1>11. \A i \in start..(end - 1) : ~IsBlank(i) => origin[i + 1].page \in cited.first..cited.last
  <2> SUFFICES ASSUME NEW i \in start..(end - 1), ~IsBlank(i)
               PROVE  origin[i + 1].page \in cited.first..cited.last
    OBVIOUS
  <2>1. origin[i + 1].page \in touched
    BY <1>2
  <2>2. origin[i + 1].page \in Nat
    BY <1>7, <2>1
  <2> QED
    BY <1>6, <1>8, <1>9, <1>10, <2>1, <2>2
<1> QED
  BY <1>5, <1>6, <1>8, <1>9, <1>10, <1>11

\* What a draft consists of.
LEMMA DraftTypes ==
    ASSUME ChunkingTypeOK, NEW k \in 1..Len(drafts)
    PROVE  drafts[k].start \in Nat /\ drafts[k].end \in Nat
<1>1. drafts \in Seq([start : Nat, end : Nat, page_start : Nat, page_end : Nat])
  BY DEF ChunkingTypeOK
<1>2. drafts[k] \in [start : Nat, end : Nat, page_start : Nat, page_end : Nat]
  BY <1>1, ElementOfSeq, Zenon
<1> QED
  BY <1>2

\* Passing over a blank window keeps the invariant.
LEMMA SkipStep ==
    ASSUME ChunkingInv, skip_blank_window
    PROVE  ChunkingInv'
<1> DEFINE p == preferred_end(cursor, RawEnd)
           half == ChunkSize \div 2
<1>1. /\ stage = "chunk" /\ cursor < Len(text) /\ WindowInk = {} /\ cursor' = RawEnd
      /\ UNCHANGED <<stage, pages, page, text, offset, sections, origin, drafts>>
  BY DEF skip_blank_window
<1>2. ChunkingTypeOK /\ JoinInv /\ DraftsFit /\ WindowInv /\ ChunksCiteTheirPages
  BY DEF ChunkingInv
<1>3. /\ cursor \in Nat /\ Len(text) \in Nat /\ ChunkSize \in Nat \ {0} /\ half \in Nat /\ half <= ChunkSize
  BY <1>2, ChunkingAssumption, HalfFacts DEF ChunkingTypeOK
<1>4. /\ RawEnd \in (cursor + 1)..Len(text) /\ RawEnd <= cursor + ChunkSize
      /\ RawEnd = Len(text) \/ RawEnd = cursor + ChunkSize
      /\ p \in (cursor + 1)..RawEnd
      /\ RawEnd = Len(text) => p = Len(text)
      /\ p = Len(text) \/ p >= cursor + half
  BY <1>1, <1>2, WindowFacts
<1> HIDE DEF p, half
<1>5. \A i \in cursor..(p - 1) : IsBlank(i)
  BY <1>1 DEF WindowInk, p
<1>6. p # Len(text)
  <2> SUFFICES ASSUME p = Len(text) PROVE FALSE
    OBVIOUS
  <2>1. text # <<>> /\ Len(text) - 1 \in cursor..(p - 1) /\ (Len(text) - 1) + 1 = Len(text)
    BY <1>1, <1>2, <1>3 DEF ChunkingTypeOK
  <2>2. text[Len(text)] \notin Blank
    BY <1>2, <2>1 DEF JoinInv, EndsInked
  <2> QED
    BY <1>5, <2>1, <2>2 DEF IsBlank
<1>7. RawEnd = cursor + ChunkSize /\ RawEnd < Len(text) /\ p >= cursor + half /\ RawEnd \in Nat
  BY <1>3, <1>4, <1>6
<1>8. ASSUME NEW i \in 0..(RawEnd - 1) PROVE Kept(i)
  <2>1. CASE i < cursor
    <3>1. i \in 0..(cursor - 1)
      BY <1>3, <2>1
    <3> QED
      BY <1>1, <1>2, <3>1 DEF WindowInv
  <2>2. CASE i >= cursor
    <3>1. cursor \in 0..i /\ i < cursor + ChunkSize /\ cursor + half <= Len(text)
      BY <1>3, <1>4, <1>7, <2>2
    <3>2. \A j \in cursor..(cursor + half - 1) : j \in cursor..(p - 1)
      BY <1>3, <1>4, <1>7
    <3> QED
      BY <1>5, <3>1, <3>2 DEF Kept, BehindBlanks, half
  <2> QED
    BY <1>3, <1>7, <2>1, <2>2
<1>9. ASSUME NEW k \in 1..Len(drafts) PROVE drafts[k].start < RawEnd
  <2>1. drafts[k].start < cursor /\ drafts[k].start \in Nat
    <3>1. drafts[k].start < cursor
      BY <1>1, <1>2 DEF WindowInv
    <3>2. drafts[k].start \in Nat
      BY <1>2, DraftTypes
    <3> QED
      BY <3>1, <3>2
  <2> QED
    BY <1>3, <1>4, <1>7, <2>1
<1>10. WindowInv'
  <2>1. \A i \in 0..(cursor' - 1) : Kept(i)'
    BY <1>1, <1>8, KeptUnchanged, Zenon
  <2>2. /\ stage' = "chunk" /\ page' = Len(pages') + 1 /\ cursor' < Len(text')
        /\ \A k \in 1..Len(drafts') : drafts'[k].start < cursor'
    BY <1>1, <1>2, <1>7, <1>9 DEF WindowInv
  <2> QED
    BY <2>1, <2>2 DEF WindowInv
<1>11. ChunkingTypeOK'
  BY <1>1, <1>2, <1>7 DEF ChunkingTypeOK
<1>12. JoinInv' /\ DraftsFit' /\ ChunksCiteTheirPages'
  BY <1>1, <1>2, TextUnchanged, DraftsUnchanged
<1> QED
  BY <1>10, <1>11, <1>12 DEF ChunkingInv

\* What take_window does with the window: the chunk it cuts, and whether it is kept.
LEMMA TakeFacts ==
    ASSUME ChunkingInv, take_window
    PROVE  \E start, end \in Nat :
              /\ cursor <= start /\ start < end /\ end <= Len(text) /\ end <= start + ChunkSize
              /\ ~IsBlank(start) /\ ~IsBlank(end - 1)
              /\ \A i \in cursor..(start - 1) : IsBlank(i)
              /\ \/ /\ drafts' = Append(drafts, [start |-> start, end |-> end,
                                        page_start |-> pages_for_range(start, end).first,
                                        page_end |-> pages_for_range(start, end).last])
                 \/ /\ drafts' = drafts
                    /\ \A i \in cursor..(end - 1) : InShortPiece(i)
              /\ \/ end = Len(text) /\ stage' = "done" /\ cursor' = cursor
                 \/ end < Len(text) /\ stage' = "chunk" /\ cursor' \in (start + 1)..end
<1> DEFINE p == preferred_end(cursor, RawEnd)
           half == ChunkSize \div 2
           start == Min(WindowInk)
           last == Max(WindowInk)
           end == last + 1
<1>1. stage = "chunk" /\ cursor < Len(text) /\ WindowInk # {}
  BY DEF take_window
<1>2. ChunkingTypeOK /\ JoinInv
  BY DEF ChunkingInv
<1>3. cursor \in Nat /\ Len(text) \in Nat /\ ChunkSize \in Nat \ {0} /\ MinimumChars \in Nat /\ half \in Nat
  BY <1>2, ChunkingAssumption, HalfFacts DEF ChunkingTypeOK
<1>4. /\ p \in (cursor + 1)..Len(text) /\ p <= cursor + ChunkSize
      /\ p = Len(text) \/ p >= cursor + half
  <2>1. /\ RawEnd \in (cursor + 1)..Len(text) /\ RawEnd <= cursor + ChunkSize
        /\ p \in (cursor + 1)..RawEnd
        /\ p = Len(text) \/ p >= cursor + half
    BY <1>1, <1>2, WindowFacts
  <2> QED
    BY <1>3, <2>1
<1>5. WindowInk = {i \in cursor..(p - 1) : ~IsBlank(i)}
  BY DEF WindowInk
<1> HIDE DEF p, half
<1>6. start \in WindowInk /\ \A m \in WindowInk : start <= m
  <2>1. WindowInk \in SUBSET Nat
    BY <1>3, <1>5
  <2> QED
    BY <1>1, <2>1, MinFacts
<1>7. last \in WindowInk /\ \A m \in WindowInk : m <= last
  <2>1. WindowInk \in SUBSET (0..p)
    BY <1>3, <1>4, <1>5
  <2>2. p \in Nat
    BY <1>3, <1>4
  <2> QED
    BY <1>1, <2>1, <2>2, MaxFacts
<1>8. /\ drafts' = IF end - start >= MinimumChars \/ drafts = <<>>
                   THEN Append(drafts, [start |-> start, end |-> end,
                                        page_start |-> pages_for_range(start, end).first,
                                        page_end |-> pages_for_range(start, end).last])
                   ELSE drafts
      /\ IF end >= Len(text) THEN stage' = "done" /\ UNCHANGED cursor
         ELSE cursor' = NextCursor(start, end) /\ UNCHANGED stage
  BY DEF take_window
<1> HIDE DEF start, last
<1>9. /\ start \in cursor..(p - 1) /\ last \in cursor..(p - 1) /\ start <= last
      /\ ~IsBlank(start) /\ ~IsBlank(last)
  BY <1>5, <1>6, <1>7
<1>10. /\ start \in Nat /\ last \in Nat /\ end \in Nat /\ end - 1 = last
       /\ cursor <= start /\ start < end /\ end <= p /\ end <= Len(text) /\ end <= start + ChunkSize
  BY <1>3, <1>4, <1>9
<1>11. \A i \in cursor..(start - 1) : IsBlank(i)
  <2> SUFFICES ASSUME NEW i \in cursor..(start - 1), ~IsBlank(i) PROVE FALSE
    OBVIOUS
  <2>1. i \in cursor..(p - 1) /\ ~ (start <= i)
    BY <1>3, <1>4, <1>9
  <2> QED
    BY <1>5, <1>6, <2>1
<1>12. ASSUME end - start < MinimumChars, NEW i \in cursor..(end - 1)
       PROVE  InShortPiece(i)
  <2>1. cursor \in 0..i /\ p \in (i + 1)..Len(text)
    BY <1>3, <1>4, <1>10
  <2>2. p = Len(text) \/ p - cursor >= half
    BY <1>3, <1>4
  <2>3. ASSUME NEW j \in cursor..(p - 1), NEW k \in cursor..(p - 1), ~IsBlank(j), ~IsBlank(k)
        PROVE  k - j + 1 < MinimumChars
    <3>1. start <= j /\ k <= last
      BY <1>5, <1>6, <1>7, <2>3
    <3>2. j \in Nat /\ k \in Nat
      BY <1>3, <1>4
    <3> QED
      BY <1>3, <1>10, <1>12, <3>1, <3>2
  <2> QED
    BY <2>1, <2>2, <2>3 DEF InShortPiece, half
<1>13. \/ /\ drafts' = Append(drafts, [start |-> start, end |-> end,
                                       page_start |-> pages_for_range(start, end).first,
                                       page_end |-> pages_for_range(start, end).last])
       \/ drafts' = drafts /\ \A i \in cursor..(end - 1) : InShortPiece(i)
  <2>1. CASE end - start >= MinimumChars \/ drafts = <<>>
    BY <1>8, <2>1
  <2>2. CASE ~ (end - start >= MinimumChars \/ drafts = <<>>)
    <3>1. end - start < MinimumChars
      BY <1>3, <1>10, <2>2
    <3> QED
      BY <1>8, <1>12, <2>2, <3>1
  <2> QED
    BY <2>1, <2>2
<1> HIDE DEF end
<1>14. \/ end = Len(text) /\ stage' = "done" /\ cursor' = cursor
       \/ end < Len(text) /\ stage' = "chunk" /\ cursor' \in (start + 1)..end
  <2>1. CASE end >= Len(text)
    BY <1>3, <1>8, <1>10, <2>1
  <2>2. CASE end < Len(text)
    <3>1. NextCursor(start, end) \in (start + 1)..end
      BY <1>10, NextCursorFacts
    <3> QED
      BY <1>1, <1>3, <1>8, <1>10, <2>2, <3>1
  <2> QED
    BY <1>3, <1>10, <2>1, <2>2
<1>15. ~IsBlank(end - 1)
  BY <1>9, <1>10
<1> QED
  BY <1>9, <1>10, <1>11, <1>13, <1>14, <1>15

\* The entries of a sequence with one more.
LEMMA AppendFacts ==
    ASSUME NEW S, NEW q \in Seq(S), NEW x \in S
    PROVE  /\ Append(q, x) \in Seq(S) /\ Len(Append(q, x)) = Len(q) + 1
           /\ \A k \in 1..Len(q) : Append(q, x)[k] = q[k]
           /\ Append(q, x)[Len(q) + 1] = x
OBVIOUS

\* One more draft takes nothing from what the others keep.
LEMMA KeptGrows ==
    ASSUME UNCHANGED text, NEW i, Kept(i),
           \A k \in DOMAIN drafts : k \in DOMAIN drafts' /\ drafts'[k] = drafts[k]
    PROVE  Kept(i)'
<1>1. Covered(i) => Covered(i)'
  BY Zenon DEF Covered
<1>2. IsBlank(i) => IsBlank(i)'
  BY Zenon DEF IsBlank, Blank, Space, Newline, Return, Tab, Nul
<1>3. BehindBlanks(i) => BehindBlanks(i)'
  BY Zenon DEF BehindBlanks, IsBlank, Blank, Space, Newline, Return, Tab, Nul
<1>4. InShortPiece(i) => InShortPiece(i)'
  BY Zenon DEF InShortPiece, IsBlank, Blank, Space, Newline, Return, Tab, Nul
<1> QED
  BY <1>1, <1>2, <1>3, <1>4, Zenon DEF Kept

\* Cutting a chunk from the window keeps the invariant.
LEMMA TakeStep ==
    ASSUME ChunkingInv, take_window
    PROVE  ChunkingInv'
<1>1. /\ stage = "chunk" /\ UNCHANGED <<pages, page, text, offset, sections, origin>>
  BY DEF take_window
<1>2. ChunkingTypeOK /\ JoinInv /\ DraftsFit /\ WindowInv /\ ChunksCiteTheirPages
  BY DEF ChunkingInv
<1>3. PICK start \in Nat, end \in Nat :
              /\ cursor <= start /\ start < end /\ end <= Len(text) /\ end <= start + ChunkSize
              /\ ~IsBlank(start) /\ ~IsBlank(end - 1)
              /\ \A i \in cursor..(start - 1) : IsBlank(i)
              /\ \/ /\ drafts' = Append(drafts, [start |-> start, end |-> end,
                                        page_start |-> pages_for_range(start, end).first,
                                        page_end |-> pages_for_range(start, end).last])
                 \/ /\ drafts' = drafts
                    /\ \A i \in cursor..(end - 1) : InShortPiece(i)
              /\ \/ end = Len(text) /\ stage' = "done" /\ cursor' = cursor
                 \/ end < Len(text) /\ stage' = "chunk" /\ cursor' \in (start + 1)..end
  BY TakeFacts
<1> DEFINE cited == pages_for_range(start, end)
           draft == [start |-> start, end |-> end, page_start |-> cited.first, page_end |-> cited.last]
           n == Len(drafts)
           Draft == [start : Nat, end : Nat, page_start : Nat, page_end : Nat]
<1>4. /\ cited.first \in Nat /\ cited.last \in Nat
      /\ \E i \in start..(end - 1) : ~IsBlank(i) /\ origin[i + 1].page = cited.first
      /\ \E i \in start..(end - 1) : ~IsBlank(i) /\ origin[i + 1].page = cited.last
      /\ \A i \in start..(end - 1) : ~IsBlank(i) => origin[i + 1].page \in cited.first..cited.last
  BY <1>2, <1>3, CitedPages
<1>5. drafts' = Append(drafts, draft) \/ drafts' = drafts
  BY <1>3
<1> HIDE DEF cited
<1>6. /\ draft \in Draft /\ drafts \in Seq(Draft) /\ n \in Nat /\ DOMAIN drafts = 1..n
      /\ cursor \in Nat /\ Len(text) \in Nat
  BY <1>2, <1>4 DEF ChunkingTypeOK
<1>7. /\ draft.start = start /\ draft.end = end
      /\ draft.page_start = cited.first /\ draft.page_end = cited.last
  OBVIOUS
<1> HIDE DEF draft, Draft
<1>8. /\ drafts' \in Seq(Draft) /\ Len(drafts') \in Nat /\ DOMAIN drafts' = 1..Len(drafts')
      /\ \A k \in 1..n : k \in 1..Len(drafts') /\ drafts'[k] = drafts[k]
      /\ \/ Len(drafts') = n
         \/ Len(drafts') = n + 1 /\ drafts'[n + 1] = draft
  <2>1. CASE drafts' = drafts
    BY <1>6, <2>1
  <2>2. CASE drafts' = Append(drafts, draft)
    <3>1. /\ drafts' \in Seq(Draft) /\ Len(drafts') = n + 1
          /\ \A k \in 1..n : drafts'[k] = drafts[k]
          /\ drafts'[n + 1] = draft
      BY <1>6, <2>2, AppendFacts
    <3> QED
      BY <1>6, <3>1
  <2> QED
    BY <1>5, <2>1, <2>2
<1> DEFINE isNew(k) == k = n + 1 /\ drafts'[k] = draft
<1>0. ASSUME NEW k \in 1..Len(drafts'), k \notin 1..n PROVE isNew(k)
  <2>1. Len(drafts') # n
    BY <1>0
  <2>2. Len(drafts') = n + 1 /\ drafts'[n + 1] = draft
    BY <1>8, <2>1
  <2>3. k = n + 1
    BY <1>0, <1>6, <2>2
  <2> QED
    BY <2>2, <2>3
<1>9. ChunkingTypeOK'
  <2>1. cursor' \in Nat /\ stage' \in {"normalize", "chunk", "done", "rejected"}
    BY <1>3, <1>6
  <2> QED
    BY <1>1, <1>2, <1>8, <2>1 DEF ChunkingTypeOK, Draft
<1>10. JoinInv'
  BY <1>1, <1>2, TextUnchanged
<1>11. \A i : IsBlank(i)' <=> IsBlank(i)
  BY <1>1, Zenon DEF IsBlank, Blank, Space, Newline, Return, Tab, Nul
<1>12. \A k \in 1..n : drafts[k].start < start
  <2> SUFFICES ASSUME NEW k \in 1..n PROVE drafts[k].start < start
    OBVIOUS
  <2>1. drafts[k].start < cursor
    BY <1>1, <1>2 DEF WindowInv
  <2>2. drafts[k].start \in Nat
    BY <1>2, DraftTypes
  <2> QED
    BY <1>3, <1>6, <2>1, <2>2
<1>13. DraftsFit'
  <2> SUFFICES ASSUME NEW k \in 1..Len(drafts')
               PROVE  /\ drafts'[k].start < drafts'[k].end /\ drafts'[k].end <= Len(text)
                      /\ drafts'[k].end <= drafts'[k].start + ChunkSize
                      /\ text[drafts'[k].start + 1] \notin Blank
                      /\ text[drafts'[k].end - 1 + 1] \notin Blank
                      /\ k > 1 => drafts'[k].start > drafts'[k - 1].start
    BY <1>1, Zenon DEF DraftsFit, IsBlank, Blank, Space, Newline, Return, Tab, Nul
  <2>1. CASE k \in 1..n
    <3>1. /\ drafts[k].start < drafts[k].end /\ drafts[k].end <= Len(text)
          /\ drafts[k].end <= drafts[k].start + ChunkSize
          /\ text[drafts[k].start + 1] \notin Blank
          /\ text[drafts[k].end - 1 + 1] \notin Blank
          /\ k > 1 => drafts[k].start > drafts[k - 1].start
      BY <1>2, <2>1, Zenon DEF DraftsFit, IsBlank
    <3>2. drafts'[k] = drafts[k]
      BY <1>8, <2>1
    <3>3. k > 1 => drafts'[k - 1] = drafts[k - 1]
      <4>1. k > 1 => k - 1 \in 1..n
        BY <1>6, <2>1
      <4> QED
        BY <1>8, <4>1
    <3> QED
      BY <3>1, <3>2, <3>3
  <2>2. CASE k \notin 1..n
    <3>1. k = n + 1 /\ drafts'[k] = draft
      BY <1>0, <2>2
    <3>2. k > 1 => k - 1 \in 1..n
      BY <1>6, <3>1
    <3>3. k > 1 => drafts'[k - 1].start < start
      BY <1>8, <1>12, <3>2
    <3>4. text[start + 1] \notin Blank /\ text[end - 1 + 1] \notin Blank
      BY <1>3, Zenon DEF IsBlank
    <3>5. drafts'[k].start = start /\ drafts'[k].end = end
      BY <1>7, <3>1
    <3> QED
      BY <1>3, <3>3, <3>4, <3>5
  <2> QED
    BY <2>1, <2>2
<1>14. ChunksCiteTheirPages'
  <2> SUFFICES ASSUME NEW k \in 1..Len(drafts')
               PROVE  /\ \E i \in drafts'[k].start..(drafts'[k].end - 1) :
                            ~IsBlank(i)' /\ origin'[i + 1].page = drafts'[k].page_start
                      /\ \E i \in drafts'[k].start..(drafts'[k].end - 1) :
                            ~IsBlank(i)' /\ origin'[i + 1].page = drafts'[k].page_end
                      /\ \A i \in drafts'[k].start..(drafts'[k].end - 1) : ~IsBlank(i)' =>
                            origin'[i + 1].page \in drafts'[k].page_start..drafts'[k].page_end
    BY <1>8, Zenon DEF ChunksCiteTheirPages, IsBlank
  <2>1. origin' = origin
    BY <1>1
  <2>2. CASE k \in 1..n
    <3>1. drafts'[k] = drafts[k]
      BY <1>8, <2>2
    <3>2. /\ \E i \in drafts[k].start..(drafts[k].end - 1) :
                ~IsBlank(i) /\ origin[i + 1].page = drafts[k].page_start
          /\ \E i \in drafts[k].start..(drafts[k].end - 1) :
                ~IsBlank(i) /\ origin[i + 1].page = drafts[k].page_end
          /\ \A i \in drafts[k].start..(drafts[k].end - 1) : ~IsBlank(i) =>
                origin[i + 1].page \in drafts[k].page_start..drafts[k].page_end
      BY <1>2, <1>6, <2>2, Zenon DEF ChunksCiteTheirPages
    <3> QED
      BY <1>11, <2>1, <3>1, <3>2, Zenon
  <2>3. CASE k \notin 1..n
    <3>1. drafts'[k] = draft
      BY <1>0, <2>3
    <3> QED
      BY <1>4, <1>7, <1>11, <2>1, <3>1, Zenon
  <2> QED
    BY <2>2, <2>3
<1>15. ASSUME NEW i \in 0..(end - 1) PROVE Kept(i)'
  <2>0. \A k \in DOMAIN drafts : k \in DOMAIN drafts' /\ drafts'[k] = drafts[k]
    BY <1>6, <1>8
  <2>1. CASE i < cursor
    <3>1. i \in 0..(cursor - 1)
      BY <1>6, <2>1
    <3>2. Kept(i)
      BY <1>1, <1>2, <3>1 DEF WindowInv
    <3> QED
      BY <1>1, <2>0, <3>2, KeptGrows, Zenon
  <2>2. CASE cursor <= i /\ i < start
    <3>1. i \in cursor..(start - 1)
      BY <1>6, <2>2
    <3>2. Kept(i)
      BY <1>3, <3>1 DEF Kept
    <3> QED
      BY <1>1, <2>0, <3>2, KeptGrows, Zenon
  <2>3. CASE start <= i
    <3>1. i \in cursor..(end - 1)
      BY <1>3, <1>6, <2>3
    <3>2. CASE InShortPiece(i)
      <4>1. Kept(i)
        BY <3>2 DEF Kept
      <4> QED
        BY <1>1, <2>0, <4>1, KeptGrows, Zenon
    <3>3. CASE drafts' = Append(drafts, draft)
      <4>1. n + 1 \in DOMAIN drafts' /\ drafts'[n + 1] = draft
        BY <1>6, <3>3, AppendFacts
      <4>2. start <= i /\ i < end
        BY <2>3
      <4> QED
        BY <1>7, <4>1, <4>2, Zenon DEF Kept, Covered
    <3> QED
      BY <1>3, <3>1, <3>2, <3>3 DEF draft, cited
  <2> QED
    BY <1>6, <2>1, <2>2, <2>3
<1>16. WindowInv'
  <2>1. CASE end = Len(text) /\ stage' = "done"
    <3>1. \A i \in 0..(Len(text') - 1) : Kept(i)'
      BY <1>1, <1>15, <2>1, Zenon
    <3>2. page' = Len(pages') + 1
      BY <1>1, <1>2 DEF WindowInv
    <3> QED
      BY <2>1, <3>1, <3>2 DEF WindowInv
  <2>2. CASE end < Len(text) /\ stage' = "chunk" /\ cursor' \in (start + 1)..end
    <3>1. 0..(cursor' - 1) \subseteq 0..(end - 1) /\ cursor' < Len(text') /\ start < cursor'
      <4>1. cursor' \in Nat /\ cursor' <= end /\ start < cursor'
        BY <1>3, <2>2
      <4>2. 0..(cursor' - 1) \subseteq 0..(end - 1)
        <5> DEFINE c == cursor'
        <5>1. c \in Nat /\ c <= end
          BY <4>1
        <5> HIDE DEF c
        <5>2. 0..(c - 1) \subseteq 0..(end - 1)
          BY <5>1
        <5> QED
          BY <5>2 DEF c
      <4>3. cursor' < Len(text')
        BY <1>1, <1>3, <1>6, <2>2, <4>1
      <4> QED
        BY <4>1, <4>2, <4>3
    <3>2. \A i \in 0..(cursor' - 1) : Kept(i)'
      BY <1>15, <3>1, Zenon
    <3>3. \A k \in 1..Len(drafts') : drafts'[k].start < cursor'
      <4> SUFFICES ASSUME NEW k \in 1..Len(drafts') PROVE drafts'[k].start < cursor'
        OBVIOUS
      <4>1. CASE k \in 1..n
        <5>1. drafts'[k].start = drafts[k].start /\ drafts[k].start < start /\ drafts[k].start \in Nat
          BY <1>2, <1>8, <1>12, <4>1, DraftTypes
        <5> QED
          BY <2>2, <3>1, <5>1
      <4>2. CASE k \notin 1..n
        <5>1. drafts'[k] = draft
          BY <1>0, <4>2
        <5> QED
          BY <1>7, <3>1, <5>1
      <4> QED
        BY <4>1, <4>2
    <3>4. page' = Len(pages') + 1
      BY <1>1, <1>2 DEF WindowInv
    <3> QED
      BY <2>2, <3>1, <3>2, <3>3, <3>4 DEF WindowInv
  <2> QED
    BY <1>3, <2>1, <2>2
<1> QED
  BY <1>9, <1>10, <1>13, <1>14, <1>16 DEF ChunkingInv

\* The invariant of the finished loop is that nothing is lost.
LEMMA InvGivesText ==
    ASSUME ChunkingInv
    PROVE  ChunksKeepText
<1>1. ChunkingTypeOK /\ JoinInv /\ DraftsFit /\ WindowInv
  BY DEF ChunkingInv
<1>2. /\ DOMAIN drafts = 1..Len(drafts) /\ DOMAIN text = 1..Len(text) /\ DOMAIN pages = 1..Len(pages)
      /\ Len(text) \in Nat /\ Len(pages) \in Nat /\ ChunkSize \in Nat
  BY <1>1, ChunkingAssumption DEF ChunkingTypeOK
<1>3. stage = "chunk" => cursor < Len(text)
  BY <1>1 DEF WindowInv
<1>4. ASSUME NEW k \in 1..Len(drafts)
      PROVE  /\ drafts[k].end - drafts[k].start \in 1..ChunkSize
             /\ ~IsBlank(drafts[k].start) /\ ~IsBlank(drafts[k].end - 1)
             /\ k > 1 => drafts[k].start > drafts[k - 1].start
  <2>1. drafts[k].start \in Nat /\ drafts[k].end \in Nat
    BY <1>1, DraftTypes
  <2>2. /\ drafts[k].start < drafts[k].end
        /\ drafts[k].end <= drafts[k].start + ChunkSize
        /\ ~IsBlank(drafts[k].start) /\ ~IsBlank(drafts[k].end - 1)
        /\ k > 1 => drafts[k].start > drafts[k - 1].start
    BY <1>1 DEF DraftsFit
  <2>3. drafts[k].end - drafts[k].start \in 1..ChunkSize
    BY <1>2, <2>1, <2>2
  <2> QED
    BY <2>2, <2>3
<1>5. ASSUME NEW i \in 1..Len(text), NEW j \in 1..Len(text), i < j, NoOrigin \notin {origin[i], origin[j]}
      PROVE  \/ origin[i].page < origin[j].page
             \/ origin[i].page = origin[j].page /\ origin[i].at < origin[j].at
  BY <1>1, <1>5 DEF JoinInv, InSourceOrder
<1>6. ASSUME stage = "done", NEW p \in 1..Len(pages), NEW k \in Inked(pages[p])
      PROVE  \E i \in 1..Len(text) :
                /\ origin[i] = [page |-> p, at |-> k] /\ text[i] = pages[p][k]
                /\ Covered(i - 1) \/ BehindBlanks(i - 1) \/ InShortPiece(i - 1)
  <2>1. page = Len(pages) + 1 /\ \A i \in 0..(Len(text) - 1) : Kept(i)
    BY <1>1, <1>6 DEF WindowInv
  <2>2. p \in 1..(page - 1)
    BY <1>2, <2>1
  <2>3. PICK i \in 1..Len(text) : origin[i] = [page |-> p, at |-> k]
    BY <1>1, <2>2 DEF JoinInv, InkJoined
  <2>4. origin[i].page = p /\ origin[i].at = k /\ origin[i] # NoOrigin
    <3>1. NoOrigin.page = 0 /\ p # 0
      BY DEF NoOrigin
    <3> QED
      BY <2>3, <3>1
  <2>5. text[i] = pages[p][k]
    <3>1. text[i] = Normalized(pages[p][k])
      BY <1>1, <2>4 DEF JoinInv, FromPages
    <3>2. pages[p][k] \in Characters /\ pages[p][k] \notin Blank
      BY <1>1 DEF ChunkingTypeOK, Inked
    <3> QED
      BY <3>1, <3>2, NormalizedCharacter
  <2>6. i - 1 \in 0..(Len(text) - 1) /\ (i - 1) + 1 = i
    BY <1>2
  <2>7. ~IsBlank(i - 1)
    BY <2>5, <2>6 DEF IsBlank, Inked
  <2>8. Covered(i - 1) \/ BehindBlanks(i - 1) \/ InShortPiece(i - 1)
    BY <2>1, <2>6, <2>7, Zenon DEF Kept
  <2> QED
    BY <2>3, <2>5, <2>8
<1> QED
  BY <1>2, <1>3, <1>4, <1>5, <1>6, Zenon DEF ChunksKeepText

\* The invariant holds of an uploaded document.
LEMMA ChunkingInitially ==
    ASSUME ChunkingInit
    PROVE  ChunkingInv
<1>1. /\ pages \in Seq(Seq(Characters)) /\ page = 1 /\ text = <<>> /\ offset = 0 /\ sections = {}
      /\ origin = <<>> /\ cursor = 0 /\ drafts = <<>> /\ stage = "normalize"
  BY ChunkingAssumption DEF ChunkingInit
<1>2. ChunkingTypeOK
  BY <1>1 DEF ChunkingTypeOK
<1>3. JoinInv
  <2>1. 1..Len(text) = {} /\ 1..(page - 1) = {}
    BY <1>1
  <2> QED
    BY <1>1, <2>1, Zenon DEF JoinInv, FromPages, InSourceOrder, InkJoined, SectionsFit, SectionsCover, EndsInked
<1>4. 1..Len(drafts) = {} /\ DOMAIN drafts = {}
  BY <1>1
<1>5. DraftsFit /\ ChunksCiteTheirPages /\ WindowInv
  BY <1>1, <1>4, Zenon DEF DraftsFit, ChunksCiteTheirPages, WindowInv
<1> QED
  BY <1>2, <1>3, <1>5 DEF ChunkingInv

\* Every turn of the two loops keeps the invariant.
LEMMA ChunkingPreserved ==
    ASSUME ChunkingInv, [ChunkingNext]_chunkingVars
    PROVE  ChunkingInv'
<1>1. CASE ChunkingNext
  BY <1>1, NormalizeStep, BeginStep, SkipStep, TakeStep DEF ChunkingNext
<1>2. CASE UNCHANGED chunkingVars
  <2>1. UNCHANGED <<stage, pages, page, text, offset, sections, origin, cursor, drafts>>
    BY <1>2 DEF chunkingVars
  <2>2. JoinInv' /\ DraftsFit' /\ ChunksCiteTheirPages'
    BY <2>1, TextUnchanged, DraftsUnchanged DEF ChunkingInv
  <2>3. ChunkingTypeOK'
    BY <2>1 DEF ChunkingInv, ChunkingTypeOK
  <2>4. \A i : Kept(i) => Kept(i)'
    BY <2>1, KeptUnchanged, Zenon
  <2>5. WindowInv'
    BY <2>1, <2>4, Zenon DEF ChunkingInv, WindowInv
  <2> QED
    BY <2>2, <2>3, <2>5 DEF ChunkingInv
<1> QED
  BY <1>1, <1>2

\* The loop invariant of normalize_extracted_document and chunk_text, for every document, chunk
\* size, overlap and minimum.
LEMMA ChunkingInvariant == ChunkingSpec => []ChunkingInv
BY ChunkingInitially, ChunkingPreserved, PTL DEF ChunkingSpec

\* Chunking loses nothing: ChunksKeepText, for every document and every setting of the chunk size,
\* the overlap and the minimum (knowledge/ingestion/chunking.py chunk_text).
THEOREM TextIsKept == ChunkingSpec => []ChunksKeepText
BY ChunkingInvariant, InvGivesText, PTL

\* Every chunk cites the pages its text comes from: ChunksCiteTheirPages, for every document and
\* setting (knowledge/ingestion/normalization.py and chunking.py).
THEOREM PagesAreCited == ChunkingSpec => []ChunksCiteTheirPages
<1>1. ChunkingInv => ChunksCiteTheirPages
  BY DEF ChunkingInv
<1> QED
  BY <1>1, ChunkingInvariant, PTL

\* A turn of the loop of chunk_text leaves it, or moves the window on inside the text.
LEMMA TurnMovesWindow ==
    ASSUME ChunkingInv, ChunkingInv', ChunkingNext, stage = "chunk"
    PROVE  text' = text /\ (stage' = "done" \/ (cursor < cursor' /\ cursor' < Len(text)))
<1>1. ChunkingTypeOK /\ cursor \in Nat /\ Len(text) \in Nat
  BY DEF ChunkingInv, ChunkingTypeOK
<1>2. stage' = "chunk" => cursor' < Len(text')
  BY DEF ChunkingInv, WindowInv
<1>3. CASE skip_blank_window
  <2>1. cursor < Len(text) /\ cursor' = RawEnd /\ text' = text /\ stage' = stage
    BY <1>3 DEF skip_blank_window
  <2>2. RawEnd \in (cursor + 1)..Len(text)
    BY <1>1, <2>1, WindowFacts
  <2>3. cursor < RawEnd
    BY <1>1, <2>2
  <2> QED
    BY <1>2, <2>1, <2>3
<1>4. CASE take_window
  <2>1. text' = text
    BY <1>4 DEF take_window
  <2>2. PICK start \in Nat, end \in Nat :
           /\ cursor <= start
           /\ stage' = "done" \/ (stage' = "chunk" /\ cursor' \in (start + 1)..end)
    BY <1>4, TakeFacts
  <2>3. cursor' \in (start + 1)..end => cursor < cursor'
    BY <1>1, <2>2
  <2> QED
    BY <1>2, <2>1, <2>2, <2>3
<1>5. ~normalize_extracted_document /\ ~begin_chunk_text
  BY DEF normalize_extracted_document, begin_chunk_text
<1> QED
  BY <1>3, <1>4, <1>5 DEF ChunkingNext

\* The while loop of chunk_text ends whatever the overlap and the text are: every turn leaves it
\* or moves the window on, and the window stays inside the text, which does not change
\* (knowledge/ingestion/chunking.py chunk_text, the assignments to cursor).
THEOREM WindowMovesOn ==
    ChunkingSpec =>
        [][stage = "chunk" => /\ text' = text
                              /\ stage' = "done" \/ (cursor < cursor' /\ cursor' < Len(text))]_chunkingVars
<1>1. ASSUME ChunkingInv, ChunkingInv', [ChunkingNext]_chunkingVars
      PROVE  [stage = "chunk" => /\ text' = text
                                 /\ stage' = "done" \/ (cursor < cursor' /\ cursor' < Len(text))]_chunkingVars
  BY <1>1, TurnMovesWindow
<1> QED
  BY <1>1, ChunkingInvariant, PTL DEF ChunkingSpec

-----------------------------------------------------------------------------
(* AgentContext *)

ContextMessages == [id : Nat, role : {"user", "assistant", "none"}, length : Nat, truncated : BOOLEAN]
References == [start : Nat, read : Nat, end : Nat, page_start : Nat, page_end : Nat]

ContextTypeOK ==
    /\ request \in Requests
    /\ phase \in {"validate", "select", "retrieve", "done", "refused"}
    /\ seen \in SUBSET Eligible
    /\ retained \in Seq(ContextMessages) /\ remaining \in Nat
    /\ rank \in 0..Len(results) /\ references \in Seq(References) /\ Len(references) = rank
    /\ left \in Nat /\ cut \in BOOLEAN

Accepted == phase \in {"select", "retrieve", "done"}

Spent == Total([k \in DOMAIN retained |-> retained[k].length])
Budget ==
    /\ phase = "validate" => retained = <<>> /\ seen = {}
    /\ Accepted => /\ validate_trigger_message(history[trigger])
                   /\ Spent + remaining + trigger_context.length = MaxCharacters

\* The rows come newest first.
NewestSeen == \A i \in Eligible \ seen, j \in seen : Older(i, j)

RetainedFit ==
    \A k \in 1..Len(retained) :
        /\ retained[k].id \in seen \ {trigger}
        /\ retained[k].length <= history[retained[k].id].length
        /\ retained[k].truncated <=> retained[k].length < history[retained[k].id].length
        /\ retained[k].truncated => k = 1 /\ remaining = 0

RetainedInOrder ==
    \A a, b \in 1..Len(retained) : a < b => Older(retained[a].id, retained[b].id)

TextRetained ==
    \A i \in seen \ {trigger} : history[i].length > 0 =>
        \E k \in 1..Len(retained) : retained[k].id = i

SelectBounds == Cardinality(seen) <= MaxMessages /\ Len(retained) <= MaxMessages - 1

SelectInv == /\ Budget /\ NewestSeen /\ RetainedFit /\ RetainedInOrder /\ TextRetained /\ SelectBounds

Full == Eligible \ seen # {} =>
            Cardinality(seen) >= MaxMessages \/ Len(retained) >= MaxMessages - 1 \/ remaining = 0

ReturnInv ==
    /\ phase \in {"retrieve", "done"} =>
          /\ Full
          /\ context = [messages  |-> Append(retained, trigger_context),
                        truncated |-> \/ \E k \in DOMAIN Append(retained, trigger_context) :
                                            Append(retained, trigger_context)[k].truncated
                                      \/ Len(Append(retained, trigger_context)) < Cardinality(Eligible)]
    /\ phase = "done" => llm[Len(llm)] = "user"

Sizes == [k \in DOMAIN results |-> results[k].end - results[k].start]
Quoted == Total([k \in DOMAIN references |-> references[k].read - references[k].start])

ReferencesFit ==
    \A k \in 1..Len(references) :
        /\ references[k].start = results[k].start /\ references[k].start < references[k].read
        /\ references[k].end = references[k].read
        /\ references[k].page_start = results[k].page_start /\ references[k].page_end = results[k].page_end
        /\ ~ (cut /\ k = rank) => references[k].end = results[k].end

QuotedSize ==
    /\ Quoted + left = MaxReferenced
    /\ ~cut => Quoted = SumTo(Sizes, rank)
    /\ cut => left = 0 /\ Quoted < SumTo(Sizes, rank)

KnowledgeInv ==
    /\ ReferencesFit /\ QuotedSize
    /\ phase = "done" => /\ rank = Len(results) \/ cut \/ left = 0
                         /\ knowledge = [references |-> references,
                                         truncated  |-> cut \/ Len(references) < Len(results)]

ContextInv == ContextTypeOK /\ SelectInv /\ ReturnInv /\ KnowledgeInv

\* The sums of a sequence exist: a table of the first n of them extends to n + 1.
LEMMA SumTable ==
    ASSUME NEW s \in Seq(Nat), NEW n \in 0..Len(s)
    PROVE  \E f \in [0..n -> Nat] : f[0] = 0 /\ \A k \in 1..n : f[k] = f[k - 1] + s[k]
<1> DEFINE Has(m) == \E f \in [0..m -> Nat] : f[0] = 0 /\ \A k \in 1..m : f[k] = f[k - 1] + s[k]
           missing == {m \in 0..Len(s) : ~Has(m)}
<1>1. Len(s) \in Nat
  OBVIOUS
<1>2. missing = {}
  <2> SUFFICES ASSUME missing # {} PROVE FALSE
    OBVIOUS
  <2>1. missing \in SUBSET Nat
    BY <1>1
  <2> HIDE DEF Has
  <2>2. PICK m \in missing : \A j \in missing : m <= j
    BY <2>1, LeastNumber
  <2>3. m \in 0..Len(s) /\ ~Has(m) /\ m \in Nat
    BY <1>1, <2>2
  <2>4. m # 0
    <3>1. Has(0)
      <4> DEFINE f == [k \in 0..0 |-> 0]
      <4>1. f \in [0..0 -> Nat] /\ f[0] = 0 /\ 1..0 = {}
        OBVIOUS
      <4> QED
        BY <4>1 DEF Has
    <3> QED
      BY <2>3, <3>1
  <2>5. m - 1 \in 0..Len(s) /\ m - 1 \in Nat /\ m \in 1..Len(s)
    BY <1>1, <2>3, <2>4
  <2>6. Has(m - 1)
    <3>1. ~ (m <= m - 1)
      BY <2>3
    <3> QED
      BY <2>2, <2>5, <3>1
  <2>7. PICK f \in [0..(m - 1) -> Nat] : f[0] = 0 /\ \A k \in 1..(m - 1) : f[k] = f[k - 1] + s[k]
    BY <2>6 DEF Has
  <2> DEFINE g == [k \in 0..m |-> IF k = m THEN f[m - 1] + s[m] ELSE f[k]]
  <2>8. f[m - 1] \in Nat /\ s[m] \in Nat
    BY <2>5, <2>7
  <2>9. g \in [0..m -> Nat]
    <3>1. ASSUME NEW k \in 0..m, k # m PROVE f[k] \in Nat
      <4>1. k \in 0..(m - 1)
        BY <2>3, <3>1
      <4> QED
        BY <2>7, <4>1
    <3> QED
      BY <2>8, <3>1
  <2>10. g[0] = 0
    BY <2>3, <2>4, <2>7
  <2>11. ASSUME NEW k \in 1..m PROVE g[k] = g[k - 1] + s[k]
    <3>1. k - 1 \in 0..m /\ k - 1 # m /\ k \in 0..m
      BY <2>3
    <3>2. g[k - 1] = f[k - 1]
      BY <3>1
    <3>3. CASE k = m
      BY <3>1, <3>2, <3>3
    <3>4. CASE k # m
      <4>1. k \in 1..(m - 1)
        BY <2>3, <3>4
      <4> QED
        BY <2>7, <3>1, <3>2, <3>4, <4>1
    <3> QED
      BY <3>3, <3>4
  <2> HIDE DEF g
  <2>12. Has(m)
    BY <2>9, <2>10, <2>11 DEF Has
  <2> QED
    BY <2>3, <2>12
<1> QED
  BY <1>2

\* How SumTo is computed.
LEMMA SumFacts ==
    ASSUME NEW s \in Seq(Nat)
    PROVE  /\ SumTo(s, 0) = 0
           /\ \A n \in 1..Len(s) : SumTo(s, n) = SumTo(s, n - 1) + s[n]
           /\ \A n \in 0..Len(s) : SumTo(s, n) \in Nat
<1> DEFINE l == Len(s)
           Is(f) == f = [k \in 0..l |-> IF k = 0 THEN 0 ELSE f[k - 1] + s[k]]
           sum == CHOOSE f : Is(f)
<1>1. l \in Nat
  OBVIOUS
<1>2. \E f : Is(f)
  <2>1. PICK f \in [0..l -> Nat] : f[0] = 0 /\ \A k \in 1..l : f[k] = f[k - 1] + s[k]
    <3>1. l \in 0..Len(s)
      BY <1>1
    <3> QED
      BY <3>1, SumTable
  <2>2. \A k \in 0..l : k = 0 \/ k \in 1..l
    BY <1>1
  <2>3. \A k \in 0..l : f[k] = IF k = 0 THEN 0 ELSE f[k - 1] + s[k]
    BY <2>1, <2>2
  <2>4. Is(f)
    BY <2>1, <2>3
  <2> QED
    BY <2>4
<1>3. Is(sum)
  BY <1>2, Zenon
<1>4. \A n : SumTo(s, n) = sum[n]
  BY Zenon DEF SumTo
<1> HIDE DEF sum
<1>5. \A k \in 0..l : sum[k] = IF k = 0 THEN 0 ELSE sum[k - 1] + s[k]
  BY <1>3
<1>6. sum[0] = 0
  BY <1>1, <1>5
<1>7. \A n \in 1..l : sum[n] = sum[n - 1] + s[n]
  BY <1>1, <1>5
<1>8. \A n \in 0..l : sum[n] \in Nat
  <2> DEFINE odd == {n \in 0..l : sum[n] \notin Nat}
  <2> SUFFICES ASSUME odd # {} PROVE FALSE
    OBVIOUS
  <2>1. odd \in SUBSET Nat
    BY <1>1
  <2>2. PICK m \in odd : \A j \in odd : m <= j
    BY <2>1, LeastNumber
  <2>3. m \in 0..l /\ sum[m] \notin Nat
    BY <2>2
  <2>4. m \in 1..l /\ m - 1 \in 0..l /\ ~ (m <= m - 1)
    BY <1>1, <1>6, <2>3
  <2>5. sum[m - 1] \in Nat /\ s[m] \in Nat
    BY <2>2, <2>4
  <2> QED
    BY <1>7, <2>3, <2>4, <2>5
<1> QED
  BY <1>4, <1>6, <1>7, <1>8

\* The sum over the end of a sequence is that over the sequence which the end repeats.
LEMMA SumShift ==
    ASSUME NEW s \in Seq(Nat), NEW t \in Seq(Nat), NEW d \in Nat, NEW m \in 0..Len(s),
           d + m <= Len(t), \A n \in 1..m : t[d + n] = s[n]
    PROVE  SumTo(t, d + m) = SumTo(t, d) + SumTo(s, m)
<1> DEFINE Same(n) == SumTo(t, d + n) = SumTo(t, d) + SumTo(s, n)
           odd == {n \in 0..m : ~Same(n)}
<1>1. Len(s) \in Nat /\ Len(t) \in Nat /\ m \in Nat
  OBVIOUS
<1>2. /\ SumTo(s, 0) = 0
      /\ \A n \in 1..Len(s) : SumTo(s, n) = SumTo(s, n - 1) + s[n]
      /\ \A n \in 0..Len(s) : SumTo(s, n) \in Nat
  BY SumFacts
<1>3. /\ \A n \in 1..Len(t) : SumTo(t, n) = SumTo(t, n - 1) + t[n]
      /\ \A n \in 0..Len(t) : SumTo(t, n) \in Nat
  BY SumFacts
<1>4. odd = {}
  <2> SUFFICES ASSUME odd # {} PROVE FALSE
    OBVIOUS
  <2>1. odd \in SUBSET Nat
    BY <1>1
  <2> HIDE DEF Same
  <2>2. PICK n \in odd : \A j \in odd : n <= j
    BY <2>1, LeastNumber
  <2>3. n \in 0..m /\ ~Same(n) /\ n \in Nat
    BY <1>1, <2>2
  <2>4. n # 0
    <3>1. d \in 0..Len(t) /\ d + 0 = d
      BY <1>1
    <3>2. SumTo(t, d) \in Nat
      BY <1>3, <3>1
    <3>3. Same(0)
      BY <1>2, <3>1, <3>2 DEF Same
    <3> QED
      BY <2>3, <3>3
  <2>5. n - 1 \in 0..m /\ ~ (n <= n - 1) /\ n \in 1..m
    BY <1>1, <2>3, <2>4
  <2>6. Same(n - 1)
    BY <2>2, <2>5
  <2>7. n \in 1..Len(s) /\ d + n \in 1..Len(t) /\ d + (n - 1) = (d + n) - 1 /\ d \in 0..Len(t)
        /\ n - 1 \in 0..Len(s)
    BY <1>1, <2>5
  <2>8. SumTo(s, n) = SumTo(s, n - 1) + s[n] /\ SumTo(t, d + n) = SumTo(t, d + (n - 1)) + t[d + n]
    BY <1>2, <1>3, <2>7
  <2>9. t[d + n] = s[n] /\ s[n] \in Nat /\ SumTo(t, d) \in Nat /\ SumTo(s, n - 1) \in Nat
    <3>1. t[d + n] = s[n]
      BY <2>5
    <3>2. s[n] \in Nat
      BY <2>7, ElementOfSeq
    <3> QED
      BY <1>2, <1>3, <2>7, <3>1, <3>2
  <2>10. SumTo(t, d + (n - 1)) = SumTo(t, d) + SumTo(s, n - 1)
    BY <2>6 DEF Same
  <2>11. Same(n)
    <3>1. \A x, y, z \in Nat : (x + y) + z = x + (y + z)
      OBVIOUS
    <3>2. SumTo(t, d + n) = (SumTo(t, d) + SumTo(s, n - 1)) + s[n]
      BY <2>8, <2>9, <2>10
    <3>3. SumTo(t, d + n) = SumTo(t, d) + (SumTo(s, n - 1) + s[n])
      BY <2>9, <3>1, <3>2
    <3> QED
      BY <2>8, <3>3 DEF Same
  <2> QED
    BY <2>3, <2>11
<1>5. m \in 0..m
  BY <1>1
<1> QED
  BY <1>4, <1>5

\* A longer sum is not smaller.
LEMMA SumGrows ==
    ASSUME NEW s \in Seq(Nat), NEW n \in 0..Len(s), NEW m \in n..Len(s)
    PROVE  SumTo(s, n) <= SumTo(s, m)
<1> DEFINE odd == {k \in n..Len(s) : ~ (SumTo(s, n) <= SumTo(s, k))}
<1>1. Len(s) \in Nat /\ n \in Nat /\ m \in Nat
  OBVIOUS
<1>2. /\ \A k \in 1..Len(s) : SumTo(s, k) = SumTo(s, k - 1) + s[k]
      /\ \A k \in 0..Len(s) : SumTo(s, k) \in Nat
  BY SumFacts
<1>3. odd = {}
  <2> SUFFICES ASSUME odd # {} PROVE FALSE
    OBVIOUS
  <2>1. odd \in SUBSET Nat
    BY <1>1
  <2>2. PICK k \in odd : \A j \in odd : k <= j
    BY <2>1, LeastNumber
  <2>3. k \in n..Len(s) /\ ~ (SumTo(s, n) <= SumTo(s, k)) /\ k \in Nat
    BY <1>1, <2>2
  <2>4. k # n
    BY <1>1, <1>2, <2>3
  <2>5. k - 1 \in n..Len(s) /\ ~ (k <= k - 1) /\ k \in 1..Len(s) /\ k - 1 \in 0..Len(s)
    BY <1>1, <2>3, <2>4
  <2>6. SumTo(s, n) <= SumTo(s, k - 1)
    BY <2>2, <2>5
  <2>7. s[k] \in Nat /\ SumTo(s, k) = SumTo(s, k - 1) + s[k] /\ SumTo(s, n) \in Nat /\ SumTo(s, k - 1) \in Nat
    <3>1. s[k] \in Nat
      BY <2>5, ElementOfSeq
    <3>2. 0..Len(s) # {} /\ n \in 0..Len(s)
      BY <1>1
    <3> QED
      BY <1>2, <2>5, <3>1, <3>2
  <2> QED
    BY <2>3, <2>6, <2>7
<1> QED
  BY <1>3

\* What a run starts from.
LEMMA RequestFacts ==
    ASSUME request \in Requests
    PROVE  /\ history \in Seq(Messages) /\ trigger \in 1..Len(history) /\ Len(history) \in Nat
           /\ DOMAIN history = 1..Len(history)
           /\ \A i \in 1..Len(history) : history[i].length \in Nat /\ history[i].at \in Nat
           /\ results \in Seq(Chunks) /\ Len(results) \in Nat /\ DOMAIN results = 1..Len(results)
           /\ \A k \in 1..Len(results) : /\ results[k].start \in Nat /\ results[k].end \in Nat
                                         /\ results[k].start < results[k].end
           /\ Eligible \in SUBSET (1..Len(history)) /\ IsFiniteSet(Eligible)
<1>1. /\ history \in Seq(Messages) /\ trigger \in DOMAIN history /\ results \in Seq(Chunks)
      /\ \A k \in DOMAIN results : results[k].start < results[k].end
  BY ContextAssumption DEF history, trigger, results
<1>2. /\ Len(history) \in Nat /\ DOMAIN history = 1..Len(history)
      /\ Len(results) \in Nat /\ DOMAIN results = 1..Len(results)
  BY <1>1
<1>3. \A i \in 1..Len(history) : history[i].length \in Nat /\ history[i].at \in Nat
  <2> SUFFICES ASSUME NEW i \in 1..Len(history)
               PROVE  history[i].length \in Nat /\ history[i].at \in Nat
    OBVIOUS
  <2>1. history[i] \in Messages
    BY <1>1, ElementOfSeq, Zenon
  <2> QED
    BY <2>1 DEF Messages
<1>4. \A k \in 1..Len(results) : results[k].start \in Nat /\ results[k].end \in Nat
  <2> SUFFICES ASSUME NEW k \in 1..Len(results)
               PROVE  results[k].start \in Nat /\ results[k].end \in Nat
    OBVIOUS
  <2>1. results[k] \in Chunks
    BY <1>1, ElementOfSeq, Zenon
  <2> QED
    BY <2>1 DEF Chunks
<1>5. Eligible \in SUBSET (1..Len(history))
  BY <1>2 DEF Eligible
<1>6. IsFiniteSet(Eligible)
  <2>1. IsFiniteSet(1..Len(history))
    BY <1>2, FS_Interval
  <2> QED
    BY <1>5, <2>1, FS_Subset
<1> QED
  BY <1>1, <1>2, <1>3, <1>4, <1>5, <1>6

\* Older is a strict order on the messages.
LEMMA OlderFacts ==
    ASSUME request \in Requests, NEW i \in 1..Len(history), NEW j \in 1..Len(history), Older(i, j)
    PROVE  i # j
<1>1. history[i].at \in Nat /\ history[j].at \in Nat /\ i \in Nat /\ j \in Nat
  BY RequestFacts
<1> QED
  BY <1>1 DEF Older

\* The next row is the newest of those that were not read.
LEMMA CandidateFacts ==
    ASSUME request \in Requests, Eligible \ seen # {}
    PROVE  /\ Candidate \in Eligible \ seen
           /\ \A j \in Eligible \ seen : j = Candidate \/ Older(j, Candidate)
<1> DEFINE S == Eligible \ seen
           b == history[trigger].at
           T == {history[i].at : i \in S}
           U == {i \in S : history[i].at = Max(T)}
<1>1. /\ trigger \in 1..Len(history) /\ Len(history) \in Nat
      /\ \A i \in 1..Len(history) : history[i].at \in Nat
      /\ Eligible \in SUBSET (1..Len(history))
  BY RequestFacts
<1>2. b \in Nat /\ \A i \in S : history[i].at \in Nat /\ history[i].at <= b /\ i \in 1..Len(history)
  <2>1. \A i \in S : history[i].at <= b
    BY DEF Eligible
  <2> QED
    BY <1>1, <2>1
<1>3. T \in SUBSET (0..b) /\ T # {}
  BY <1>2
<1>4. Max(T) \in T /\ \A m \in T : m <= Max(T)
  <2> HIDE DEF T, b
  <2>1. b \in Nat
    BY <1>2
  <2> QED
    BY <1>3, <2>1, MaxFacts
<1>5. U \in SUBSET (0..Len(history)) /\ U # {}
  <2>1. U # {}
    BY <1>4
  <2>2. U \in SUBSET S /\ \A i \in S : i \in 0..Len(history)
    BY <1>1, <1>2
  <2> QED
    BY <2>1, <2>2
<1>6. Max(U) \in U /\ \A m \in U : m <= Max(U)
  <2> HIDE DEF U
  <2> QED
    BY <1>1, <1>5, MaxFacts
<1> DEFINE c == Max(U)
<1>7. c \in S /\ history[c].at = Max(T)
  BY <1>6
<1>8. ASSUME NEW j \in S PROVE j = c \/ Older(j, c)
  <2>1. history[j].at \in T /\ history[j].at <= Max(T)
    BY <1>4
  <2>2. history[j].at \in Nat /\ history[c].at \in Nat /\ j \in Nat /\ c \in Nat
    <3> HIDE DEF S, c
    <3>1. j \in 1..Len(history) /\ c \in 1..Len(history)
      BY <1>2, <1>7
    <3> QED
      BY <1>2, <1>7, <3>1
  <2>3. CASE history[j].at = Max(T)
    <3>1. j \in U /\ j <= c
      BY <1>6, <2>3
    <3> QED
      BY <1>7, <2>2, <2>3, <3>1 DEF Older
  <2>4. CASE history[j].at # Max(T)
    <3>1. history[j].at < history[c].at
      BY <1>7, <2>1, <2>2, <2>4
    <3> QED
      BY <3>1 DEF Older
  <2> QED
    BY <2>3, <2>4
<1> HIDE DEF c
<1>9. \E i \in S : \A j \in S : j = i \/ Older(j, i)
  BY <1>7, <1>8
<1>10. /\ Candidate \in S
       /\ \A j \in S : j = Candidate \/ Older(j, Candidate)
  BY <1>9, Zenon DEF Candidate
<1> QED
  BY <1>10

\* What is derived from the request does not change with it.
LEMMA RequestUnchanged ==
    ASSUME UNCHANGED request
    PROVE  /\ history' = history /\ trigger' = trigger /\ results' = results
           /\ Eligible' = Eligible /\ trigger_context' = trigger_context
           /\ \A i, j : Older(i, j)' <=> Older(i, j)
<1>1. history' = history /\ trigger' = trigger /\ results' = results
  BY DEF history, trigger, results
<1>2. Eligible' = Eligible
  BY <1>1 DEF Eligible, normalized_role
<1>3. trigger_context' = trigger_context
  BY <1>1 DEF trigger_context, bounded_message, normalized_role, Smaller
<1>4. \A i, j : Older(i, j)' <=> Older(i, j)
  BY <1>1, Zenon DEF Older
<1> QED
  BY <1>1, <1>2, <1>3, <1>4

\* The trigger is eligible, and its copy is cut to the limit of characters.
LEMMA TriggerFacts ==
    ASSUME request \in Requests
    PROVE  /\ trigger_context \in ContextMessages
           /\ trigger_context.id = trigger /\ trigger_context.length <= MaxCharacters
           /\ trigger_context.length <= history[trigger].length
           /\ trigger_context.truncated <=> trigger_context.length < history[trigger].length
           /\ validate_trigger_message(history[trigger]) => /\ trigger_context.role = "user"
                                                            /\ trigger \in Eligible
                                                            /\ trigger_context.length > 0
<1>1. /\ trigger \in 1..Len(history) /\ history[trigger].length \in Nat /\ trigger \in Nat
      /\ DOMAIN history = 1..Len(history) /\ history[trigger].at \in Nat
  BY RequestFacts
<1>2. MaxCharacters \in Nat \ {0}
  BY ContextAssumption
<1>3. normalized_role(history[trigger]) \in {"user", "assistant", "none"}
  BY DEF normalized_role
<1>4. /\ trigger_context = [id |-> trigger, role |-> normalized_role(history[trigger]),
                            length |-> Smaller(history[trigger].length, MaxCharacters),
                            truncated |-> history[trigger].length > MaxCharacters]
  BY DEF trigger_context, bounded_message
<1> DEFINE s == Smaller(history[trigger].length, MaxCharacters)
<1>5. /\ s \in Nat /\ s <= MaxCharacters /\ s <= history[trigger].length
      /\ history[trigger].length > MaxCharacters <=> s < history[trigger].length
      /\ history[trigger].length > 0 => s > 0
  BY <1>1, <1>2 DEF Smaller
<1> HIDE DEF s
<1>6. /\ trigger_context.id = trigger /\ trigger_context.length = s
      /\ trigger_context.role = normalized_role(history[trigger])
      /\ trigger_context.truncated = (history[trigger].length > MaxCharacters)
  BY <1>4 DEF s
<1>7. trigger_context \in ContextMessages
  BY <1>1, <1>3, <1>4, <1>5 DEF ContextMessages, s
<1>8. ASSUME validate_trigger_message(history[trigger])
      PROVE  trigger_context.role = "user" /\ trigger \in Eligible /\ trigger_context.length > 0
  <2>1. history[trigger].kind = "customer" /\ history[trigger].length > 0
    BY <1>8 DEF validate_trigger_message
  <2>2. normalized_role(history[trigger]) = "user"
    BY <2>1 DEF normalized_role
  <2>3. trigger \in Eligible
    BY <1>1, <2>2 DEF Eligible
  <2> QED
    BY <1>5, <1>6, <2>1, <2>2, <2>3
<1> QED
  BY <1>5, <1>6, <1>7, <1>8

\* The lengths of the kept messages are a sequence of numbers.
LEMMA LengthsFacts ==
    ASSUME NEW q \in Seq(ContextMessages), NEW s, s = [k \in DOMAIN q |-> q[k].length]
    PROVE  /\ s \in Seq(Nat) /\ Len(s) = Len(q)
           /\ \A k \in 1..Len(q) : s[k] = q[k].length /\ q[k].length \in Nat
<1>1. Len(q) \in Nat /\ DOMAIN q = 1..Len(q)
  OBVIOUS
<1>2. ASSUME NEW k \in 1..Len(q) PROVE q[k].length \in Nat
  <2>1. q[k] \in ContextMessages
    BY ElementOfSeq, Zenon
  <2> QED
    BY <2>1 DEF ContextMessages
<1>3. s \in [1..Len(q) -> Nat] /\ \A k \in 1..Len(q) : s[k] = q[k].length
  BY <1>1, <1>2
<1>4. s \in Seq(Nat) /\ Len(s) = Len(q)
  BY <1>1, <1>3, FunctionIsSeq, Zenon
<1> QED
  BY <1>2, <1>3, <1>4, Zenon

\* The sizes the kept messages add up to, when one is put in front.
LEMMA SpentPrepends ==
    ASSUME NEW q \in Seq(ContextMessages), NEW x \in ContextMessages
    PROVE  /\ <<x>> \o q \in Seq(ContextMessages) /\ Len(<<x>> \o q) = Len(q) + 1
           /\ (<<x>> \o q)[1] = x /\ \A k \in 1..Len(q) : (<<x>> \o q)[k + 1] = q[k]
           /\ Total([k \in DOMAIN (<<x>> \o q) |-> (<<x>> \o q)[k].length])
                 = Total([k \in DOMAIN q |-> q[k].length]) + x.length
           /\ Total([k \in DOMAIN q |-> q[k].length]) \in Nat
<1> DEFINE r == <<x>> \o q
           s == [k \in DOMAIN q |-> q[k].length]
           t == [k \in DOMAIN r |-> r[k].length]
<1>1. /\ r \in Seq(ContextMessages) /\ Len(r) = Len(q) + 1 /\ Len(q) \in Nat
      /\ r[1] = x /\ \A k \in 1..Len(q) : r[k + 1] = q[k]
  <2>1. <<x>> \in Seq(ContextMessages) /\ Len(<<x>>) = 1 /\ <<x>>[1] = x
    OBVIOUS
  <2>2. r \in Seq(ContextMessages) /\ Len(r) = Len(q) + 1 /\ Len(q) \in Nat
    BY <2>1, ConcatProperties
  <2>3. r[1] = x
    BY <2>1
  <2>4. \A k \in 1..Len(q) : r[k + 1] = q[k]
    BY <2>1
  <2> QED
    BY <2>2, <2>3, <2>4
<1>2. x.length \in Nat
  BY DEF ContextMessages
<1> HIDE DEF r
<1>4. DOMAIN r = 1..Len(r) /\ DOMAIN q = 1..Len(q) /\ Len(r) \in Nat
  BY <1>1
<1> HIDE DEF s, t
<1>5. /\ s \in Seq(Nat) /\ Len(s) = Len(q)
      /\ \A k \in 1..Len(q) : s[k] = q[k].length /\ q[k].length \in Nat
  BY LengthsFacts, Zenon DEF s
<1>6. /\ t \in Seq(Nat) /\ Len(t) = Len(r)
      /\ \A k \in 1..Len(r) : t[k] = r[k].length /\ r[k].length \in Nat
  BY <1>1, LengthsFacts, Zenon DEF t
<1>7. s \in Seq(Nat) /\ t \in Seq(Nat) /\ Len(s) = Len(q) /\ Len(t) = Len(r)
  BY <1>5, <1>6
<1>8. \A n \in 1..Len(s) : t[1 + n] = s[n]
  <2> SUFFICES ASSUME NEW n \in 1..Len(s) PROVE t[1 + n] = s[n]
    OBVIOUS
  <2>1. n \in 1..Len(q) /\ n + 1 \in 1..Len(r) /\ 1 + n = n + 1
    BY <1>1, <1>7
  <2> QED
    BY <1>1, <1>5, <1>6, <2>1
<1>9. SumTo(t, 1 + Len(s)) = SumTo(t, 1) + SumTo(s, Len(s))
  <2>1. Len(s) \in 0..Len(s) /\ 1 + Len(s) <= Len(t) /\ 1 \in Nat
    BY <1>1, <1>7
  <2> QED
    BY <1>7, <1>8, <2>1, SumShift
<1>10. SumTo(t, 1) = x.length
  <2>1. 1 \in 1..Len(t) /\ 1 - 1 = 0
    BY <1>1, <1>7
  <2>2. SumTo(t, 0) = 0 /\ SumTo(t, 1) = SumTo(t, 1 - 1) + t[1]
    BY <1>7, <2>1, SumFacts
  <2>3. t[1] = x.length
    BY <1>1, <1>6, <1>7, <2>1
  <2> QED
    BY <1>2, <2>1, <2>2, <2>3
<1>11. SumTo(s, Len(s)) \in Nat
  <2>1. Len(s) \in 0..Len(s)
    BY <1>1, <1>7
  <2> QED
    BY <1>7, <2>1, SumFacts
<1>12. Total(s) = SumTo(s, Len(s)) /\ Total(t) = SumTo(t, 1 + Len(s))
  <2>1. Len(t) = 1 + Len(s)
    BY <1>1, <1>7
  <2> QED
    BY <2>1 DEF Total
<1>13. Total(t) = Total(s) + x.length /\ Total(s) \in Nat
  BY <1>2, <1>9, <1>10, <1>11, <1>12
<1> QED
  BY <1>1, <1>13, Zenon DEF r, s, t

\* The same when one is put behind.
LEMMA SpentAppends ==
    ASSUME NEW q \in Seq(ContextMessages), NEW x \in ContextMessages
    PROVE  Total([k \in DOMAIN Append(q, x) |-> Append(q, x)[k].length])
              = Total([k \in DOMAIN q |-> q[k].length]) + x.length
<1> DEFINE r == Append(q, x)
           s == [k \in DOMAIN q |-> q[k].length]
           t == [k \in DOMAIN r |-> r[k].length]
<1>1. /\ r \in Seq(ContextMessages) /\ Len(r) = Len(q) + 1 /\ Len(q) \in Nat
      /\ r[Len(q) + 1] = x /\ \A k \in 1..Len(q) : r[k] = q[k]
  OBVIOUS
<1>2. x.length \in Nat
  BY DEF ContextMessages
<1> HIDE DEF r
<1>4. DOMAIN r = 1..Len(r) /\ DOMAIN q = 1..Len(q) /\ Len(r) \in Nat
  BY <1>1
<1> HIDE DEF s, t
<1>5. /\ s \in Seq(Nat) /\ Len(s) = Len(q)
      /\ \A k \in 1..Len(q) : s[k] = q[k].length /\ q[k].length \in Nat
  BY LengthsFacts, Zenon DEF s
<1>6. /\ t \in Seq(Nat) /\ Len(t) = Len(r)
      /\ \A k \in 1..Len(r) : t[k] = r[k].length /\ r[k].length \in Nat
  BY <1>1, LengthsFacts, Zenon DEF t
<1>7. s \in Seq(Nat) /\ t \in Seq(Nat) /\ Len(s) = Len(q) /\ Len(t) = Len(r)
  BY <1>5, <1>6
<1>8. \A n \in 1..Len(s) : t[0 + n] = s[n]
  <2> SUFFICES ASSUME NEW n \in 1..Len(s) PROVE t[0 + n] = s[n]
    OBVIOUS
  <2>1. n \in 1..Len(q) /\ n \in 1..Len(r) /\ 0 + n = n
    BY <1>1, <1>7
  <2> QED
    BY <1>1, <1>5, <1>6, <2>1
<1>9. SumTo(t, 0 + Len(s)) = SumTo(t, 0) + SumTo(s, Len(s))
  <2>1. Len(s) \in 0..Len(s) /\ 0 + Len(s) <= Len(t) /\ 0 \in Nat
    BY <1>1, <1>7
  <2> QED
    BY <1>7, <1>8, <2>1, SumShift
<1>10. SumTo(t, 0) = 0 /\ SumTo(s, Len(s)) \in Nat /\ SumTo(t, Len(t)) = SumTo(t, Len(t) - 1) + t[Len(t)]
  <2>1. Len(s) \in 0..Len(s) /\ Len(t) \in 1..Len(t)
    BY <1>1, <1>7
  <2> QED
    BY <1>7, <2>1, SumFacts
<1>11. Len(t) - 1 = 0 + Len(s) /\ t[Len(t)] = x.length
  <2>1. Len(t) \in 1..Len(r) /\ Len(t) = Len(q) + 1 /\ Len(t) - 1 = 0 + Len(s)
    BY <1>1, <1>7
  <2> QED
    BY <1>1, <1>5, <1>6, <2>1
<1>12. SumTo(t, Len(t)) = SumTo(s, Len(s)) + x.length
  BY <1>2, <1>9, <1>10, <1>11
<1> QED
  BY <1>12, Zenon DEF r, s, t, Total

\* The invariant of the selection is about the rows read and the messages retained.
LEMMA SelectUnchanged ==
    ASSUME SelectInv, UNCHANGED <<request, seen, retained, remaining>>,
           phase' = "validate" => phase = "validate", Accepted' => Accepted
    PROVE  SelectInv'
<1> USE DEF SelectInv
<1>0. /\ history' = history /\ trigger' = trigger
      /\ Eligible' = Eligible /\ trigger_context' = trigger_context
      /\ \A i, j : Older(i, j)' <=> Older(i, j)
      /\ seen' = seen /\ retained' = retained /\ remaining' = remaining
  BY RequestUnchanged
<1>1. Budget'
  <2>1. Spent' = Spent
    BY <1>0 DEF Spent
  <2>2. validate_trigger_message(history[trigger])' <=> validate_trigger_message(history[trigger])
    BY <1>0 DEF validate_trigger_message
  <2> QED
    BY <1>0, <2>1, <2>2, Zenon DEF Budget
<1>2. NewestSeen'
  BY <1>0, Zenon DEF NewestSeen
<1>3. RetainedFit'
  BY <1>0, Zenon DEF RetainedFit
<1>4. RetainedInOrder'
  BY <1>0 DEF RetainedInOrder, Older
<1>5. TextRetained'
  BY <1>0, Zenon DEF TextRetained
<1>6. SelectBounds'
  BY <1>0, Zenon DEF SelectBounds
<1> QED
  BY <1>1, <1>2, <1>3, <1>4, <1>5, <1>6

\* The invariant of the retrieval is about the references it has built.
LEMMA KnowledgeUnchanged ==
    ASSUME KnowledgeInv, UNCHANGED <<request, rank, references, left, cut>>,
           phase' = "done" => phase = "done" /\ knowledge' = knowledge
    PROVE  KnowledgeInv'
<1> USE DEF KnowledgeInv
<1>0. /\ results' = results /\ rank' = rank /\ references' = references /\ left' = left /\ cut' = cut
  BY RequestUnchanged
<1>1. ReferencesFit'
  BY <1>0 DEF ReferencesFit
<1>2. QuotedSize'
  <2>1. Quoted' = Quoted /\ Sizes' = Sizes
    BY <1>0 DEF Quoted, Sizes
  <2> QED
    BY <1>0, <2>1 DEF QuotedSize
<1> QED
  BY <1>0, <1>1, <1>2

\* The types are kept by a step that only moves to another phase.
LEMMA TypesUnchanged ==
    ASSUME ContextTypeOK, UNCHANGED <<request, seen, retained, remaining, rank, references, left, cut>>,
           phase' \in {"validate", "select", "retrieve", "done", "refused"}
    PROVE  ContextTypeOK'
<1>1. Eligible' = Eligible /\ results' = results
  BY RequestUnchanged
<1> QED
  BY <1>1 DEF ContextTypeOK

\* Accepting or refusing the trigger (validate_trigger_message) keeps the invariant.
LEMMA BeginContext ==
    ASSUME ContextInv, begin_context
    PROVE  ContextInv'
<1>1. /\ phase = "validate" /\ phase' \in {"select", "refused"}
      /\ phase' = "select" => validate_trigger_message(history[trigger])
      /\ remaining' = MaxCharacters - trigger_context.length
      /\ UNCHANGED <<request, seen, retained, rank, references, left, cut, context, knowledge, llm>>
  BY DEF begin_context
<1>2. ContextTypeOK /\ SelectInv /\ ReturnInv /\ KnowledgeInv /\ request \in Requests
  BY DEF ContextInv, ContextTypeOK
<1>3. retained = <<>> /\ seen = {}
  BY <1>1, <1>2 DEF SelectInv, Budget
<1>4. /\ history' = history /\ trigger' = trigger
      /\ Eligible' = Eligible /\ trigger_context' = trigger_context /\ results' = results
  BY <1>1, RequestUnchanged
<1>5. /\ trigger_context.length \in Nat /\ trigger_context.length <= MaxCharacters
      /\ MaxCharacters \in Nat /\ MaxMessages \in Nat \ {0}
  BY <1>2, TriggerFacts, ContextAssumption DEF ContextMessages
<1>6. remaining' \in Nat /\ remaining' + trigger_context.length = MaxCharacters
  BY <1>1, <1>5
<1>7. Spent' = 0
  <2>1. retained' = <<>>
    BY <1>1, <1>3
  <2> DEFINE s == [k \in DOMAIN retained' |-> retained'[k].length]
  <2>2. s \in Seq(Nat) /\ Len(s) = 0
    BY <2>1
  <2> HIDE DEF s
  <2>3. Total(s) = 0
    BY <2>2, SumFacts DEF Total
  <2> QED
    BY <2>3 DEF Spent, s
<1>8. ContextTypeOK'
  BY <1>1, <1>2, <1>4, <1>6 DEF ContextTypeOK
<1>9. retained' = <<>> /\ seen' = {} /\ 1..Len(retained') = {} /\ Cardinality(seen') = 0 /\ Len(retained') = 0
  BY <1>1, <1>3, FS_EmptySet
<1>10. Budget'
  <2>1. phase' = "select" => validate_trigger_message(history[trigger])'
    BY <1>1, <1>4 DEF validate_trigger_message
  <2>2. Spent' + remaining' + trigger_context' .length = MaxCharacters
    BY <1>4, <1>6, <1>7
  <2>3. phase' # "validate" /\ (Accepted' => phase' = "select")
    BY <1>1 DEF Accepted
  <2> QED
    BY <2>1, <2>2, <2>3 DEF Budget
<1>11. NewestSeen' /\ RetainedFit' /\ RetainedInOrder' /\ TextRetained'
  BY <1>9, Zenon DEF NewestSeen, RetainedFit, RetainedInOrder, TextRetained
<1>12. SelectBounds'
  BY <1>5, <1>9 DEF SelectBounds
<1>13. ReturnInv'
  BY <1>1 DEF ReturnInv
<1>14. KnowledgeInv'
  BY <1>1, <1>2, KnowledgeUnchanged
<1> QED
  BY <1>8, <1>10, <1>11, <1>12, <1>13, <1>14 DEF ContextInv, SelectInv

\* One more row was read.
LEMMA SeenGrows ==
    ASSUME ContextTypeOK, SelectInv, HasCandidate, UNCHANGED request, seen' = seen \cup {Candidate}
    PROVE  /\ Candidate \in Eligible \ seen /\ seen' \in SUBSET Eligible
           /\ NewestSeen' /\ Cardinality(seen') <= MaxMessages
           /\ \A j \in seen : Older(Candidate, j)
<1>1. Eligible \ seen # {} /\ Cardinality(seen) < MaxMessages
  BY DEF HasCandidate
<1>2. request \in Requests /\ seen \in SUBSET Eligible
  BY DEF ContextTypeOK
<1>3. /\ Candidate \in Eligible \ seen
      /\ \A j \in Eligible \ seen : j = Candidate \/ Older(j, Candidate)
  BY <1>1, <1>2, CandidateFacts
<1>4. Eligible' = Eligible /\ \A i, j : Older(i, j)' <=> Older(i, j)
  BY RequestUnchanged
<1>5. \A i \in Eligible \ seen, j \in seen : Older(i, j)
  BY DEF SelectInv, NewestSeen
<1>6. \A i \in Eligible \ seen', j \in seen' : Older(i, j)
  BY <1>3, <1>5
<1>7. NewestSeen'
  BY <1>4, <1>6, Zenon DEF NewestSeen
<1>8. Cardinality(seen') <= MaxMessages
  <2>1. IsFiniteSet(seen)
    BY <1>2, RequestFacts, FS_Subset
  <2>2. Cardinality(seen') = Cardinality(seen) + 1 /\ Cardinality(seen) \in Nat
    BY <1>3, <2>1, FS_AddElement, FS_CardinalityType
  <2> QED
    BY <1>1, <2>2, ContextAssumption
<1> QED
  BY <1>2, <1>3, <1>5, <1>7, <1>8

\* Passing over the trigger or a message without text keeps the invariant.
LEMMA SkipMessage ==
    ASSUME ContextInv, skip_message
    PROVE  ContextInv'
<1>1. /\ phase = "select" /\ HasCandidate /\ phase' = "select"
      /\ Candidate = trigger \/ history[Candidate].length = 0
      /\ seen' = seen \cup {Candidate}
      /\ UNCHANGED <<request, phase, retained, remaining, rank, references, left, cut, context, knowledge, llm>>
  BY DEF skip_message
<1>2. ContextTypeOK /\ SelectInv /\ ReturnInv /\ KnowledgeInv /\ request \in Requests
  BY DEF ContextInv, ContextTypeOK
<1>3. /\ Candidate \in Eligible \ seen /\ seen' \in SUBSET Eligible
      /\ NewestSeen' /\ Cardinality(seen') <= MaxMessages
  BY <1>1, <1>2, SeenGrows
<1>4. /\ history' = history /\ trigger' = trigger /\ results' = results
      /\ Eligible' = Eligible /\ trigger_context' = trigger_context
      /\ \A i, j : Older(i, j)' <=> Older(i, j)
  BY <1>1, RequestUnchanged
<1>5. ContextTypeOK'
  BY <1>1, <1>2, <1>3, <1>4 DEF ContextTypeOK
<1>6. Budget'
  <2>1. Spent' = Spent
    BY <1>1 DEF Spent
  <2>2. validate_trigger_message(history[trigger])' <=> validate_trigger_message(history[trigger])
    BY <1>4 DEF validate_trigger_message
  <2>3. Accepted /\ phase' # "validate"
    BY <1>1 DEF Accepted
  <2> QED
    BY <1>1, <1>2, <1>4, <2>1, <2>2, <2>3, Zenon DEF SelectInv, Budget
<1>7. RetainedFit'
  <2>1. seen \subseteq seen'
    BY <1>1
  <2> QED
    BY <1>1, <1>2, <1>4, <2>1, Zenon DEF SelectInv, RetainedFit
<1>8. RetainedInOrder'
  BY <1>1, <1>2, <1>4 DEF SelectInv, RetainedInOrder, Older
<1>9. TextRetained'
  <2>1. ~ (0 > 0)
    OBVIOUS
  <2>2. \A i \in seen' \ {trigger} : history[i].length > 0 => \E k \in 1..Len(retained) : retained[k].id = i
    BY <1>1, <1>2, <2>1, Zenon DEF SelectInv, TextRetained
  <2> QED
    BY <1>1, <1>4, <2>2, Zenon DEF TextRetained
<1>10. SelectBounds'
  BY <1>1, <1>2, <1>3 DEF SelectInv, SelectBounds
<1>11. ReturnInv'
  BY <1>1 DEF ReturnInv
<1>12. KnowledgeInv'
  BY <1>1, <1>2, KnowledgeUnchanged
<1> QED
  BY <1>3, <1>5, <1>6, <1>7, <1>8, <1>9, <1>10, <1>11, <1>12 DEF ContextInv, SelectInv

\* Retaining the next message, whole or cut to what remains, keeps the invariant.
LEMMA RetainMessage ==
    ASSUME ContextInv, retain_message
    PROVE  ContextInv'
<1> DEFINE c == Candidate
           x == bounded_message(c, remaining)
           n == Len(retained)
<1>1. /\ phase = "select" /\ HasCandidate /\ phase' = "select"
      /\ c # trigger /\ ~Exhausted /\ history[c].length > 0
      /\ seen' = seen \cup {c}
      /\ retained' = <<x>> \o retained
      /\ remaining' = remaining - x.length
      /\ UNCHANGED <<request, phase, rank, references, left, cut, context, knowledge, llm>>
  BY DEF retain_message
<1>2. ContextTypeOK /\ SelectInv /\ ReturnInv /\ KnowledgeInv /\ request \in Requests
  BY DEF ContextInv, ContextTypeOK
<1>3. /\ c \in Eligible \ seen /\ seen' \in SUBSET Eligible
      /\ NewestSeen' /\ Cardinality(seen') <= MaxMessages
      /\ \A j \in seen : Older(c, j)
  BY <1>1, <1>2, SeenGrows
<1>4. /\ history' = history /\ trigger' = trigger /\ results' = results
      /\ Eligible' = Eligible /\ trigger_context' = trigger_context
      /\ \A i, j : Older(i, j)' <=> Older(i, j)
  BY <1>1, RequestUnchanged
<1>5. /\ c \in 1..Len(history) /\ history[c].length \in Nat /\ c \in Nat
  BY <1>2, <1>3, RequestFacts
<1> HIDE DEF c
<1>6. /\ remaining \in Nat /\ remaining > 0 /\ n \in Nat /\ n < MaxMessages - 1 /\ MaxMessages \in Nat
      /\ retained \in Seq(ContextMessages)
  BY <1>1, <1>2, ContextAssumption DEF ContextTypeOK, Exhausted
<1>7. /\ x \in ContextMessages /\ x.id = c /\ x.length \in Nat
      /\ x.length <= history[c].length /\ x.length <= remaining
      /\ x.truncated <=> x.length < history[c].length
      /\ x.truncated => x.length = remaining
  <2> DEFINE s == Smaller(history[c].length, remaining)
  <2>1. normalized_role(history[c]) \in {"user", "assistant", "none"}
    BY DEF normalized_role
  <2>2. /\ s \in Nat /\ s <= remaining /\ s <= history[c].length
        /\ history[c].length > remaining <=> s < history[c].length
        /\ history[c].length > remaining => s = remaining
    BY <1>5, <1>6 DEF Smaller
  <2> HIDE DEF s
  <2>3. x = [id |-> c, role |-> normalized_role(history[c]), length |-> s,
             truncated |-> history[c].length > remaining]
    BY DEF bounded_message, s
  <2>4. x.id = c /\ x.length = s /\ x.truncated = (history[c].length > remaining)
    BY <2>3
  <2>5. x \in ContextMessages
    BY <1>5, <2>1, <2>2, <2>3 DEF ContextMessages
  <2> HIDE DEF x
  <2> QED
    BY <2>2, <2>4, <2>5
<1> HIDE DEF x
<1>8. remaining' \in Nat /\ remaining' + x.length = remaining /\ (x.truncated => remaining' = 0)
  BY <1>1, <1>6, <1>7
<1>9. /\ retained' \in Seq(ContextMessages) /\ Len(retained') = n + 1
      /\ retained'[1] = x /\ \A k \in 1..n : retained'[k + 1] = retained[k]
      /\ Spent' = Spent + x.length /\ Spent \in Nat
  <2> DEFINE joined == <<x>> \o retained
  <2>1. /\ joined \in Seq(ContextMessages) /\ Len(joined) = n + 1
        /\ joined[1] = x /\ \A k \in 1..n : joined[k + 1] = retained[k]
        /\ Total([k \in DOMAIN joined |-> joined[k].length])
              = Total([k \in DOMAIN retained |-> retained[k].length]) + x.length
        /\ Total([k \in DOMAIN retained |-> retained[k].length]) \in Nat
    BY <1>6, <1>7, SpentPrepends
  <2>2. retained' = joined
    BY <1>1
  <2> HIDE DEF joined
  <2>3. Spent' = Spent + x.length /\ Spent \in Nat
    BY <2>1, <2>2 DEF Spent
  <2> QED
    BY <2>1, <2>2, <2>3
<1>10. ASSUME NEW k \in 1..Len(retained')
       PROVE  \/ k = 1 /\ retained'[k] = x
              \/ k > 1 /\ k - 1 \in 1..n /\ retained'[k] = retained[k - 1]
  <2>1. k = 1 \/ (k > 1 /\ k - 1 \in 1..n /\ (k - 1) + 1 = k)
    BY <1>6, <1>9
  <2> QED
    BY <1>9, <2>1
<1>11. ContextTypeOK'
  BY <1>1, <1>2, <1>3, <1>4, <1>8, <1>9 DEF ContextTypeOK
<1>12. Budget'
  <2>1. validate_trigger_message(history[trigger])' <=> validate_trigger_message(history[trigger])
    BY <1>4 DEF validate_trigger_message
  <2>2. Accepted /\ phase' # "validate"
    BY <1>1 DEF Accepted
  <2>3. validate_trigger_message(history[trigger]) /\ Spent + remaining + trigger_context.length = MaxCharacters
    BY <1>2, <2>2 DEF SelectInv, Budget
  <2>4. trigger_context.length \in Nat
    BY <1>2, TriggerFacts DEF ContextMessages
  <2>5. Spent' + remaining' + trigger_context.length = MaxCharacters
    <3>1. \A q, r, t \in Nat : (t + r) + q = t + (q + r)
      OBVIOUS
    <3>2. (Spent + x.length) + remaining' + trigger_context.length = Spent + remaining + trigger_context.length
      <4>1. remaining' \in Nat /\ x.length \in Nat /\ Spent \in Nat
        BY <1>7, <1>8, <1>9
      <4>2. (Spent + x.length) + remaining' = Spent + (remaining' + x.length)
        BY <3>1, <4>1, Zenon
      <4> QED
        BY <1>8, <4>2, Zenon
    <3> QED
      BY <1>9, <2>3, <3>2
  <2> QED
    BY <1>4, <2>1, <2>2, <2>3, <2>5 DEF Budget
<1>13. \A k \in 1..n :
          /\ retained[k].id \in seen \ {trigger}
          /\ retained[k].length <= history[retained[k].id].length
          /\ retained[k].truncated <=> retained[k].length < history[retained[k].id].length
          /\ ~retained[k].truncated
  <2>1. remaining # 0
    BY <1>6
  <2> QED
    BY <1>2, <2>1, Zenon DEF SelectInv, RetainedFit
<1>14. RetainedFit'
  <2> SUFFICES ASSUME NEW k \in 1..Len(retained')
               PROVE  /\ retained'[k].id \in seen' \ {trigger}
                      /\ retained'[k].length <= history[retained'[k].id].length
                      /\ retained'[k].truncated <=> retained'[k].length < history[retained'[k].id].length
                      /\ retained'[k].truncated => k = 1 /\ remaining' = 0
    BY <1>4, Zenon DEF RetainedFit
  <2>1. CASE k = 1 /\ retained'[k] = x
    BY <1>1, <1>7, <1>8, <2>1
  <2>2. CASE k > 1 /\ k - 1 \in 1..n /\ retained'[k] = retained[k - 1]
    BY <1>1, <1>13, <2>2
  <2> QED
    BY <1>10, <2>1, <2>2
<1>15. RetainedInOrder'
  <2> SUFFICES ASSUME NEW a \in 1..Len(retained'), NEW b \in 1..Len(retained'), a < b
               PROVE  Older(retained'[a].id, retained'[b].id)
    BY <1>4 DEF RetainedInOrder, Older
  <2>1. b > 1 /\ b - 1 \in 1..n /\ retained'[b] = retained[b - 1]
    BY <1>6, <1>9, <1>10
  <2>2. CASE a = 1 /\ retained'[a] = x
    <3>1. retained[b - 1].id \in seen
      BY <1>13, <2>1
    <3>2. Older(c, retained[b - 1].id)
      BY <1>3, <3>1
    <3> QED
      BY <1>7, <2>1, <2>2, <3>2
  <2>3. CASE a > 1 /\ a - 1 \in 1..n /\ retained'[a] = retained[a - 1]
    <3>1. a - 1 < b - 1
      BY <1>6, <1>9
    <3>2. Older(retained[a - 1].id, retained[b - 1].id)
      BY <1>2, <2>1, <2>3, <3>1 DEF SelectInv, RetainedInOrder
    <3> QED
      BY <2>1, <2>3, <3>2
  <2> QED
    BY <1>10, <2>2, <2>3
<1>16. TextRetained'
  <2> SUFFICES ASSUME NEW i \in seen' \ {trigger}, history[i].length > 0
               PROVE  \E k \in 1..Len(retained') : retained'[k].id = i
    BY <1>4, Zenon DEF TextRetained
  <2>1. CASE i = c
    <3>1. 1 \in 1..Len(retained')
      BY <1>6, <1>9
    <3> QED
      BY <1>7, <1>9, <2>1, <3>1
  <2>2. CASE i \in seen
    <3>1. PICK k \in 1..n : retained[k].id = i
      BY <1>2, <2>2 DEF SelectInv, TextRetained
    <3>2. k + 1 \in 1..Len(retained') /\ retained'[k + 1].id = i
      BY <1>6, <1>9, <3>1
    <3> QED
      BY <3>2, Zenon
  <2> QED
    BY <1>1, <2>1, <2>2
<1>17. SelectBounds'
  BY <1>3, <1>6, <1>9 DEF SelectBounds
<1>18. ReturnInv'
  BY <1>1 DEF ReturnInv
<1>19. KnowledgeInv'
  BY <1>1, <1>2, KnowledgeUnchanged
<1> QED
  BY <1>3, <1>11, <1>12, <1>14, <1>15, <1>16, <1>17, <1>18, <1>19 DEF ContextInv, SelectInv

\* Returning the context keeps the invariant: it is full, or every row was read.
LEMMA EndContext ==
    ASSUME ContextInv, end_context
    PROVE  ContextInv'
<1> DEFINE messages == Append(retained, trigger_context)
<1>1. /\ phase = "select" /\ phase' = "retrieve"
      /\ HasCandidate => Exhausted
      /\ context' = [messages  |-> messages,
                     truncated |-> \/ \E k \in DOMAIN messages : messages[k].truncated
                                   \/ Len(messages) < Cardinality(Eligible)]
      /\ UNCHANGED <<request, seen, retained, remaining, rank, references, left, cut, knowledge, llm>>
  BY DEF end_context
<1>2. ContextTypeOK /\ SelectInv /\ KnowledgeInv
  BY DEF ContextInv
<1>3. Full
  <2>1. remaining \in Nat /\ MaxMessages \in Nat
    BY <1>2, ContextAssumption DEF ContextTypeOK
  <2>2. Cardinality(seen) \in Nat
    <3>1. IsFiniteSet(seen)
      BY <1>2, RequestFacts, FS_Subset DEF ContextTypeOK
    <3> QED
      BY <3>1, FS_CardinalityType
  <2> SUFFICES ASSUME Eligible \ seen # {}, Cardinality(seen) < MaxMessages, remaining # 0
               PROVE  Len(retained) >= MaxMessages - 1
    BY <2>1, <2>2 DEF Full
  <2>3. HasCandidate
    BY DEF HasCandidate
  <2> QED
    BY <1>1, <2>1, <2>3 DEF Exhausted
<1>4. /\ Eligible' = Eligible /\ trigger_context' = trigger_context
  BY <1>1, RequestUnchanged
<1>5. Full'
  BY <1>1, <1>3, <1>4, Zenon DEF Full
<1>6. ReturnInv'
  BY <1>1, <1>4, <1>5 DEF ReturnInv
<1>7. SelectInv'
  BY <1>1, <1>2, SelectUnchanged DEF Accepted
<1>8. KnowledgeInv'
  BY <1>1, <1>2, KnowledgeUnchanged
<1>9. ContextTypeOK'
  BY <1>1, <1>2, TypesUnchanged
<1> QED
  BY <1>6, <1>7, <1>8, <1>9 DEF ContextInv

\* A sum with one more number.
LEMMA TotalAppends ==
    ASSUME NEW s \in Seq(Nat), NEW t \in Seq(Nat), Len(t) = Len(s) + 1,
           \A n \in 1..Len(s) : t[n] = s[n]
    PROVE  Total(t) = Total(s) + t[Len(t)] /\ Total(s) \in Nat
<1>1. Len(s) \in Nat /\ Len(s) \in 0..Len(s) /\ Len(t) \in 1..Len(t)
  OBVIOUS
<1>2. SumTo(t, 0 + Len(s)) = SumTo(t, 0) + SumTo(s, Len(s))
  <2>1. 0 + Len(s) <= Len(t) /\ \A n \in 1..Len(s) : t[0 + n] = s[n]
    BY <1>1
  <2>2. 0 \in Nat
    OBVIOUS
  <2> QED
    BY <1>1, <2>1, <2>2, SumShift
<1>3. SumTo(t, 0) = 0 /\ SumTo(s, Len(s)) \in Nat /\ SumTo(t, Len(t)) = SumTo(t, Len(t) - 1) + t[Len(t)]
  BY <1>1, SumFacts
<1>4. Len(t) - 1 = 0 + Len(s)
  BY <1>1
<1>5. SumTo(t, Len(t)) = SumTo(s, Len(s)) + t[Len(t)]
  BY <1>2, <1>3, <1>4
<1> QED
  BY <1>3, <1>5 DEF Total

\* The sizes of the results are a sequence of numbers.
LEMMA SizesFacts ==
    ASSUME request \in Requests
    PROVE  /\ Sizes \in Seq(Nat) /\ Len(Sizes) = Len(results)
           /\ \A k \in 1..Len(results) : /\ Sizes[k] = results[k].end - results[k].start
                                         /\ Sizes[k] \in Nat \ {0}
<1>1. /\ Len(results) \in Nat /\ DOMAIN results = 1..Len(results)
      /\ \A k \in 1..Len(results) : /\ results[k].start \in Nat /\ results[k].end \in Nat
                                    /\ results[k].start < results[k].end
  BY RequestFacts
<1>2. \A k \in 1..Len(results) : results[k].end - results[k].start \in Nat \ {0}
  BY <1>1
<1>3. Sizes \in [1..Len(results) -> Nat] /\ \A k \in 1..Len(results) : Sizes[k] = results[k].end - results[k].start
  BY <1>1, <1>2 DEF Sizes
<1>4. Sizes \in Seq(Nat) /\ Len(Sizes) = Len(results)
  BY <1>1, <1>3, FunctionIsSeq, Zenon
<1> QED
  BY <1>2, <1>3, <1>4

\* The sizes of references that are not empty.
LEMMA QuotedFacts ==
    ASSUME NEW q \in Seq(References), NEW s, s = [k \in DOMAIN q |-> q[k].read - q[k].start],
           \A k \in 1..Len(q) : q[k].start < q[k].read
    PROVE  /\ s \in Seq(Nat) /\ Len(s) = Len(q)
           /\ \A k \in 1..Len(q) : s[k] = q[k].read - q[k].start
<1>1. Len(q) \in Nat /\ DOMAIN q = 1..Len(q)
  OBVIOUS
<1>2. ASSUME NEW k \in 1..Len(q) PROVE q[k].read - q[k].start \in Nat
  <2>1. q[k] \in References
    BY ElementOfSeq, Zenon
  <2>2. q[k].start \in Nat /\ q[k].read \in Nat
    BY <2>1 DEF References
  <2> QED
    BY <2>2
<1>3. s \in [1..Len(q) -> Nat] /\ \A k \in 1..Len(q) : s[k] = q[k].read - q[k].start
  BY <1>1, <1>2
<1>4. s \in Seq(Nat) /\ Len(s) = Len(q)
  BY <1>1, <1>3, FunctionIsSeq, Zenon
<1> QED
  BY <1>3, <1>4, Zenon

\* Quoting the next result, whole or cut to what is left, keeps the invariant.
LEMMA ReadResult ==
    ASSUME ContextInv, read_result
    PROVE  ContextInv'
<1> DEFINE chunk == results[rank + 1]
           x == Cut(chunk, left)
           size == x.read - x.start
<1>1. /\ phase = "retrieve" /\ rank < Len(results) /\ ~cut /\ left > 0
      /\ references' = Append(references, x) /\ left' = left - size
      /\ cut' = (x.read < chunk.end) /\ rank' = rank + 1
      /\ UNCHANGED <<request, phase, seen, retained, remaining, context, knowledge, llm>>
  BY DEF read_result
<1>2. ContextTypeOK /\ SelectInv /\ ReturnInv /\ KnowledgeInv /\ request \in Requests
  BY DEF ContextInv, ContextTypeOK
<1>3. /\ Eligible' = Eligible /\ trigger_context' = trigger_context /\ results' = results
  BY <1>1, RequestUnchanged
<1>4. /\ rank \in Nat /\ Len(results) \in Nat /\ rank + 1 \in 1..Len(results) /\ left \in Nat
      /\ references \in Seq(References) /\ Len(references) = rank
  BY <1>1, <1>2, RequestFacts DEF ContextTypeOK
<1>5. /\ chunk.start \in Nat /\ chunk.end \in Nat /\ chunk.start < chunk.end
      /\ chunk.page_start \in Nat /\ chunk.page_end \in Nat
  <2>1. chunk \in Chunks
    BY <1>2, <1>4, RequestFacts
  <2> QED
    BY <1>2, <1>4, <2>1, RequestFacts DEF Chunks
<1> HIDE DEF chunk
<1>6. /\ x.start = chunk.start /\ x.read = Smaller(chunk.end, chunk.start + left) /\ x.end = x.read
      /\ x.page_start = chunk.page_start /\ x.page_end = chunk.page_end
  BY DEF Cut
<1>7. x = [start |-> x.start, read |-> x.read, end |-> x.end,
           page_start |-> x.page_start, page_end |-> x.page_end]
  BY DEF Cut
<1> HIDE DEF x
<1>8. /\ x.start \in Nat /\ x.read \in Nat /\ x.end \in Nat /\ x.start < x.read /\ x.read <= chunk.end
      /\ size \in Nat /\ size <= left
      /\ x.read < chunk.end => size = left /\ size < chunk.end - chunk.start
      /\ ~ (x.read < chunk.end) => size = chunk.end - chunk.start /\ x.end = chunk.end
  <2>1. /\ chunk.start \in Nat /\ chunk.end \in Nat /\ chunk.start < chunk.end
        /\ x.start = chunk.start /\ x.read = Smaller(chunk.end, chunk.start + left) /\ x.end = x.read
    BY <1>5, <1>6
  <2> QED
    BY <1>1, <1>4, <2>1 DEF Smaller
<1> HIDE DEF size
<1>9. x \in References
  <2>1. x.page_start \in Nat /\ x.page_end \in Nat
    BY <1>5, <1>6
  <2> QED
    BY <1>7, <1>8, <2>1 DEF References
<1>10. /\ references' \in Seq(References) /\ Len(references') = rank + 1
       /\ \A k \in 1..rank : references'[k] = references[k]
       /\ references'[rank + 1] = x
  BY <1>1, <1>4, <1>9
<1>11. /\ left' \in Nat /\ cut' \in BOOLEAN /\ rank' \in 0..Len(results) /\ left' + size = left
  BY <1>1, <1>4, <1>8
<1>12. ContextTypeOK'
  BY <1>1, <1>2, <1>3, <1>10, <1>11 DEF ContextTypeOK
<1>13. \A k \in 1..rank : /\ references[k].start = results[k].start /\ references[k].start < references[k].read
                          /\ references[k].end = references[k].read
                          /\ references[k].page_start = results[k].page_start /\ references[k].page_end = results[k].page_end
                          /\ references[k].end = results[k].end
  BY <1>1, <1>2, <1>4, Zenon DEF KnowledgeInv, ReferencesFit
<1>14. ASSUME NEW k \in 1..Len(references')
       PROVE  \/ k \in 1..rank /\ references'[k] = references[k]
              \/ k = rank + 1 /\ references'[k] = x
  <2>1. k \in 1..rank \/ k = rank + 1
    BY <1>4, <1>10
  <2> QED
    BY <1>10, <2>1
<1>15. ReferencesFit'
  <2> SUFFICES ASSUME NEW k \in 1..Len(references')
               PROVE  /\ references'[k].start = results[k].start
                      /\ references'[k].start < references'[k].read
                      /\ references'[k].end = references'[k].read
                      /\ references'[k].page_start = results[k].page_start
                      /\ references'[k].page_end = results[k].page_end
                      /\ ~ (cut' /\ k = rank') => references'[k].end = results[k].end
    BY <1>3, Zenon DEF ReferencesFit
  <2>1. CASE k \in 1..rank /\ references'[k] = references[k]
    BY <1>13, <2>1
  <2>2. CASE k = rank + 1 /\ references'[k] = x
    <3>1. results[k] = chunk
      BY <2>2 DEF chunk
    <3>2. ~cut' => x.end = chunk.end
      BY <1>1, <1>8
    <3> QED
      BY <1>1, <1>6, <1>8, <2>2, <3>1, <3>2
  <2> QED
    BY <1>14, <2>1, <2>2
<1>16. Quoted' = Quoted + size /\ Quoted \in Nat
  <2> DEFINE q == references'
             s == [k \in DOMAIN references |-> references[k].read - references[k].start]
             t == [k \in DOMAIN q |-> q[k].read - q[k].start]
  <2>1. /\ s \in Seq(Nat) /\ Len(s) = rank
        /\ \A k \in 1..rank : s[k] = references[k].read - references[k].start
    <3> HIDE DEF s
    <3>1. \A k \in 1..Len(references) : references[k].start < references[k].read
      BY <1>4, <1>13
    <3> QED
      BY <1>4, <3>1, QuotedFacts DEF s
  <2>2. /\ t \in Seq(Nat) /\ Len(t) = rank + 1
        /\ \A k \in 1..(rank + 1) : t[k] = q[k].read - q[k].start
    <3> HIDE DEF t
    <3>1. \A k \in 1..Len(q) : q[k].start < q[k].read
      BY <1>8, <1>13, <1>14
    <3>2. q \in Seq(References) /\ Len(q) = rank + 1
      BY <1>10
    <3> HIDE DEF q
    <3> QED
      BY <3>1, <3>2, QuotedFacts DEF t
  <2>3. \A n \in 1..Len(s) : t[n] = s[n]
    <3> SUFFICES ASSUME NEW n \in 1..rank PROVE t[n] = s[n]
      BY <2>1
    <3>1. n \in 1..(rank + 1) /\ q[n] = references[n]
      BY <1>4, <1>10
    <3> HIDE DEF s, t, q
    <3> QED
      BY <2>1, <2>2, <3>1
  <2>4. t[Len(t)] = size
    <3>1. rank + 1 \in 1..(rank + 1) /\ q[rank + 1] = x
      BY <1>4, <1>10
    <3> HIDE DEF t, q
    <3> QED
      BY <2>2, <3>1 DEF size
  <2> HIDE DEF s, t
  <2>5. Total(t) = Total(s) + size /\ Total(s) \in Nat
    BY <1>4, <2>1, <2>2, <2>3, <2>4, TotalAppends
  <2> QED
    BY <2>5 DEF Quoted, s, t
<1>17. QuotedSize'
  <2>1. Sizes' = Sizes
    BY <1>3 DEF Sizes
  <2>2. SumTo(Sizes, rank + 1) = SumTo(Sizes, rank) + (chunk.end - chunk.start) /\ SumTo(Sizes, rank) \in Nat
    <3>1. /\ Sizes \in Seq(Nat) /\ Len(Sizes) = Len(results)
          /\ Sizes[rank + 1] = chunk.end - chunk.start
      BY <1>2, <1>4, SizesFacts DEF chunk
    <3>2. rank + 1 \in 1..Len(Sizes) /\ rank \in 0..Len(Sizes) /\ (rank + 1) - 1 = rank
      BY <1>4, <3>1
    <3>3. /\ SumTo(Sizes, rank + 1) = SumTo(Sizes, (rank + 1) - 1) + Sizes[rank + 1]
          /\ SumTo(Sizes, rank) \in Nat
      BY <3>1, <3>2, SumFacts
    <3> QED
      BY <3>1, <3>2, <3>3
  <2>3. Quoted + left = MaxReferenced /\ Quoted = SumTo(Sizes, rank)
    BY <1>1, <1>2 DEF KnowledgeInv, QuotedSize
  <2>4. Quoted' + left' = MaxReferenced
    <3>1. \A a, b, c, d \in Nat : a + b = d => (c + b) + a = c + d
      OBVIOUS
    <3> DEFINE rest == left'
    <3>0. left \in Nat /\ rest \in Nat /\ size \in Nat /\ Quoted \in Nat /\ rest + size = left
      BY <1>4, <1>8, <1>11, <1>16, Zenon
    <3> HIDE DEF rest
    <3>3. (Quoted + size) + rest = Quoted + left
      BY <3>0, <3>1
    <3>2. (Quoted + size) + left' = Quoted + left
      BY <3>3 DEF rest
    <3> QED
      BY <1>16, <2>3, <3>2
  <2>5. CASE x.read < chunk.end
    <3>1. cut' /\ left' = 0 /\ Quoted' < SumTo(Sizes, rank + 1)
      <4>0. cut'
        BY <1>1, <2>5, Zenon
      <4>1. left' = 0
        <5>1. left' = left - size /\ size = left /\ left \in Nat
          BY <1>1, <1>4, <1>8, <2>5, Zenon
        <5> QED
          BY <5>1
      <4>2. \A a, b, c \in Nat : a < b => c + a < c + b
        OBVIOUS
      <4>3. chunk.end - chunk.start \in Nat /\ size < chunk.end - chunk.start
        BY <1>5, <1>8, <2>5
      <4>4. Quoted + size < Quoted + (chunk.end - chunk.start)
        BY <1>8, <1>16, <4>2, <4>3
      <4> QED
        BY <1>16, <2>2, <2>3, <4>0, <4>1, <4>4
    <3> QED
      BY <1>1, <2>1, <2>4, <3>1 DEF QuotedSize
  <2>6. CASE ~ (x.read < chunk.end)
    <3>1. ~cut' /\ Quoted' = SumTo(Sizes, rank + 1)
      BY <1>1, <1>5, <1>8, <1>16, <2>2, <2>3, <2>6
    <3> QED
      BY <1>1, <2>1, <2>4, <3>1 DEF QuotedSize
  <2> QED
    BY <2>5, <2>6
<1>18. KnowledgeInv'
  BY <1>1, <1>15, <1>17 DEF KnowledgeInv
<1>19. SelectInv'
  BY <1>1, <1>2, SelectUnchanged DEF Accepted
<1>20. ReturnInv'
  <2>1. Full /\ context = [messages  |-> Append(retained, trigger_context),
                        truncated |-> \/ \E k \in DOMAIN Append(retained, trigger_context) :
                                            Append(retained, trigger_context)[k].truncated
                                      \/ Len(Append(retained, trigger_context)) < Cardinality(Eligible)]
    BY <1>1, <1>2 DEF ReturnInv
  <2>2. Full'
    BY <1>1, <1>3, <2>1, Zenon DEF Full
  <2> QED
    BY <1>1, <1>3, <2>1, <2>2 DEF ReturnInv
<1> QED
  BY <1>12, <1>18, <1>19, <1>20 DEF ContextInv

\* As many ids as entries, when the entries differ in their ids.
LEMMA IdsCount ==
    ASSUME NEW n \in Nat, NEW f, DOMAIN f = 1..n,
           \A a, b \in 1..n : a < b => f[a] # f[b]
    PROVE  /\ IsFiniteSet({f[k] : k \in 1..n}) /\ Cardinality({f[k] : k \in 1..n}) = n
<1> DEFINE T == {f[k] : k \in 1..n}
           g == [k \in 1..n |-> f[k]]
<1>1. IsFiniteSet(1..n) /\ Cardinality(1..n) = n
  BY FS_Interval
<1>2. g \in Surjection(1..n, T)
  BY DEF Surjection
<1>3. \A a, b \in 1..n : g[a] = g[b] => a = b
  <2> SUFFICES ASSUME NEW a \in 1..n, NEW b \in 1..n, f[a] = f[b], a # b PROVE FALSE
    OBVIOUS
  <2>1. a < b \/ b < a
    OBVIOUS
  <2> QED
    BY <2>1
<1>4. g \in Injection(1..n, T)
  BY <1>3 DEF Injection, IsInjective
<1> HIDE DEF T, g
<1>5. IsFiniteSet(T) /\ Cardinality(T) = n
  BY <1>1, <1>2, <1>4, FS_Surjection
<1> QED
  BY <1>5 DEF T

\* The messages of the context: the retained ones, then the trigger.
LEMMA MessagesFacts ==
    ASSUME ContextInv, phase \in {"retrieve", "done"}, NEW m, m = context.messages
    PROVE  /\ m \in Seq(ContextMessages) /\ DOMAIN m = 1..Len(m)
           /\ Len(m) = Len(retained) + 1 /\ Len(retained) \in Nat
           /\ \A k \in 1..Len(retained) : m[k] = retained[k]
           /\ m[Len(retained) + 1] = trigger_context
           /\ m = Append(retained, trigger_context)
           /\ context.truncated <=> \/ \E k \in 1..Len(m) : m[k].truncated
                                    \/ Len(m) < Cardinality(Eligible)
<1>1. request \in Requests /\ retained \in Seq(ContextMessages)
  BY DEF ContextInv, ContextTypeOK
<1>2. trigger_context \in ContextMessages
  BY <1>1, TriggerFacts
<1> DEFINE a == Append(retained, trigger_context)
<1>3. context = [messages  |-> a, truncated |-> \/ \E k \in DOMAIN a : a[k].truncated
                                               \/ Len(a) < Cardinality(Eligible)]
  BY DEF ContextInv, ReturnInv
<1>4. /\ a \in Seq(ContextMessages) /\ DOMAIN a = 1..Len(a)
      /\ Len(a) = Len(retained) + 1 /\ Len(retained) \in Nat
      /\ \A k \in 1..Len(retained) : a[k] = retained[k]
      /\ a[Len(retained) + 1] = trigger_context
  BY <1>1, <1>2
<1> HIDE DEF a
<1>5. context.messages = a
  BY <1>3
<1>6. context.truncated <=> \/ \E k \in DOMAIN a : a[k].truncated
                            \/ Len(a) < Cardinality(Eligible)
  BY <1>3, Zenon
<1> QED
  BY <1>4, <1>5, <1>6, Zenon DEF a

\* Returning the references and joining what the model reads keep the invariant.
LEMMA EndRetrieval ==
    ASSUME ContextInv, end_retrieval
    PROVE  ContextInv'
<1> DEFINE m == context.messages
           roles == [k \in DOMAIN m |-> m[k].role]
           first == IF request.prompt THEN <<"system">> ELSE <<>>
           second == IF references = <<>> THEN <<>> ELSE <<"reference">>
           R == {"system", "reference", "user", "assistant", "none"}
<1>1. /\ phase = "retrieve" /\ phase' = "done" /\ (rank = Len(results) \/ cut \/ left <= 0)
      /\ knowledge' = [references |-> references, truncated |-> cut \/ Len(references) < Len(results)]
      /\ llm' = first \o second \o roles
      /\ UNCHANGED <<request, seen, retained, remaining, rank, references, left, cut, context>>
  BY DEF end_retrieval, build_agent_llm_context
<1>2. ContextTypeOK /\ SelectInv /\ ReturnInv /\ KnowledgeInv /\ request \in Requests
  BY DEF ContextInv, ContextTypeOK
<1>3. /\ Eligible' = Eligible /\ trigger_context' = trigger_context /\ results' = results
  BY <1>1, RequestUnchanged
<1>4. /\ m \in Seq(ContextMessages) /\ DOMAIN m = 1..Len(m)
      /\ Len(m) = Len(retained) + 1 /\ Len(retained) \in Nat
      /\ m[Len(retained) + 1] = trigger_context
  BY <1>1, MessagesFacts
<1> HIDE DEF m
<1>5. \A k \in 1..Len(m) : m[k].role \in R
  <2> SUFFICES ASSUME NEW k \in 1..Len(m) PROVE m[k].role \in R
    OBVIOUS
  <2>1. m[k] \in ContextMessages
    BY <1>4, ElementOfSeq, Zenon
  <2> QED
    BY <2>1 DEF ContextMessages
<1>6. roles \in Seq(R) /\ Len(roles) = Len(m) /\ roles[Len(m)] = "user"
  <2>1. roles \in [1..Len(m) -> R] /\ Len(m) \in Nat
    BY <1>4, <1>5
  <2>2. roles \in Seq(R) /\ Len(roles) = Len(m)
    <3> HIDE DEF roles, R
    <3> QED
      BY <2>1, FunctionIsSeq, Zenon
  <2>3. Len(m) \in DOMAIN m /\ m[Len(m)].role = trigger_context.role
    BY <1>4
  <2>4. trigger_context.role = "user"
    BY <1>1, <1>2, TriggerFacts DEF SelectInv, Budget, Accepted
  <2> QED
    BY <2>2, <2>3, <2>4
<1> HIDE DEF roles, R
<1>7. first \in Seq(R) /\ second \in Seq(R) /\ Len(first) \in Nat /\ Len(second) \in Nat
  <2>0. "system" \in R /\ "reference" \in R
    BY DEF R
  <2>1. first \in Seq(R) /\ second \in Seq(R)
    BY <2>0
  <2> QED
    BY <2>1, LenProperties
<1> HIDE DEF first, second
<1>8. llm'[Len(llm')] = "user"
  <2> DEFINE joined == first \o second \o roles
  <2>0. first \in Seq(R) /\ second \in Seq(R) /\ roles \in Seq(R)
    BY <1>6, <1>7, Zenon
  <2>1. Len(joined) = Len(first) + Len(second) + Len(roles)
    BY <2>0, ThreeParts, SMT
  <2>2. \A i \in 1..Len(roles) : joined[Len(first) + Len(second) + i] = roles[i]
    BY <2>0, ThreeParts, SMT
  <2> HIDE DEF joined
  <2>3. Len(roles) \in 1..Len(roles)
    BY <1>4, <1>6
  <2>4. joined[Len(joined)] = "user"
    BY <1>6, <2>1, <2>2, <2>3
  <2>5. llm' = joined
    BY <1>1 DEF joined
  <2> QED
    BY <2>4, <2>5
<1>9. ReturnInv'
  <2>1. Full /\ context = [messages  |-> Append(retained, trigger_context),
                        truncated |-> \/ \E k \in DOMAIN Append(retained, trigger_context) :
                                            Append(retained, trigger_context)[k].truncated
                                      \/ Len(Append(retained, trigger_context)) < Cardinality(Eligible)]
    BY <1>1, <1>2 DEF ReturnInv
  <2>2. Full'
    BY <1>1, <1>3, <2>1, Zenon DEF Full
  <2> QED
    BY <1>1, <1>3, <1>8, <2>1, <2>2 DEF ReturnInv
<1>10. SelectInv'
  BY <1>1, <1>2, SelectUnchanged DEF Accepted
<1>11. ContextTypeOK'
  BY <1>1, <1>2, TypesUnchanged
<1>12. KnowledgeInv'
  <2>1. left \in Nat
    BY <1>2 DEF ContextTypeOK
  <2>2. rank' = Len(results') \/ cut' \/ left' = 0
    BY <1>1, <1>3, <2>1
  <2>3. ReferencesFit'
    BY <1>1, <1>2, <1>3 DEF KnowledgeInv, ReferencesFit
  <2>4. Quoted' = Quoted /\ Sizes' = Sizes
    BY <1>1, <1>3 DEF Quoted, Sizes
  <2>5. QuotedSize'
    BY <1>1, <1>2, <2>4 DEF KnowledgeInv, QuotedSize
  <2>6. knowledge' = [references |-> references', truncated |-> cut' \/ Len(references') < Len(results')]
    BY <1>1, <1>3
  <2> QED
    BY <2>2, <2>3, <2>5, <2>6, Zenon DEF KnowledgeInv
<1> QED
  BY <1>9, <1>10, <1>11, <1>12 DEF ContextInv

\* The invariant of the finished retrieval is ReferencesCiteTheirText.
LEMMA InvGivesReferences ==
    ASSUME ContextInv
    PROVE  ReferencesCiteTheirText
<1> SUFFICES ASSUME phase = "done" PROVE ReferencesCiteTheirText
  BY Zenon DEF ReferencesCiteTheirText
<1>1. ContextTypeOK /\ KnowledgeInv /\ request \in Requests
  BY DEF ContextInv, ContextTypeOK
<1>2. /\ knowledge.references = references
      /\ knowledge.truncated <=> cut \/ Len(references) < Len(results)
      /\ rank = Len(results) \/ cut \/ left = 0
  <2>1. /\ knowledge = [references |-> references, truncated |-> cut \/ Len(references) < Len(results)]
        /\ rank = Len(results) \/ cut \/ left = 0
    BY <1>1, Zenon DEF KnowledgeInv
  <2>2. knowledge.truncated <=> cut \/ Len(references) < Len(results)
    BY <2>1, Zenon
  <2>3. knowledge.references = references
    BY <2>1
  <2> QED
    BY <2>1, <2>2, <2>3, Zenon
<1>3. /\ rank \in 0..Len(results) /\ Len(references) = rank /\ Len(results) \in Nat /\ left \in Nat
      /\ references \in Seq(References) /\ DOMAIN references = 1..Len(references)
  BY <1>1, RequestFacts DEF ContextTypeOK
<1> DEFINE found == Total(Sizes)
<1>4. /\ Sizes \in Seq(Nat) /\ Len(Sizes) = Len(results)
      /\ \A k \in 1..Len(results) : Sizes[k] \in Nat \ {0}
  BY <1>1, SizesFacts
<1>5. /\ \A n \in 1..Len(results) : SumTo(Sizes, n) = SumTo(Sizes, n - 1) + Sizes[n]
      /\ \A n \in 0..Len(results) : SumTo(Sizes, n) \in Nat
  BY <1>4, SumFacts
<1>6. found = SumTo(Sizes, Len(results)) /\ found \in Nat
  <2>1. Len(results) \in 0..Len(results)
    BY <1>3
  <2> QED
    BY <1>4, <1>5, <2>1 DEF Total
<1>7. SumTo(Sizes, rank) \in Nat /\ SumTo(Sizes, rank) <= found
  <2>1. rank \in 0..Len(Sizes) /\ Len(Sizes) \in rank..Len(Sizes)
    BY <1>3, <1>4
  <2> QED
    BY <1>3, <1>4, <1>5, <1>6, <2>1, SumGrows
<1>8. rank < Len(results) => SumTo(Sizes, rank) < found
  <2> SUFFICES ASSUME rank < Len(results) PROVE SumTo(Sizes, rank) < found
    OBVIOUS
  <2>1. /\ rank + 1 \in 0..Len(Sizes) /\ Len(Sizes) \in (rank + 1)..Len(Sizes)
        /\ rank + 1 \in 1..Len(results) /\ (rank + 1) - 1 = rank
    BY <1>3, <1>4
  <2>2. SumTo(Sizes, rank + 1) <= found
    BY <1>4, <1>6, <2>1, SumGrows
  <2>3. SumTo(Sizes, rank + 1) = SumTo(Sizes, rank) + Sizes[rank + 1] /\ Sizes[rank + 1] \in Nat \ {0}
    BY <1>4, <1>5, <2>1
  <2> QED
    BY <1>6, <1>7, <2>2, <2>3
<1> HIDE DEF found
<1>9. /\ Quoted + left = MaxReferenced /\ MaxReferenced \in Nat
      /\ ~cut => Quoted = SumTo(Sizes, rank)
      /\ cut => left = 0 /\ Quoted < SumTo(Sizes, rank)
  BY <1>1, ContextAssumption DEF KnowledgeInv, QuotedSize
<1>10. Quoted \in Nat
  <2> DEFINE s == [k \in DOMAIN references |-> references[k].read - references[k].start]
  <2>1. \A k \in 1..Len(references) : references[k].start < references[k].read
    BY <1>1 DEF KnowledgeInv, ReferencesFit
  <2> HIDE DEF s
  <2>2. s \in Seq(Nat)
    BY <1>3, <2>1, QuotedFacts DEF s
  <2>3. Total(s) \in Nat
    <3>1. Len(s) \in 0..Len(s)
      BY <2>2
    <3> QED
      BY <2>2, <3>1, SumFacts DEF Total
  <2> QED
    BY <2>3 DEF Quoted, s
<1>11. Quoted = Smaller(found, MaxReferenced) /\ (knowledge.truncated <=> Quoted < found)
  <2>1. CASE cut
    BY <1>2, <1>6, <1>7, <1>9, <1>10, <2>1 DEF Smaller
  <2>2. CASE ~cut /\ rank = Len(results)
    BY <1>2, <1>3, <1>6, <1>9, <1>10, <2>2 DEF Smaller
  <2>3. CASE ~cut /\ rank # Len(results)
    <3>1. rank < Len(results) /\ left = 0
      BY <1>2, <1>3, <2>3
    <3> QED
      BY <1>2, <1>3, <1>6, <1>7, <1>8, <1>9, <1>10, <2>3, <3>1 DEF Smaller
  <2> QED
    BY <2>1, <2>2, <2>3
<1>12. \A k \in 1..Len(references) :
          /\ references[k].start = results[k].start
          /\ references[k].start < references[k].read /\ references[k].end = references[k].read
          /\ k < Len(references) => references[k].end = results[k].end
          /\ references[k].page_start = results[k].page_start /\ references[k].page_end = results[k].page_end
  <2> SUFFICES ASSUME NEW k \in 1..Len(references)
               PROVE  /\ references[k].start = results[k].start
                      /\ references[k].start < references[k].read /\ references[k].end = references[k].read
                      /\ k < Len(references) => references[k].end = results[k].end
                      /\ references[k].page_start = results[k].page_start /\ references[k].page_end = results[k].page_end
    OBVIOUS
  <2>1. k < Len(references) => k # rank
    BY <1>3
  <2> QED
    BY <1>1, <2>1 DEF KnowledgeInv, ReferencesFit
<1>13. Len(references) <= Len(results)
  BY <1>3
<1>14. found = Total([k \in DOMAIN results |-> results[k].end - results[k].start])
  BY DEF found, Sizes
<1>15. Quoted = Total([k \in DOMAIN references |-> references[k].read - references[k].start])
  BY DEF Quoted
<1> QED
  BY <1>2, <1>3, <1>11, <1>12, <1>13, <1>14, <1>15, Zenon DEF ReferencesCiteTheirText

\* What the invariant says of the messages that build_conversation_context returns.
LEMMA ReturnedContext ==
    ASSUME ContextInv, phase \in {"retrieve", "done"}, NEW m, m = context.messages,
           NEW size, size = Total([k \in DOMAIN m |-> m[k].length]),
           NEW left_out, left_out = {i \in Eligible : \A k \in DOMAIN m : m[k].id # i}
    PROVE  /\ Len(m) \in 1..MaxMessages /\ size <= MaxCharacters
           /\ m[Len(m)].id = trigger
           /\ \A k \in 1..(Len(m) - 1) : m[k].id # trigger
           /\ \A k \in 1..(Len(m) - 1) : k > 1 => Older(m[k - 1].id, m[k].id) /\ ~m[k].truncated
           /\ \A i \in left_out : history[i].length > 0 =>
                 /\ \A k \in 1..(Len(m) - 1) : Older(i, m[k].id)
                 /\ \/ size = MaxCharacters
                    \/ Cardinality({j \in Eligible \ {trigger} : Older(i, j)}) >= MaxMessages - 1
           /\ context.truncated <=> \/ left_out # {}
                                    \/ \E k \in DOMAIN m : m[k].length < history[m[k].id].length
<1> DEFINE n == Len(retained)
<1>1. ContextTypeOK /\ SelectInv /\ ReturnInv /\ request \in Requests /\ Accepted
  BY DEF ContextInv, ContextTypeOK, Accepted
<1>2. /\ m \in Seq(ContextMessages) /\ DOMAIN m = 1..Len(m)
      /\ Len(m) = n + 1 /\ n \in Nat
      /\ \A k \in 1..n : m[k] = retained[k]
      /\ m[n + 1] = trigger_context
      /\ m = Append(retained, trigger_context)
      /\ context.truncated <=> \/ \E k \in 1..Len(m) : m[k].truncated
                               \/ Len(m) < Cardinality(Eligible)
  BY MessagesFacts
<1>3. /\ MaxMessages \in Nat \ {0} /\ MaxCharacters \in Nat /\ remaining \in Nat
      /\ seen \in SUBSET Eligible /\ retained \in Seq(ContextMessages)
  BY <1>1, ContextAssumption DEF ContextTypeOK
<1>4. /\ trigger_context \in ContextMessages /\ trigger_context.id = trigger
      /\ trigger_context.length <= history[trigger].length
      /\ trigger_context.truncated <=> trigger_context.length < history[trigger].length
      /\ trigger \in Eligible /\ trigger_context.length \in Nat
  <2>1. validate_trigger_message(history[trigger])
    BY <1>1 DEF SelectInv, Budget
  <2>2. trigger_context \in ContextMessages
    BY <1>1, TriggerFacts
  <2>3. trigger_context.length \in Nat
    BY <2>2 DEF ContextMessages
  <2> QED
    BY <1>1, <2>1, <2>2, <2>3, TriggerFacts
<1>5. /\ Eligible \in SUBSET (1..Len(history)) /\ IsFiniteSet(Eligible) /\ Cardinality(Eligible) \in Nat
      /\ IsFiniteSet(seen) /\ Cardinality(seen) \in Nat
  BY <1>1, <1>3, RequestFacts, FS_Subset, FS_CardinalityType
<1>6. \A k \in 1..n :
        /\ retained[k].id \in seen \ {trigger}
        /\ retained[k].length <= history[retained[k].id].length
        /\ retained[k].truncated <=> retained[k].length < history[retained[k].id].length
        /\ retained[k].truncated => k = 1 /\ remaining = 0
  BY <1>1 DEF SelectInv, RetainedFit
<1>7. Len(m) \in 1..MaxMessages /\ Len(m) - 1 = n /\ n <= MaxMessages - 1
  BY <1>1, <1>2, <1>3 DEF SelectInv, SelectBounds
<1>8. size \in Nat /\ size + remaining = MaxCharacters
  <2>1. size = Spent + trigger_context.length
    BY <1>2, <1>3, <1>4, SpentAppends DEF Spent
  <2>2. Spent \in Nat
    BY <1>3, <1>4, SpentPrepends DEF Spent
  <2>3. Spent + remaining + trigger_context.length = MaxCharacters
    BY <1>1 DEF SelectInv, Budget
  <2>4. \A a, b, c \in Nat : a + b \in Nat /\ (a + b) + c = a + c + b
    OBVIOUS
  <2> QED
    BY <1>3, <1>4, <2>1, <2>2, <2>3, <2>4
<1>9. size <= MaxCharacters /\ (remaining = 0 => size = MaxCharacters)
  BY <1>3, <1>8
<1>10. m[Len(m)].id = trigger
  BY <1>2, <1>4
<1>11. \A k \in 1..n : m[k].id # trigger /\ m[k].id \in seen
  BY <1>2, <1>6
<1>12. \A a, b \in 1..n : a < b => Older(m[a].id, m[b].id)
  BY <1>1, <1>2 DEF SelectInv, RetainedInOrder
<1>13. ASSUME NEW k \in 1..n, k > 1 PROVE Older(m[k - 1].id, m[k].id) /\ ~m[k].truncated
  <2>1. k - 1 \in 1..n /\ k - 1 < k /\ k # 1
    BY <1>2, <1>13
  <2>2. Older(m[k - 1].id, m[k].id)
    BY <1>12, <2>1
  <2>3. ~m[k].truncated
    BY <1>2, <1>6, <2>1
  <2> QED
    BY <2>2, <2>3
<1>14. ASSUME NEW i \in left_out, history[i].length > 0
       PROVE  i \in Eligible \ seen /\ \A j \in seen : Older(i, j)
  <2>1. i \in Eligible /\ \A k \in DOMAIN m : m[k].id # i
    OBVIOUS
  <2>2. i # trigger
    <3>1. n + 1 \in DOMAIN m
      BY <1>2
    <3> QED
      BY <1>2, <1>4, <2>1, <3>1
  <2>3. i \notin seen
    <3> SUFFICES ASSUME i \in seen PROVE FALSE
      OBVIOUS
    <3>1. PICK k \in 1..n : retained[k].id = i
      BY <1>1, <1>14, <2>2 DEF SelectInv, TextRetained
    <3>2. k \in DOMAIN m
      BY <1>2
    <3> QED
      BY <1>2, <2>1, <3>1, <3>2
  <2> QED
    BY <1>1, <2>1, <2>3 DEF SelectInv, NewestSeen
<1>15. ASSUME NEW i \in left_out, history[i].length > 0, remaining # 0
       PROVE  Cardinality({j \in Eligible \ {trigger} : Older(i, j)}) >= MaxMessages - 1
  <2> DEFINE newer == {j \in Eligible \ {trigger} : Older(i, j)}
             others == seen \ {trigger}
             ids == {m[k].id : k \in 1..n}
  <2>1. others \in SUBSET newer
    BY <1>3, <1>14, <1>15
  <2>2. IsFiniteSet(newer) /\ Cardinality(newer) \in Nat
    <3>1. newer \in SUBSET Eligible
      OBVIOUS
    <3> QED
      BY <1>5, <3>1, FS_Subset, FS_CardinalityType
  <2>3. IsFiniteSet(others) /\ Cardinality(others) \in Nat /\ Cardinality(others) >= Cardinality(seen) - 1
        /\ Cardinality(others) <= Cardinality(newer)
    <3> HIDE DEF newer
    <3>1. /\ IsFiniteSet(others)
          /\ Cardinality(others) = IF trigger \in seen THEN Cardinality(seen) - 1 ELSE Cardinality(seen)
      BY <1>5, FS_RemoveElement
    <3>2. Cardinality(others) \in Nat
      BY <3>1, FS_CardinalityType
    <3>3. Cardinality(others) <= Cardinality(newer)
      BY <2>1, <2>2, FS_Subset
    <3> HIDE DEF others
    <3> QED
      BY <1>5, <3>1, <3>2, <3>3
  <2>4. n <= Cardinality(others)
    <3> DEFINE f == [k \in 1..n |-> m[k].id]
    <3>1. \A a, b \in 1..n : a < b => f[a] # f[b]
      <4> SUFFICES ASSUME NEW a \in 1..n, NEW b \in 1..n, a < b PROVE m[a].id # m[b].id
        OBVIOUS
      <4>1. m[a].id \in 1..Len(history) /\ m[b].id \in 1..Len(history)
        BY <1>3, <1>5, <1>11
      <4> QED
        BY <1>1, <1>12, <4>1, OlderFacts
    <3>2. DOMAIN f = 1..n
      OBVIOUS
    <3>3. {f[k] : k \in 1..n} \in SUBSET others
      BY <1>11
    <3> HIDE DEF f
    <3>0. n \in Nat
      BY <1>2
    <3> HIDE DEF n, others
    <3>4. Cardinality({f[k] : k \in 1..n}) = n
      BY <3>0, <3>1, <3>2, IdsCount, Zenon
    <3> QED
      BY <2>3, <3>3, <3>4, FS_Subset
  <2>5. Eligible \ seen # {}
    BY <1>14, <1>15
  <2>6. Cardinality(seen) >= MaxMessages \/ n >= MaxMessages - 1
    BY <1>1, <1>15, <2>5 DEF ReturnInv, Full
  <2> HIDE DEF newer, others
  <2>7. Cardinality(newer) >= MaxMessages - 1
    BY <1>2, <1>3, <1>5, <2>2, <2>3, <2>4, <2>6
  <2> QED
    BY <2>7 DEF newer
<1>16. \A k \in 1..Len(m) : m[k].truncated <=> m[k].length < history[m[k].id].length
  <2> SUFFICES ASSUME NEW k \in 1..Len(m)
               PROVE  m[k].truncated <=> m[k].length < history[m[k].id].length
    OBVIOUS
  <2>1. k \in 1..n \/ k = n + 1
    BY <1>2
  <2>2. CASE k \in 1..n
    BY <1>2, <1>6, <2>2
  <2>3. CASE k = n + 1
    BY <1>2, <1>4, <2>3
  <2> QED
    BY <2>1, <2>2, <2>3
<1>17. Len(m) < Cardinality(Eligible) <=> left_out # {}
  <2> DEFINE f == [k \in 1..Len(m) |-> m[k].id]
             ids == {f[k] : k \in 1..Len(m)}
  <2>1. ids \in SUBSET Eligible
    <3> SUFFICES ASSUME NEW k \in 1..Len(m) PROVE m[k].id \in Eligible
      OBVIOUS
    <3>1. k \in 1..n \/ k = n + 1
      BY <1>2
    <3> QED
      BY <1>2, <1>3, <1>4, <1>11, <3>1
  <2>2. \A a, b \in 1..Len(m) : a < b => f[a] # f[b]
    <3> SUFFICES ASSUME NEW a \in 1..Len(m), NEW b \in 1..Len(m), a < b PROVE m[a].id # m[b].id
      OBVIOUS
    <3>1. a \in 1..n /\ (b \in 1..n \/ b = n + 1)
      <4>1. n \in Nat /\ Len(m) = n + 1
        BY <1>2
      <4>2. \A p, q \in Int : p \in 1..(n + 1) /\ q \in 1..(n + 1) /\ p < q
                               => p \in 1..n /\ (q \in 1..n \/ q = n + 1)
        <5> HIDE DEF n
        <5> QED
          BY <4>1
      <4>3. a \in Int /\ b \in Int /\ a \in 1..(n + 1) /\ b \in 1..(n + 1)
        BY <4>1
      <4> QED
        BY <4>2, <4>3, Zenon
    <3>2. CASE b \in 1..n
      <4>1. m[a].id \in 1..Len(history) /\ m[b].id \in 1..Len(history)
        BY <1>3, <1>5, <1>11, <3>1, <3>2
      <4> QED
        BY <1>1, <1>12, <3>1, <3>2, <4>1, OlderFacts
    <3>3. CASE b = n + 1
      BY <1>2, <1>4, <1>11, <3>1, <3>3
    <3> QED
      BY <3>1, <3>2, <3>3
  <2>3. DOMAIN f = 1..Len(m) /\ Len(m) \in Nat
    BY <1>2
  <2>4. left_out = Eligible \ ids
    BY <1>2
  <2> HIDE DEF f
  <2>5. Cardinality(ids) = Len(m)
    BY <2>2, <2>3, IdsCount
  <2> HIDE DEF ids
  <2>6. Cardinality(ids) <= Cardinality(Eligible) /\ (Cardinality(Eligible) = Cardinality(ids) => Eligible = ids)
    BY <1>5, <2>1, FS_Subset
  <2>7. CASE left_out = {}
    <3>1. Eligible = ids
      BY <2>1, <2>4, <2>7
    <3>2. Len(m) = Cardinality(Eligible)
      BY <2>5, <3>1, Zenon
    <3>3. ~ (Cardinality(Eligible) < Cardinality(Eligible))
      BY <1>5
    <3> QED
      BY <2>7, <3>2, <3>3, Zenon
  <2>8. CASE left_out # {}
    <3>1. Eligible # ids
      BY <2>4, <2>8
    <3> QED
      BY <1>5, <2>3, <2>5, <2>6, <2>8, <3>1
  <2> QED
    BY <2>7, <2>8
<1>18. context.truncated <=> \/ left_out # {}
                             \/ \E k \in DOMAIN m : m[k].length < history[m[k].id].length
  BY <1>2, <1>16, <1>17, Zenon
<1>19. \A i \in left_out : history[i].length > 0 =>
                 /\ \A k \in 1..(Len(m) - 1) : Older(i, m[k].id)
                 /\ \/ size = MaxCharacters
                    \/ Cardinality({j \in Eligible \ {trigger} : Older(i, j)}) >= MaxMessages - 1
  BY <1>7, <1>9, <1>11, <1>14, <1>15, Zenon
<1> QED
  BY <1>7, <1>9, <1>10, <1>11, <1>13, <1>18, <1>19, Zenon

\* The invariant of the finished selection is ContextIsNewestHistory.
LEMMA InvGivesContext ==
    ASSUME ContextInv
    PROVE  ContextIsNewestHistory
<1>1. phase = "done" => llm[Len(llm)] = "user"
  BY DEF ContextInv, ReturnInv
<1>2. CASE phase \in {"retrieve", "done"}
  BY <1>1, <1>2, ReturnedContext, Zenon DEF ContextIsNewestHistory
<1>3. CASE phase \notin {"retrieve", "done"}
  BY <1>1, <1>3, Zenon DEF ContextIsNewestHistory
<1> QED
  BY <1>2, <1>3

\* The invariant holds when a run starts.
LEMMA ContextInitially ==
    ASSUME ContextInit
    PROVE  ContextInv
<1>1. /\ request \in Requests /\ phase = "validate" /\ seen = {} /\ retained = <<>> /\ remaining = 0
      /\ rank = 0 /\ references = <<>> /\ left = MaxReferenced /\ cut = FALSE
  BY DEF ContextInit
<1>2. MaxReferenced \in Nat /\ MaxMessages \in Nat \ {0} /\ Len(results) \in Nat
  BY <1>1, RequestFacts, ContextAssumption
<1>3. ContextTypeOK
  <2>1. <<>> \in Seq(ContextMessages) /\ <<>> \in Seq(References) /\ Len(<<>>) = 0
    OBVIOUS
  <2>2. 0 \in 0..Len(results) /\ 0 \in Nat
    BY <1>2
  <2> QED
    BY <1>1, <1>2, <2>1, <2>2, Zenon DEF ContextTypeOK
<1>4. 1..Len(retained) = {} /\ 1..Len(references) = {} /\ Cardinality(seen) = 0 /\ Len(retained) = 0
  BY <1>1, FS_EmptySet
<1>5. Budget /\ NewestSeen /\ RetainedFit /\ RetainedInOrder /\ TextRetained
  BY <1>1, <1>4, Zenon DEF Budget, Accepted, NewestSeen, RetainedFit, RetainedInOrder, TextRetained
<1>6. SelectBounds
  BY <1>2, <1>4 DEF SelectBounds
<1>7. ReturnInv
  BY <1>1 DEF ReturnInv
<1>8. ReferencesFit
  BY <1>4, Zenon DEF ReferencesFit
<1>9. QuotedSize
  <2>1. SumTo(Sizes, 0) = 0
    BY <1>1, SizesFacts, SumFacts
  <2> DEFINE s == [k \in DOMAIN references |-> references[k].read - references[k].start]
  <2>2. s \in Seq(Nat) /\ Len(s) = 0
    BY <1>1
  <2> HIDE DEF s
  <2>3. Total(s) = 0
    BY <2>2, SumFacts DEF Total
  <2>4. Quoted = 0
    BY <2>3 DEF Quoted, s
  <2> QED
    BY <1>1, <1>2, <2>1, <2>4 DEF QuotedSize
<1>10. KnowledgeInv
  BY <1>1, <1>8, <1>9 DEF KnowledgeInv
<1> QED
  BY <1>3, <1>5, <1>6, <1>7, <1>10 DEF ContextInv, SelectInv

\* Every turn of the two loops keeps the invariant.
LEMMA ContextPreserved ==
    ASSUME ContextInv, [ContextNext]_contextVars
    PROVE  ContextInv'
<1>1. CASE ContextNext
  BY <1>1, BeginContext, SkipMessage, RetainMessage, EndContext, ReadResult, EndRetrieval DEF ContextNext
<1>2. CASE UNCHANGED contextVars
  <2>1. UNCHANGED <<request, phase, seen, retained, remaining, rank, references, left, cut,
                    context, knowledge, llm>>
    BY <1>2 DEF contextVars
  <2>2. ContextTypeOK /\ SelectInv /\ ReturnInv /\ KnowledgeInv
    BY DEF ContextInv
  <2>3. Accepted' => Accepted
    BY <2>1 DEF Accepted
  <2>4. SelectInv' /\ KnowledgeInv'
    BY <2>1, <2>2, <2>3, SelectUnchanged, KnowledgeUnchanged
  <2>5. phase' \in {"validate", "select", "retrieve", "done", "refused"}
    BY <2>1, <2>2 DEF ContextTypeOK
  <2>6. ContextTypeOK'
    BY <2>1, <2>2, <2>5, TypesUnchanged
  <2>7. Eligible' = Eligible /\ trigger_context' = trigger_context
    BY <2>1, RequestUnchanged
  <2>8. Full' <=> Full
    BY <2>1, <2>7 DEF Full
  <2>9. ReturnInv'
    BY <2>1, <2>2, <2>7, <2>8 DEF ReturnInv
  <2> QED
    BY <2>4, <2>6, <2>9 DEF ContextInv
<1> QED
  BY <1>1, <1>2

\* The loop invariant of build_conversation_context and retrieve_agent_knowledge, for every
\* conversation, ranking and limit.
LEMMA ContextInvariant == ContextSpec => []ContextInv
BY ContextInitially, ContextPreserved, PTL DEF ContextSpec

\* The model reads the newest part of the conversation that fits, trigger last:
\* ContextIsNewestHistory, for every conversation and every limit (agents/context.py
\* build_conversation_context, llm_context.py).
THEOREM NewestHistoryIsKept == ContextSpec => []ContextIsNewestHistory
BY ContextInvariant, InvGivesContext, PTL

\* References cite exactly the characters the model reads, in rank order and up to the limit:
\* ReferencesCiteTheirText, for every ranking and limit (agents/rag.py).
THEOREM TextIsCited == ContextSpec => []ReferencesCiteTheirText
BY ContextInvariant, InvGivesReferences, PTL
================================================================================
