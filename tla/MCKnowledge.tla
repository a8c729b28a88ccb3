----------------------------- MODULE MCKnowledge -----------------------------
(* A small instance for TLC of knowledge from the upload to what the model reads:
   KnowledgeIngestion, KnowledgeChunking and AgentContext. They share no state here, so each
   initial state explores one part: the ingestion of the documents of one source, one
   document's way to its chunks, or what one run's model reads. *)
EXTENDS KnowledgeIngestion, KnowledgeChunking, AgentContext

CONSTANTS s1,
          MaxLine,     \* bound: length of a document of one line
          MaxPage,     \* bound: length of the first page of a document of two
          MaxLast,     \* bound: length of its second page
          MaxHistory,  \* bound: messages of a conversation
          MaxResults   \* bound: results of a search

VARIABLE part          \* what changes in this behaviour

OneSource == [d \in Documents |-> s1]

\* Every line of up to MaxLine characters with spaces and every shorter one with tabs too,
\* every page of MaxPage characters of any kind, and every two pages of up to MaxPage and
\* MaxLast characters, which may hold several lines.
Letters == Blank \cup {"a"}
Strings(letters, n) == UNION {[1..k -> letters] : k \in 0..n}
EmptyFile == <<<<>>>>
Files == {EmptyFile} \cup {<<line>> : line \in Strings({"a", " "}, MaxLine)}
            \cup {<<line>> : line \in Strings({"a", " ", "\t"}, MaxLine - 2)}
            \cup {<<string>> : string \in Strings(Letters, MaxPage)}
            \cup (Strings({"a", " ", "\n"}, MaxPage) \X Strings({"a", " ", "\n"}, MaxLast))

\* Every history of up to MaxHistory messages with every trigger, and every ranking of up to
\* MaxResults chunks for one message.
Upto(n, S) == UNION {[1..k -> S] : k \in 1..n}
Sampled == [kind : {"customer"}, length : {1, 2}, at : 0..1]
               \cup [kind : {"agent"}, length : {2}, at : 0..1]
               \cup {[kind |-> "agent", length |-> 0, at |-> 0],
                     [kind |-> "internal", length |-> 1, at |-> 0]}
One == <<[kind |-> "customer", length |-> 1, at |-> 0]>>
\* A second page starts at offset 3.
Ranges == {c \in [start : 0..1, end : 1..4, page_start : {1}, page_end : 1..2] :
              c.start < c.end /\ (c.page_end = 2 <=> c.end > 3)}
Question == [history |-> One, trigger |-> 1, prompt |-> FALSE, results |-> <<>>]
Asked ==
    {Question}
    \cup {r \in [history : Upto(MaxHistory, Sampled), trigger : 1..MaxHistory, prompt : {FALSE},
                 results : {<<>>}] :
             r.trigger \in DOMAIN r.history /\ r.history[r.trigger].kind = "customer"}
    \cup [history : {One}, trigger : {1}, prompt : BOOLEAN, results : Upto(MaxResults, Ranges)]

-----------------------------------------------------------------------------
mcVars == <<knowledgeVars, chunkingVars, contextVars, part>>

\* A part that is not explored starts from the empty document and one question.
MCInit ==
    /\ part \in {"ingestion", "chunking", "context"}
    /\ part = "chunking" \/ pages = EmptyFile
    /\ part = "context" \/ request = Question
    /\ KnowledgeInit /\ ChunkingInit /\ ContextInit

MCNext ==
    /\ UNCHANGED part
    /\ \/ part = "ingestion" /\ KnowledgeNext /\ UNCHANGED <<chunkingVars, contextVars>>
       \/ part = "chunking" /\ ChunkingNext /\ UNCHANGED <<knowledgeVars, contextVars>>
       \/ part = "context" /\ ContextNext /\ UNCHANGED <<knowledgeVars, chunkingVars>>

MCSpec == MCInit /\ [][MCNext]_mcVars /\ KnowledgeFairness
=============================================================================
