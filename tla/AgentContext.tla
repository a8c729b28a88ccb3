----------------------------- MODULE AgentContext -----------------------------
(***************************************************************************)
(* What the model of a support agent reads (backend/agents/context.py,     *)
(* rag.py and llm_context.py, called by execute_support_agent_run): the    *)
(* newest part of the conversation that fits the limits, ending with the   *)
(* message that triggered the run, and the best-ranked chunks of the       *)
(* knowledge base, the last one cut. One step is one turn of a loop.       *)
(*                                                                         *)
(* A conversation is a sequence of messages in the order of their insert   *)
(* (Message.sequence): kind stands for sender_type and direction, length   *)
(* for the body, at for created_at, which a second process may have set    *)
(* out of that order. A result of the search is the citation of its chunk. *)
(***************************************************************************)
EXTENDS Integers, Sequences, FiniteSets

CONSTANTS
    MaxMessages,    \* AGENTS_CONTEXT_MAX_MESSAGES
    MaxCharacters,  \* AGENTS_CONTEXT_MAX_CHARACTERS
    MaxReferenced,  \* AGENTS_RAG_MAX_CHARACTERS
    Requests        \* what runs start from: history, trigger, prompt, and results of a search

MessageKinds == {"customer", "agent", "internal"}
Messages == [kind : MessageKinds, length : Nat, at : Nat]
Chunks == [start : Nat, end : Nat, page_start : Nat, page_end : Nat]

ASSUME ContextAssumption ==
    /\ MaxMessages \in Nat \ {0} /\ MaxCharacters \in Nat \ {0} /\ MaxReferenced \in Nat \ {0}
    /\ \A r \in Requests :
          /\ r.history \in Seq(Messages) /\ r.trigger \in DOMAIN r.history /\ r.prompt \in BOOLEAN
          /\ r.results \in Seq(Chunks) /\ \A k \in DOMAIN r.results : r.results[k].start < r.results[k].end

VARIABLES
    request,
    phase,       \* "validate", "select", "retrieve", then "done" or "refused"
    seen,        \* the rows of eligible_qs that have been read
    retained, remaining,                 \* of build_conversation_context, oldest first
    rank, references, left, cut,         \* of retrieve_agent_knowledge
    context, knowledge, llm              \* what the three functions return

contextVars == <<request, phase, seen, retained, remaining, rank, references, left, cut,
                 context, knowledge, llm>>

history == request.history
trigger == request.trigger
results == request.results

Smaller(m, n) == IF m < n THEN m ELSE n

\* _normalized_role, and as a filter _ELIGIBLE_ROLE_FILTER: staff and the AI agent
\* answer as the assistant, system messages and notes have no role.
normalized_role(message) ==
    CASE message.kind = "customer" -> "user"
      [] message.kind = "agent"    -> "assistant"
      [] OTHER                     -> "none"

validate_trigger_message(message) == message.kind = "customer" /\ message.length > 0

\* By age; sequence decides between equal times.
Older(i, j) == history[i].at < history[j].at \/ (history[i].at = history[j].at /\ i < j)

\* eligible_qs: everything with a role that is not newer than the trigger.
Eligible == {i \in DOMAIN history : /\ normalized_role(history[i]) # "none"
                                    /\ history[i].at <= history[trigger].at}

bounded_message(i, limit) ==
    [id        |-> i,
     role      |-> normalized_role(history[i]),
     length    |-> Smaller(history[i].length, limit),
     truncated |-> history[i].length > limit]

trigger_context == bounded_message(trigger, MaxCharacters)

-----------------------------------------------------------------------------
(* build_conversation_context *)

begin_context ==
    /\ phase = "validate"
    /\ phase' = IF validate_trigger_message(history[trigger]) THEN "select" ELSE "refused"
    /\ remaining' = MaxCharacters - trigger_context.length
    /\ UNCHANGED <<request, seen, retained, rank, references, left, cut, context, knowledge, llm>>

\* The query returns at most MaxMessages rows.
HasCandidate == Cardinality(seen) < MaxMessages /\ Eligible \ seen # {}

\* Mutation: the rows come oldest first.
Candidate_oldest == CHOOSE i \in Eligible \ seen : \A j \in Eligible \ seen : j = i \/ Older(i, j)
\* The next of newest_candidates.
Candidate == CHOOSE i \in Eligible \ seen : \A j \in Eligible \ seen : j = i \/ Older(j, i)

Exhausted == Len(retained) >= MaxMessages - 1 \/ remaining <= 0

\* The trigger is passed over, and a message without text.
skip_message ==
    /\ phase = "select" /\ HasCandidate
    /\ \/ Candidate = trigger
       \/ ~Exhausted /\ history[Candidate].length = 0
    /\ seen' = seen \cup {Candidate}
    /\ UNCHANGED <<request, phase, retained, remaining, rank, references, left, cut, context,
                   knowledge, llm>>

retain_message ==
    /\ phase = "select" /\ HasCandidate
    /\ Candidate # trigger /\ ~Exhausted /\ history[Candidate].length > 0
    /\ seen' = seen \cup {Candidate}
    /\ LET normalized == bounded_message(Candidate, remaining)
       IN  /\ retained' = <<normalized>> \o retained
           /\ remaining' = remaining - normalized.length
    /\ UNCHANGED <<request, phase, rank, references, left, cut, context, knowledge, llm>>

end_context ==
    /\ phase = "select"
    /\ HasCandidate => Candidate # trigger /\ Exhausted
    /\ phase' = "retrieve"
    /\ LET messages == Append(retained, trigger_context)
       IN  context' = [messages  |-> messages,
                       truncated |-> \/ \E k \in DOMAIN messages : messages[k].truncated
                                     \/ Len(messages) < Cardinality(Eligible)]
    /\ UNCHANGED <<request, seen, retained, remaining, rank, references, left, cut, knowledge, llm>>

-----------------------------------------------------------------------------
(* retrieve_agent_knowledge, and build_agent_llm_context once it has returned. *)

\* Mutation: a cut reference cites the whole chunk.
Cut_uncited(chunk, limit) ==
    [start |-> chunk.start, read |-> Smaller(chunk.end, chunk.start + limit), end |-> chunk.end,
     page_start |-> chunk.page_start, page_end |-> chunk.page_end]
\* The part of a chunk that still fits: read is where its content ends, end what its
\* citation says. The pages stay those of the whole chunk.
Cut(chunk, limit) ==
    [start |-> chunk.start, read |-> Smaller(chunk.end, chunk.start + limit),
     end |-> Smaller(chunk.end, chunk.start + limit),
     page_start |-> chunk.page_start, page_end |-> chunk.page_end]

read_result ==
    /\ phase = "retrieve" /\ rank < Len(results) /\ ~cut /\ left > 0
    /\ LET reference == Cut(results[rank + 1], left)
       IN  /\ references' = Append(references, reference)
           /\ left' = left - (reference.read - reference.start)
           /\ cut' = (reference.read < results[rank + 1].end)
    /\ rank' = rank + 1
    /\ UNCHANGED <<request, phase, seen, retained, remaining, context, knowledge, llm>>

\* The prompt of the published version, the reference block if there is one, and the
\* conversation.
build_agent_llm_context ==
    (IF request.prompt THEN <<"system">> ELSE <<>>)
        \o (IF references = <<>> THEN <<>> ELSE <<"reference">>)
        \o [k \in DOMAIN context.messages |-> context.messages[k].role]

end_retrieval ==
    /\ phase = "retrieve" /\ (rank = Len(results) \/ cut \/ left <= 0)
    /\ phase' = "done"
    /\ knowledge' = [references |-> references,
                     truncated  |-> cut \/ Len(references) < Len(results)]
    /\ llm' = build_agent_llm_context
    /\ UNCHANGED <<request, seen, retained, remaining, rank, references, left, cut, context>>

ContextInit ==
    /\ request \in Requests
    /\ phase = "validate"
    /\ seen = {} /\ retained = <<>> /\ remaining = 0
    /\ rank = 0 /\ references = <<>> /\ left = MaxReferenced /\ cut = FALSE
    /\ context = [messages |-> <<>>, truncated |-> FALSE]
    /\ knowledge = [references |-> <<>>, truncated |-> FALSE]
    /\ llm = <<>>

ContextNext ==
    \/ begin_context \/ skip_message \/ retain_message \/ end_context
    \/ read_result \/ end_retrieval

ContextSpec == ContextInit /\ [][ContextNext]_contextVars

-----------------------------------------------------------------------------
\* The sum of the first n numbers of s.
SumTo(s, n) == LET sum[k \in 0..Len(s)] == IF k = 0 THEN 0 ELSE sum[k - 1] + s[k] IN sum[n]
Total(s) == SumTo(s, Len(s))

\* The context keeps the limits and the order of the conversation and ends with the trigger;
\* a message with text that it leaves out is older than everything it keeps, and there was no
\* room for it; only the oldest message kept, or the trigger, is cut; and it is marked
\* truncated exactly when a message or a part of one is missing. The last message the model
\* reads is the customer's (agents/context.py build_conversation_context, llm_context.py).
ContextIsNewestHistory ==
    LET messages == context.messages
        size == Total([k \in DOMAIN messages |-> messages[k].length])
        before == 1..(Len(messages) - 1)
        left_out == {i \in Eligible : \A k \in DOMAIN messages : messages[k].id # i}
        newer(i) == {j \in Eligible \ {trigger} : Older(i, j)}
    IN  /\ phase \in {"retrieve", "done"} =>
              /\ Len(messages) \in 1..MaxMessages /\ size <= MaxCharacters
              /\ messages[Len(messages)].id = trigger
              /\ \A k \in before : messages[k].id # trigger
              /\ \A k \in before : k > 1 => /\ Older(messages[k - 1].id, messages[k].id)
                                            /\ ~messages[k].truncated
              /\ \A i \in left_out : history[i].length > 0 =>
                    /\ \A k \in before : Older(i, messages[k].id)
                    /\ size = MaxCharacters \/ Cardinality(newer(i)) >= MaxMessages - 1
              /\ context.truncated <=>
                    \/ left_out # {}
                    \/ \E k \in DOMAIN messages : messages[k].length < history[messages[k].id].length
        /\ phase = "done" => llm[Len(llm)] = "user"

\* The references are the best-ranked chunks, in order, within the limit; each cites exactly
\* the characters the model reads, and the pages of its whole chunk; and the block is marked
\* truncated exactly when something of the results is missing (agents/rag.py retrieve_agent_knowledge).
ReferencesCiteTheirText ==
    LET quoted == knowledge.references
        size == Total([k \in DOMAIN quoted |-> quoted[k].read - quoted[k].start])
        found == Total([k \in DOMAIN results |-> results[k].end - results[k].start])
    IN  phase = "done" =>
            /\ size = Smaller(found, MaxReferenced)
            /\ Len(quoted) <= Len(results)
            /\ \A k \in DOMAIN quoted :
                  /\ quoted[k].start = results[k].start
                  /\ quoted[k].start < quoted[k].read /\ quoted[k].end = quoted[k].read
                  /\ k < Len(quoted) => quoted[k].end = results[k].end
                  /\ quoted[k].page_start = results[k].page_start
                  /\ quoted[k].page_end = results[k].page_end
            /\ knowledge.truncated <=> size < found
=============================================================================
