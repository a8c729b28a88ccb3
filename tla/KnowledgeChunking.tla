-------------------------- MODULE KnowledgeChunking --------------------------
(***************************************************************************)
(* From the pages of an uploaded document to the chunks that are embedded  *)
(* (backend/knowledge/ingestion, called by process_ingestion_job): the     *)
(* pages are normalized and joined one by one, and a window moves over the *)
(* joined text and cuts chunks that cite their pages. One step is one turn *)
(* of a loop of the code.                                                  *)
(*                                                                         *)
(* A text is a sequence of characters: NUL, the line ends, the blanks that *)
(* str.isspace knows (a tab stands for those but " " and the line ends)    *)
(* and others. What NFC makes one character of is one character of a page. *)
(* Offsets count from 0 as in the code; text[i + 1] is the character at    *)
(* offset i. Page numbers count from 1, as PdfTextExtractor gives them.    *)
(***************************************************************************)
EXTENDS Naturals, Sequences, FiniteSets, FiniteSetsExt

Space == " "
Newline == "\n"
Return == "\r"
Tab == "\t"
Nul == "NUL"
\* What leaves no ink. NUL, which is not a blank to the code, never reaches the text.
Blank == {Space, Newline, Return, Tab, Nul}

CONSTANTS Characters, Uploads,   \* the documents, each a sequence of pages
          ChunkSize, Overlap, MinimumChars

ASSUME ChunkingAssumption ==
    /\ ChunkSize \in Nat \ {0} /\ Overlap \in 0..(ChunkSize - 1) /\ MinimumChars \in Nat
    /\ Blank \subseteq Characters
    /\ \A upload \in Uploads : upload \in Seq(Seq(Characters))

VARIABLES
    stage,      \* "normalize", "chunk", then "done" or "rejected"
    pages,
    page,       \* the page normalize_extracted_document looks at next
    text, offset, sections,   \* what it has joined
    origin,     \* history: the page and the place every character of text comes from
    cursor, drafts            \* of chunk_text

chunkingVars == <<stage, pages, page, text, offset, sections, origin, cursor, drafts>>

IsBlank(i) == text[i + 1] \in Blank
Inked(string) == {i \in DOMAIN string : string[i] \notin Blank}

\* The members of a set of numbers from the smallest on.
InOrder(S) == [n \in 1..Cardinality(S) |-> CHOOSE i \in S : Cardinality({j \in S : j <= i}) = n]

-----------------------------------------------------------------------------
\* The places of a page that normalize_text keeps: NULs go, "\r" in front of "\n" goes, and so
\* do the blanks at the end of a line, a third line end in a row and the blanks around the text.
normalize_text(string) ==
    LET Crlf(i) == /\ string[i] = Return
                   /\ \E j \in (i + 1)..Len(string) :
                         string[j] = Newline /\ \A k \in (i + 1)..(j - 1) : string[k] = Nul
        ends == {i \in DOMAIN string : string[i] \in {Newline, Return} /\ ~Crlf(i)}
        trailing == {i \in DOMAIN string : \E j \in i..Len(string) :
                        /\ \A k \in i..j : string[k] \in Blank /\ k \notin ends
                        /\ j = Len(string) \/ j + 1 \in ends}
        third == {i \in ends : \E j, k \in ends :
                        j < k /\ k < i /\ \A m \in j..i : string[m] \in Blank}
    IN  {i \in DOMAIN string \ (trailing \cup third) :
            string[i] # Nul /\ \E j, k \in Inked(string) : j <= i /\ i <= k}

\* A line end is "\n" in the text whatever it was.
Normalized(char) == IF char = Return THEN Newline ELSE char

\* Mutation: the offsets of the sections do not count the blank line between them.
Gap_uncounted == 0
\* The offset moves by the blank line that parts a section from those before it.
Gap == IF text = <<>> THEN 0 ELSE 2

NoOrigin == [page |-> 0, at |-> 0]

\* The next section: one that is empty once normalized is dropped.
normalize_extracted_document ==
    /\ stage = "normalize" /\ page <= Len(pages)
    /\ page' = page + 1
    /\ LET kept == InOrder(normalize_text(pages[page]))
           between == IF text = <<>> THEN <<>> ELSE <<Newline, Newline>>
           start == offset + Gap
       IN  IF kept = <<>> THEN UNCHANGED <<text, offset, sections, origin>>
           ELSE /\ text' = text \o between \o [i \in DOMAIN kept |-> Normalized(pages[page][kept[i]])]
                /\ offset' = start + Len(kept)
                /\ sections' = sections \cup {[page |-> page, from |-> start, to |-> offset']}
                /\ origin' = origin \o [i \in DOMAIN between |-> NoOrigin]
                                    \o [i \in DOMAIN kept |-> [page |-> page, at |-> kept[i]]]
    /\ UNCHANGED <<stage, pages, cursor, drafts>>

\* A document with too little text is rejected. chunk_text returns at once when there is none.
begin_chunk_text ==
    /\ stage = "normalize" /\ page > Len(pages)
    /\ LET ink == Inked(text)
           stripped == IF ink = {} THEN 0 ELSE Max(ink) - Min(ink) + 1
       IN  stage' = IF stripped < MinimumChars THEN "rejected"
                    ELSE IF ink = {} THEN "done" ELSE "chunk"
    /\ UNCHANGED <<pages, page, text, offset, sections, origin, cursor, drafts>>

-----------------------------------------------------------------------------
RawEnd == IF cursor + ChunkSize < Len(text) THEN cursor + ChunkSize ELSE Len(text)

\* The last space or newline in the second half of the window, or the end of the window.
preferred_end(start, maximum) ==
    LET half == (maximum - start) \div 2
        floor == start + (IF half > 1 THEN half ELSE 1)
        boundaries == {i \in floor..(maximum - 1) : text[i + 1] \in {Space, Newline}}
    IN  IF maximum >= Len(text) \/ boundaries = {} THEN maximum ELSE Max(boundaries)

\* The first and the last page a range of the text touches, 0 for none.
pages_for_range(start, end) ==
    LET touched == {s.page : s \in {t \in sections : t.to > start /\ t.from < end}}
    IN  IF touched = {} THEN [first |-> 0, last |-> 0]
        ELSE [first |-> Min(touched), last |-> Max(touched)]

\* Mutation: the next window starts behind the widest this one could have been.
NextCursor_after_window(start, end) ==
    IF start + ChunkSize < Len(text) THEN start + ChunkSize ELSE Len(text)
\* Where the window that follows a chunk starts: one overlap back, then behind the
\* first space found there.
NextCursor(start, end) ==
    LET back == IF end > Overlap + start THEN end - Overlap ELSE start + 1
        last == IF end < back + 80 THEN end ELSE back + 80
        spaces == {i \in back..(last - 1) : text[i + 1] = Space}
    IN  IF Overlap > 0 /\ spaces # {} THEN Min(spaces) + 1 ELSE back

\* The offsets of the window that are not blank.
WindowInk == {i \in cursor..(preferred_end(cursor, RawEnd) - 1) : ~IsBlank(i)}

skip_blank_window ==
    /\ stage = "chunk" /\ cursor < Len(text)
    /\ WindowInk = {}
    /\ cursor' = RawEnd
    /\ UNCHANGED <<stage, pages, page, text, offset, sections, origin, drafts>>

\* The first chunk is kept however short it is.
take_window ==
    /\ stage = "chunk" /\ cursor < Len(text)
    /\ WindowInk # {}
    /\ LET start == Min(WindowInk)
           end == Max(WindowInk) + 1
           cited == pages_for_range(start, end)
       IN  /\ drafts' = IF end - start >= MinimumChars \/ drafts = <<>>
                        THEN Append(drafts, [start |-> start, end |-> end,
                                             page_start |-> cited.first, page_end |-> cited.last])
                        ELSE drafts
           /\ IF end >= Len(text) THEN stage' = "done" /\ UNCHANGED cursor
              ELSE cursor' = NextCursor(start, end) /\ UNCHANGED stage
    /\ UNCHANGED <<pages, page, text, offset, sections, origin>>

ChunkingInit ==
    /\ pages \in Uploads
    /\ stage = "normalize" /\ page = 1
    /\ text = <<>> /\ offset = 0 /\ sections = {} /\ origin = <<>>
    /\ cursor = 0 /\ drafts = <<>>

ChunkingNext ==
    \/ normalize_extracted_document \/ begin_chunk_text
    \/ skip_blank_window \/ take_window

ChunkingSpec == ChunkingInit /\ [][ChunkingNext]_chunkingVars

-----------------------------------------------------------------------------
\* Offset i is in a chunk.
Covered(i) == \E k \in DOMAIN drafts : drafts[k].start <= i /\ i < drafts[k].end

\* Offset i is less than a chunk behind the start of at least half a chunk of blanks.
BehindBlanks(i) ==
    \E from \in 0..i : /\ i < from + ChunkSize /\ from + (ChunkSize \div 2) <= Len(text)
                       /\ \A j \in from..(from + (ChunkSize \div 2) - 1) : IsBlank(j)

\* Offset i is in a stretch of half a chunk, or at the end of the text, whose characters
\* between the blanks at its two ends are fewer than MinimumChars.
InShortPiece(i) ==
    \E from \in 0..i, to \in (i + 1)..Len(text) :
        /\ to = Len(text) \/ to - from >= ChunkSize \div 2
        /\ \A j, k \in from..(to - 1) : ~IsBlank(j) /\ ~IsBlank(k) => k - j + 1 < MinimumChars

\* The window stays inside the text, so the loop is only left by its break and the
\* ChunkingError behind it is never raised. Nothing is lost: every character of a page that
\* is not blank is in the normalized text, in order, and at the end it is in a chunk, unless
\* it is behind half a chunk of blanks or in a piece shorter than MinimumChars. Chunks fit the
\* chunk size, do not start or end blank, and each starts behind the start of the one before
\* (ingestion/normalization.py normalize_text; ingestion/chunking.py chunk_text).
ChunksKeepText ==
    /\ stage = "chunk" => cursor < Len(text)
    /\ \A k \in DOMAIN drafts :
          /\ drafts[k].end - drafts[k].start \in 1..ChunkSize
          /\ ~IsBlank(drafts[k].start) /\ ~IsBlank(drafts[k].end - 1)
          /\ k > 1 => drafts[k].start > drafts[k - 1].start
    /\ \A i, j \in DOMAIN text : i < j /\ NoOrigin \notin {origin[i], origin[j]} =>
          \/ origin[i].page < origin[j].page
          \/ origin[i].page = origin[j].page /\ origin[i].at < origin[j].at
    /\ stage = "done" => \A p \in DOMAIN pages : \A k \in Inked(pages[p]) :
          \E i \in DOMAIN text :
             /\ origin[i] = [page |-> p, at |-> k] /\ text[i] = pages[p][k]
             /\ Covered(i - 1) \/ BehindBlanks(i - 1) \/ InShortPiece(i - 1)

\* A chunk cites the pages its characters come from: its first and its last page have a
\* character in it, and no character of it comes from a page outside them
\* (ingestion/normalization.py normalize_extracted_document; ingestion/chunking.py
\* _pages_for_range).
ChunksCiteTheirPages ==
    \A k \in DOMAIN drafts :
        LET Has(p) == \E i \in drafts[k].start..(drafts[k].end - 1) : ~IsBlank(i) /\ origin[i + 1].page = p
        IN  /\ Has(drafts[k].page_start) /\ Has(drafts[k].page_end)
            /\ \A i \in drafts[k].start..(drafts[k].end - 1) : ~IsBlank(i) =>
                  origin[i + 1].page \in drafts[k].page_start..drafts[k].page_end
=============================================================================
