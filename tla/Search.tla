-------------------------------- MODULE Search --------------------------------
(***************************************************************************)
(* The vector index and the search over it (retrieval.py,                  *)
(* tools/retrieval.py, db/documents.py, chunkers/base.py): one table of    *)
(* chunks for all casebases, re-embedded in place at the boot after the    *)
(* embedding model changed, and a search that resolves what it may find,   *)
(* ranks once per query, fuses the rankings and joins the rows its results *)
(* belong to, while documents are indexed, moved and removed between any   *)
(* two of these steps.                                                     *)
(***************************************************************************)
EXTENDS Naturals, Sequences, FiniteSets, FiniteSetsExt, SequencesExt

CONSTANTS
    Row,        \* the ids of documents
    Store,      \* the casebases
    Searched,   \* the ones the caller may search
    Stem,       \* the names a document can have
    Scopes,     \* what conversations hide: functions from Store to sets of stems
    Placed,     \* where the documents are at first: [store, stem] of each
    Content,    \* texts: sequences of "x" and "n", a line feed
    Model,      \* the embedding models
    Queries,    \* how many queries a call has
    MaxResults, \* max_results of a call
    Damping,    \* _RRF_K
    MaxBoots, MaxIndexes, MaxMoves, MaxSearches \* bounds; only the first boot searches

VARIABLES
    config,      \* settings.embedding.fingerprint() of this boot
    fingerprint, \* the IndexState row, "none" before the first boot
    server,      \* "down", "reembedding" or "serving"
    torn,        \* the model of a re-embedding a crash interrupted, or "none"
    strayed,     \* the boot after one was configured for another model
    rows,        \* the documents: [store, stem, version]
    chunks,      \* the chunks table
    search,      \* the call of the search tool
    spent        \* boots, indexes, moves and searches so far

searchVars == <<config, fingerprint, server, torn, strayed, rows, chunks, search, spent>>

NoSearch == [at |-> "idle", hides |-> [s \in Store |-> {}], ids |-> {}, seen |-> {}, rankings |-> << >>,
             shown |-> << >>]
Counts(field) == spent' = [spent EXCEPT ![field] = @ + 1]

-----------------------------------------------------------------------------
(* Chunks and their lines.                                                 *)

\* DocumentChunker.__call__: line numbers, by line feeds alone, of characters
\* counted from 0.
LineOf(text, index) == 1 + Cardinality({i \in 1..index : i <= Len(text) /\ text[i] = "n"})
EndLineOf(text, from, to) == LineOf(text, IF to - 1 > from THEN to - 1 ELSE from)

\* What a chunker may return: one chunk, or two that overlap.
Splits(text) ==
    LET n == Len(text)
    IN {<< <<0, n>> >>} \cup {<< <<0, b>>, <<b - 1, n>> >> : b \in 2..(n - 1)}

ChunksOf(row, version, text, split) ==
    {[row |-> row, version |-> version, idx |-> i - 1, text |-> text, from |-> split[i][1],
      to |-> split[i][2], startLine |-> LineOf(text, split[i][1]),
      endLine |-> EndLineOf(text, split[i][1], split[i][2]), model |-> config] : i \in DOMAIN split}

KeyOf(chunk) == [chunk EXCEPT !.model = "any"]
KeyMatches(key) == {c \in chunks : KeyOf(c) = key}

-----------------------------------------------------------------------------
(* The embedding model.                                                    *)

\* reconcile_index_state, awaited by the lifespan before the server serves: a first
\* boot notes the model, an unchanged one has nothing to do, a changed one re-embeds.
Boot ==
    /\ server = "down"
    /\ spent.boots < MaxBoots /\ spent.searches = 0
    /\ \E model \in Model :
          /\ config' = model
          /\ server' = IF fingerprint \in {"none", model} THEN "serving" ELSE "reembedding"
          /\ fingerprint' = IF fingerprint = "none" THEN model ELSE fingerprint
          /\ strayed' = (strayed \/ torn \notin {"none", model})
    /\ Counts("boots")
    /\ UNCHANGED <<torn, rows, chunks, search>>

\* reembed_all commits page by page.
Reembed ==
    /\ server = "reembedding"
    /\ \E c \in chunks :
          /\ c.model # config
          /\ chunks' = (chunks \ {c}) \cup {[c EXCEPT !.model = config]}
    /\ UNCHANGED <<config, fingerprint, server, torn, strayed, rows, search, spent>>

\* ... and the fingerprint only after the last of them.
Rebuilt == \A c \in chunks : c.model = config

Stamp ==
    /\ server = "reembedding"
    /\ Rebuilt
    /\ fingerprint' = config
    /\ server' = "serving"
    /\ torn' = "none" /\ strayed' = FALSE
    /\ UNCHANGED <<config, rows, chunks, search, spent>>

\* The process ends at any time, and its search with it.
Stop ==
    /\ server # "down"
    /\ server' = "down"
    /\ torn' = IF server = "reembedding" THEN config ELSE torn
    /\ search' = NoSearch
    /\ UNCHANGED <<config, fingerprint, strayed, rows, chunks, spent>>

-----------------------------------------------------------------------------
(* Documents change while a search runs.                                   *)

\* index_document: the chunks of a document are replaced in one transaction, under
\* fresh keys; a text without any just loses them.
IndexDocument(row) ==
    /\ server = "serving"
    /\ spent.indexes < MaxIndexes
    /\ \E text \in Content : \E split \in Splits(text) :
          LET version == rows[row].version + 1
          IN /\ rows' = [rows EXCEPT ![row].version = version]
             /\ chunks' = {c \in chunks : c.row # row}
                             \cup IF text = << >> THEN {} ELSE ChunksOf(row, version, text, split)
    /\ Counts("indexes")
    /\ UNCHANGED <<config, fingerprint, server, torn, strayed, search>>

\* move_document: the row keeps its id and its chunks below another name or owner.
MoveRow(row, store, stem) ==
    /\ server = "serving"
    /\ spent.moves < MaxMoves
    /\ \A r \in Row : rows[r].store # store \/ rows[r].stem # stem
    /\ rows' = [rows EXCEPT ![row].store = store, ![row].stem = stem]
    /\ Counts("moves")
    /\ UNCHANGED <<config, fingerprint, server, torn, strayed, chunks, search>>

\* delete_document: the chunks go with their row.
RemoveRow(row) ==
    /\ server = "serving"
    /\ spent.moves < MaxMoves
    /\ chunks' = {c \in chunks : c.row # row}
    /\ \E c \in chunks : c.row = row
    /\ Counts("moves")
    /\ UNCHANGED <<config, fingerprint, server, torn, strayed, rows, search>>

-----------------------------------------------------------------------------
(* A search.                                                               *)

\* The filter is asked of documents of the caller's own store alone.
Admitted_Unscoped(row, hides) == rows[row].store \in Searched

\* resolve_accessible_document_ids: owned by a store of the caller's, and let through
\* by that store's filter.
Admitted(row, hides) == rows[row].store \in Searched /\ rows[row].stem \notin hides[rows[row].store]

\* VectorSearchTool._search: nothing is found without an index, and the filter is
\* resolved once for all queries.
ResolveFilter(hides) ==
    /\ server = "serving"
    /\ search.at \in {"idle", "shown"}
    /\ spent.searches < MaxSearches /\ spent.boots = 1
    /\ chunks # {}
    /\ search' = [NoSearch EXCEPT !.at = "ranking", !.hides = hides, !.ids = {r \in Row : Admitted(r, hides)},
                     !.seen = {r \in Row : rows[r].store \in Searched
                                              /\ rows[r].stem \notin hides[rows[r].store]}]
    /\ Counts("searches")
    /\ UNCHANGED <<config, fingerprint, server, torn, strayed, rows, chunks>>

\* One query: a ranking of chunks of those documents, best first. A reranker draws
\* its own from a larger pool of them.
RankQuery ==
    /\ search.at = "ranking"
    /\ Len(search.rankings) < Queries
    /\ \E found \in SUBSET {KeyOf(c) : c \in {c \in chunks : c.row \in search.ids}} :
          /\ Cardinality(found) <= MaxResults
          /\ \E ranking \in SetToSeqs(found) : search' = [search EXCEPT !.rankings = Append(@, ranking)]
    /\ UNCHANGED <<config, fingerprint, server, torn, strayed, rows, chunks, spent>>

\* _fuse: reciprocal ranks, as integers over a common denominator, summed per chunk.
Common == ReduceSet(LAMBDA rank, product : product * (Damping + rank), 1..MaxResults, 1)
RankIn(key, ranking) == CHOOSE i \in DOMAIN ranking : ranking[i] = key
Score(key, rankings) ==
    FoldLeft(LAMBDA sum, ranking : sum + IF key \in ToSet(ranking)
                                         THEN Common \div (Damping + RankIn(key, ranking)) ELSE 0,
             0, rankings)
Found(rankings) == UNION {ToSet(rankings[q]) : q \in DOMAIN rankings}

\* Ties keep the order the chunks were first met in.
FirstMet(key, rankings) ==
    LET q == CHOOSE q \in DOMAIN rankings :
                 key \in ToSet(rankings[q]) /\ \A p \in 1..(q - 1) : key \notin ToSet(rankings[p])
    IN q * (MaxResults + 1) + RankIn(key, rankings[q])
Fuse(rankings) ==
    LET ahead(a, b) ==
            \/ Score(a, rankings) > Score(b, rankings)
            \/ Score(a, rankings) = Score(b, rankings) /\ FirstMet(a, rankings) < FirstMet(b, rankings)
        all == SetToSortSeq(Found(rankings), ahead)
    IN SubSeq(all, 1, IF Len(all) < MaxResults THEN Len(all) ELSE MaxResults)

\* enrich: chunks are joined with their rows as they are now; one that is gone, or
\* belongs to another's casebase by now, is left out.
Enrich ==
    /\ search.at = "ranking"
    /\ Len(search.rankings) = Queries
    /\ LET kept == SelectSeq(Fuse(search.rankings),
                       LAMBDA key : KeyMatches(key) # {} /\ rows[key.row].store \in Searched)
       IN search' = [search EXCEPT !.at = "shown",
                        !.shown = [i \in DOMAIN kept |->
                            [key |-> kept[i], store |-> rows[kept[i].row].store,
                             current |-> kept[i].version = rows[kept[i].row].version]]]
    /\ UNCHANGED <<config, fingerprint, server, torn, strayed, rows, chunks, spent>>

-----------------------------------------------------------------------------
SearchInit ==
    /\ config = "none" /\ fingerprint = "none" /\ server = "down"
    /\ torn = "none" /\ strayed = FALSE
    /\ rows = [r \in Row |-> [store |-> Placed[r].store, stem |-> Placed[r].stem, version |-> 0]]
    /\ chunks = {}
    /\ search = NoSearch
    /\ spent = [boots |-> 0, indexes |-> 0, moves |-> 0, searches |-> 0]

SearchNext ==
    \/ Boot \/ Reembed \/ Stamp \/ Stop
    \/ \E row \in Row :
          \/ IndexDocument(row) \/ RemoveRow(row)
          \/ \E store \in Store, stem \in Stem : MoveRow(row, store, stem)
    \/ \E hides \in Scopes : ResolveFilter(hides)
    \/ RankQuery \/ Enrich

-----------------------------------------------------------------------------
(* While the server serves, every vector is of the model queries are embedded   *)
(* with, whatever boots were interrupted: distances mean something              *)
(* (reconcile_index_state). Exempt is the boot that goes back to another model  *)
(* after an interrupted re-embedding (README, Departures).                      *)
OneModel == server = "serving" /\ ~strayed => \A c \in chunks : c.model = config

\* The characters of a text that lie in its lines first to last.
Within(text, first, last) == {i \in DOMAIN text : LineOf(text, i - 1) \in first..last}

(* A search shows only chunks of documents the conversation let it see when it  *)
(* began, of casebases the caller has now and of the text indexed last; a chunk *)
(* that every query ranks no worse than another comes before it, none comes     *)
(* twice; and the lines named hold the chunk and no line more (build_search_    *)
(* tool, _fuse, DocumentChunker.__call__).                                      *)
FoundRightly ==
    search.at = "shown" =>
        LET shown == search.shown
            at(i, q) == IF shown[i].key \in ToSet(search.rankings[q])
                        THEN RankIn(shown[i].key, search.rankings[q]) ELSE MaxResults + 1
        IN /\ Len(shown) <= MaxResults
           /\ \A i \in DOMAIN shown :
                 LET key == shown[i].key
                 IN /\ key.row \in search.seen /\ shown[i].store \in Searched /\ shown[i].current
                    /\ \A j \in DOMAIN shown : i < j =>
                          /\ key # shown[j].key
                          /\ \/ \E q \in 1..Queries : at(i, q) < at(j, q)
                             \/ \A q \in 1..Queries : at(i, q) <= at(j, q)
                    /\ ((key.from + 1)..key.to) \subseteq Within(key.text, key.startLine, key.endLine)
                    /\ \A line \in key.startLine..key.endLine :
                          ((key.from + 1)..key.to) \cap Within(key.text, line, line) # {}

(* What a search answers is comparable, allowed and where it says: of one model, *)
(* of what the caller may see, in the order the ranks have.                      *)
SearchHonest == OneModel /\ FoundRightly
===============================================================================
