-------------------------------- MODULE Tables --------------------------------
(***************************************************************************)
(* Querying tables (tools/table.py). A table is loaded as text, reheaded   *)
(* by the rows the call says to skip, and every text column that parses    *)
(* whole is retyped; what falls short is named, and where it crowds the    *)
(* first rows, the header is guessed there. A model calls again with what  *)
(* the guess says.                                                         *)
(*                                                                         *)
(* A cell is a member of a small set whose parses are given. Rows are      *)
(* numbered from 1, the loaded header being row 0. The SQL itself is the   *)
(* engine's: a query stands for the columns it takes and spells, how many  *)
(* of the rows it returns, and how it fails.                               *)
(***************************************************************************)
EXTENDS Naturals, Sequences, FiniteSets, FiniteSetsExt, SequencesExt, Functions

CONSTANTS
    TableFile,    \* the documents queried
    Files,        \* what the documents may be
    Batch,        \* the documents one call queries
    Dtypes,       \* _COERCIONS: the dtypes in the order they are tried
    Numeric,      \* those of them a zero-padded value rules out
    Parses,       \* per cell: the dtypes it parses as
    Padded,       \* the zero-padded cells
    Blank,        \* the empty cell
    Query,        \* the queries asked
    HeaderScan,   \* _HEADER_SCAN
    PreviewRows,  \* QueryTableTool.preview_rows
    MaxNamed      \* QueryTableTool.max_named_columns

VARIABLES
    files,     \* what each document is
    answer,    \* what the last call answered
    followed   \* the guess the last call followed, and the columns it was made by

tableVars == <<files, answer, followed>>

None == [is |-> "none"]
Unasked == [is |-> "unasked"]
Failed(why) == [is |-> "failed", why |-> why]

-----------------------------------------------------------------------------
(* Loading.                                                                *)

(* Column names, one that comes again told apart by how often it came before; *)
(* a blank one is nobody's label.                                             *)
Distinct(row) ==
    [c \in DOMAIN row |-> [label |-> row[c], again |-> Cardinality({b \in 1 .. c - 1 : row[b] = row[c]})]]

Labels(names) == SelectSeq(names, LAMBDA n : n.label # Blank)

(* _load: the sheet of a workbook that is asked for, or its first. *)
Load(file, sheet, decode) ==
    IF file.kind = "workbook" /\ sheet \notin {"", "first"} \cup DOMAIN file.grids THEN Failed("no such sheet")
    ELSE IF file.kind = "delimited" /\ file.text = "binary" /\ decode THEN Failed("not text")
    ELSE IF file.kind = "delimited" /\ file.text # "utf8" /\ ~decode THEN Failed("compute error")
    ELSE LET grid == file.grids[IF sheet \in DOMAIN file.grids THEN sheet ELSE "first"]
         IN [is |-> "source", names |-> Distinct(grid[1]), rows |-> Tail(grid), above |-> 0, below |-> 0,
             reports |-> file.kind # "delimited"]

(* _rehead: the names are taken `above` rows down, and `below` rows under them go. *)
Rehead(source, above, below) ==
    IF above = 0 /\ below = 0 THEN source
    ELSE IF above > Len(source.rows) THEN Failed("skips every row")
    ELSE [source EXCEPT !.names = IF above = 0 THEN @ ELSE Distinct(source.rows[above]),
                        !.rows = SubSeq(@, above + below + 1, Len(@)),
                        !.above = above, !.below = below]

-----------------------------------------------------------------------------
(* Retyping.                                                               *)

Filled(rows, c) == {i \in DOMAIN rows : rows[i][c] # Blank}
Parsing(rows, c, dtype) == {i \in Filled(rows, c) : dtype \in Parses[rows[i][c]]}

(* The rows of a column that parse as a dtype: none as a number once a value is *)
(* zero-padded.                                                                 *)
Fitting(rows, c, dtype) ==
    IF dtype \in Numeric /\ \E i \in Filled(rows, c) : rows[i][c] \in Padded THEN {}
    ELSE Parsing(rows, c, dtype)

(* The dtype most of a column parses as, the first of equals. *)
Largest(counts) == Min({k \in DOMAIN counts : \A j \in DOMAIN counts : counts[k] >= counts[j]})

DtypeOf(rows, c) ==
    Dtypes[Largest([k \in DOMAIN Dtypes |-> Cardinality(Fitting(rows, c, Dtypes[k]))])]

Typed(rows, c) == Fitting(rows, c, DtypeOf(rows, c)) # {}
Complete(rows, c) == Typed(rows, c) /\ Fitting(rows, c, DtypeOf(rows, c)) = Filled(rows, c)
Unparsed(rows, c) == Filled(rows, c) \ Fitting(rows, c, DtypeOf(rows, c))

(* _lead: the rows above a column's first value that parses, 0 if one further *)
(* down does not.                                                             *)
Lead(rows, c) ==
    LET first == Min(Parsing(rows, c, DtypeOf(rows, c)))
    IN IF \A i \in Unparsed(rows, c) : i < first THEN first - 1 ELSE 0


(* What to skip for the best of the rows above a lead to name the columns, counted *)
(* from the top of the file.                                                       *)
Skips(source, lead, best) ==
    IF best = 0 THEN [above |-> source.above, below |-> source.below + lead]
    ELSE [above |-> source.above + source.below + best, below |-> lead - best]

(* _header_guess: when most mixed columns have a lead, the lead most of them share; *)
(* the names are the row among the leading ones, the header's too, that fills most  *)
(* cells.                                                                           *)
NamesAt(source, k) == IF k = 0 THEN source.names ELSE Distinct(source.rows[k])

Fullest(source, lead) ==
    LET filled(k) == Len(Labels(NamesAt(source, k)))
    IN Min({k \in 0 .. lead : \A j \in 0 .. lead : filled(k) >= filled(j)})

GuessBelow(source, lead, best) ==
    [is |-> "guess", names |-> Labels(NamesAt(source, best)), skip |-> Skips(source, lead, best)]

MostShared(leads) ==
    LET sharing(n) == Cardinality({c \in DOMAIN leads : leads[c] = n})
    IN Min({n \in Range(leads) \ {0} : \A k \in Range(leads) \ {0} : sharing(n) >= sharing(k)})

GuessFrom(source, leads) ==
    IF 2 * Cardinality({c \in DOMAIN leads : leads[c] > 0}) <= Cardinality(DOMAIN leads) THEN None
    ELSE LET lead == MostShared(leads)
         IN IF lead > HeaderScan THEN None ELSE GuessBelow(source, lead, Fullest(source, lead))

HeaderGuess(source, mixed) == GuessFrom(source, [c \in mixed |-> Lead(source.rows, c)])

(* _coerce: a column is retyped only when every value it holds parses. *)
Retyped(source, typed, whole) ==
    [is |-> "table", names |-> source.names, rows |-> source.rows, strings |-> DOMAIN source.names \ whole,
     retyped |-> whole, mixed |-> typed \ whole, reports |-> source.reports,
     above |-> source.above, below |-> source.below,
     guess |-> HeaderGuess(source, typed \ whole)]

Coerce(source) ==
    IF source.is = "failed" THEN source
    ELSE Retyped(source, {c \in DOMAIN source.names : Typed(source.rows, c)},
                 {c \in DOMAIN source.names : Complete(source.rows, c)})

(* _open: a delimited file that is not UTF-8 is read again, decoded. *)
Open(file, sheet, above, below) ==
    LET found == Load(file, sheet, FALSE)
        loaded == IF found = Failed("compute error") THEN Load(file, sheet, TRUE) ELSE found
    IN Coerce(IF loaded.is = "failed" THEN loaded ELSE Rehead(loaded, above, below))

-----------------------------------------------------------------------------
(* Answering.                                                              *)

SelectIn(seq, places) == IF places = DOMAIN seq THEN seq ELSE <<seq[Min(places)]>>

(* The columns a hint spells, the first MaxNamed of them, and how many it counts. *)
Named(columns) ==
    LET shown == Min({MaxNamed, Len(columns)})
    IN [spelled |-> SubSeq(columns, 1, shown), more |-> Len(columns) - shown]

(* _typing_hints: of the columns touched, those retyped, and those that fall short *)
(* with the worst first.                                                           *)
TypingHints(sources, q) ==
    LET touched(t, c) == \/ q.kind = "describe"
                         \/ sources[t].names[c].label \in q.takes \cup q.spells
        retyped == {<<t, c>> \in UNION {{t} \X sources[t].retyped : t \in DOMAIN sources} :
                       sources[t].reports /\ touched(t, c)}
        mixed == {<<t, c>> \in UNION {{t} \X sources[t].mixed : t \in DOMAIN sources} : touched(t, c)}
        short(x) == Cardinality(Unparsed(sources[x[1]].rows, x[2]))
        order(x, y) == \/ short(x) > short(y)
                       \/ short(x) = short(y) /\ x[1] < y[1]
                       \/ short(x) = short(y) /\ x[1] = y[1] /\ x[2] < y[2]
    IN [retyped |-> Cardinality(retyped), mixed |-> Named(SetToSortSeq(mixed, order))]

(* _failure: what a failed query is told besides the error. *)
Failure(sources, q) ==
    [is |-> "failed", why |-> q.fails,
     headers |-> IF q.fails = "no such column" THEN {t \in DOMAIN sources : sources[t].guess # None} ELSE {},
     texts |-> IF q.fails # "type" THEN {}
               ELSE {<<t, c>> \in UNION {{t} \X sources[t].strings : t \in DOMAIN sources} :
                        sources[t].names[c].label \in q.spells}]

(* _query: the rows a query returns up to its limit, and whether there are more. *)
AnswerOf(sources, q, limit) ==
    LET rows == IF q.kind = "describe" THEN Len(sources[1].rows) ELSE q.returns
        shown == Min({rows, IF q.kind = "describe" THEN PreviewRows ELSE limit})
    IN [is |-> "answered", of |-> << >>, sources |-> sources, query |-> q, rows |-> shown,
        total |-> IF q.kind = "describe" THEN {rows} ELSE {},
        truncated |-> rows > shown, hints |-> TypingHints(sources, q)]

(* QueryTableTool: every table is opened first, and one that cannot be fails the *)
(* call. A schema call describes each table by itself.                           *)
Response(tables, sheet, sources, asked, q, limit) ==
    LET bad == {i \in DOMAIN tables : sources[i].is = "failed"}
    IN IF \E i \in DOMAIN tables : files[tables[i]].kind = "other" THEN Failed("not tabular")
       ELSE IF bad # {} THEN sources[Min(bad)]
       ELSE IF q.kind = "function" THEN Failed("only the registered tables")
       ELSE IF q.fails # "" THEN Failure(sources, q)
       ELSE [AnswerOf(SelectIn(sources, asked), q, limit) EXCEPT !.of = <<SelectIn(tables, asked), sheet>>]

CallTables(tables, sheet, above, below, q, limit) ==
    /\ \E subject \in DOMAIN tables :
         answer' = Response(tables, sheet, [i \in DOMAIN tables |-> Open(files[tables[i]], sheet, above, below)],
                            IF q.kind = "describe" THEN {subject} ELSE DOMAIN tables, q, limit)
    /\ UNCHANGED files

(* What a call answers depends on no call before it, so the first one may ask *)
(* anything, and those after it do as they are told.                          *)
AskTables(tables, sheet, above, below, q, limit) ==
    /\ answer = Unasked
    /\ CallTables(tables, sheet, above, below, q, limit)
    /\ followed' = None

(* A model calls again as a guess says, which replaces what it skipped before. *)
FollowGuess(tables, sheet, q) ==
    /\ answer.is = "answered"
    /\ Len(answer.sources) = 1
    /\ answer.of = <<tables, sheet>>
    /\ answer.sources[1].guess # None
    /\ LET s == answer.sources[1]
       IN /\ CallTables(tables, sheet, s.guess.skip.above, s.guess.skip.below, q, 1)
          /\ followed' = [guess |-> s.guess,
                          skipped |-> s.above + s.below,
                          agreed |-> {c \in s.mixed : Lead(s.rows, c) \in 1 .. s.guess.skip.above + s.guess.skip.below
                                                                              - s.above - s.below},
                          is |-> "followed"]

-----------------------------------------------------------------------------
TableInit ==
    /\ files \in Files
    /\ answer = Unasked
    /\ followed = None

TableNext ==
    \E tables \in Batch, sheet \in {"", "second"}, q \in Query :
        \/ \E above \in 0 .. 2, below \in 0 .. 1 : AskTables(tables, sheet, above, below, q, 1)
        \/ FollowGuess(tables, sheet, q)

-----------------------------------------------------------------------------
=============================================================================
