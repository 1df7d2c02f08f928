------------------------------- MODULE Formats -------------------------------
(***************************************************************************)
(* Which tool, converter and chunker a file's name and bytes lead to       *)
(* (converters/__init__.py, converters/formats.py, pipeline_registry.py,   *)
(* chunkers/__init__.py, text.py) and what becomes of one file: written as *)
(* text, uploaded, left in the workspace by hand, edited and found again   *)
(* by the boot's reconciliation on a host with other packages.             *)
(*                                                                         *)
(* A name is the sequence of its suffixes, an extension such a sequence    *)
(* too (".tar.gz" has two).                                                *)
(***************************************************************************)
EXTENDS Naturals, Sequences, FiniteSets, FiniteSetsExt, SequencesExt, TLC

CONSTANTS
    FileName,    \* the names a file may have
    Host,        \* what may be installed: [installed, broken]
    MaxVersions  \* bound on changes of a file's bytes

VARIABLES
    host,   \* the packages of the running server
    booted, \* whether it has reconciled and accepts traffic
    item    \* the file, its description and its row

formatVars == <<host, booted, item>>

PlainText == "plain-text"
Undescribed == [by |-> "none", version |-> 0]
NoFile == [name |-> << >>, bytes |-> "none", version |-> 0, description |-> Undescribed,
           row |-> "none", indexed |-> FALSE, written |-> FALSE]

-----------------------------------------------------------------------------
(* The tables, with one suffix for all that occur in the same of them.     *)

Alone(suffixes) == {<<s>> : s \in suffixes}

ImageSuffixes == {".png", ".bmp", ".svg"}
VideoSuffixes == {".mp4"}
TextImages == {".svg"}
VisionSuffixes == {".pdf", ".png"} \cup VideoSuffixes
LlmSuffixes == {".pdf", ".docx", ".xlsx", ".png", ".bmp"}
PandocContainers == {".docx", ".xlsx"}
TableSuffixes == {".csv", ".xlsx", ".parquet"}
Delimited == {".csv"}
JsonSuffixes == {".json"}

\* The formats' extensions AUTO prefers a converter for, in the order it asks them.
PreferredFor ==
    ("plain-text" :> Alone({".json", ".txt", ".xml"}))
    @@ ("docling" :> Alone({".html", ".csv", ".docx", ".xlsx", ".pdf", ".png", ".bmp", ".json", ".txt", ".md", ".xml"})
                       \cup {<<".dclg", ".xml">>, <<".tar", ".gz">>})
    @@ ("anydoc" :> Alone({".csv", ".docx", ".xlsx", ".doc"}))
    @@ ("kreuzberg" :> Alone({".org"}))
AutoPriority == <<"plain-text", "docling", "anydoc", "kreuzberg">>

\* _CONVERTERS: the extensions a converter reads, beside those AUTO prefers it for.
ExtensionsOf ==
    [PreferredFor EXCEPT !["kreuzberg"] = @ \cup Alone({".pdf", ".docx", ".xlsx", ".csv", ".png", ".svg", ".gz"})]
    @@ ("pandoc" :> Alone({".txt", ".html", ".csv", ".org", ".docx", ".xlsx"}))
    @@ ("marker" :> Alone({".pdf"}))

(* What a pipeline needs of the host, of the converters and of the chunkers. *)
ConverterNeeds ==
    ("docling" :> {"docling", "tesserocr"}) @@ ("anydoc" :> {}) @@ ("kreuzberg" :> {"kreuzberg"})
    @@ ("pandoc" :> {"pandoc"}) @@ ("marker" :> {"marker"}) @@ ("plain-text" :> {})
ChunkerNeeds == ("recursive" :> {}) @@ ("code" :> {"tree_sitter"})
Needs == ConverterNeeds @@ ChunkerNeeds

\* match_file_extension: the longest registered extension of a name, else its last suffix.
MatchFileExtension(name, extensions) ==
    LET matching == {i \in DOMAIN name : SubSeq(name, i, Len(name)) \in extensions}
    IN IF matching # {} THEN SubSeq(name, Min(matching), Len(name))
       ELSE IF name = << >> THEN name ELSE <<Last(name)>>

Suffix(name) == IF name = << >> THEN "" ELSE Last(name)

(* PipelineRegistration.available and load: a package may be there and still not import. *)
Available(p) == Needs[p] \subseteq host.installed
Loads(p) == Available(p) /\ p \notin host.broken

(* _auto_candidates: those installed that AUTO prefers for the name, plain text last. *)
AutoCandidates(name) ==
    LET extension == MatchFileExtension(name, UNION {PreferredFor[p] : p \in DOMAIN PreferredFor})
        preferred == SelectSeq(AutoPriority, LAMBDA p : extension \in PreferredFor[p] /\ Available(p))
    IN IF Contains(preferred, PlainText) THEN preferred ELSE Append(preferred, PlainText)
ResolveAuto(name) == Head(AutoCandidates(name))


(* projection_for: how a file's description is derived. *)
ProjectionFor(name) ==
    CASE Suffix(name) = ".md" -> "markdown"
      [] Suffix(name) \in ImageSuffixes \ TextImages -> "image"
      [] Suffix(name) \in VideoSuffixes -> "video"
      [] OTHER -> "convertible"

ProjectsVerbatim(name) == ProjectionFor(name) = "convertible" /\ ResolveAuto(name) = PlainText

BinarySuffixes ==
    (ImageSuffixes \ TextImages) \cup VideoSuffixes \cup LlmSuffixes \cup PandocContainers \cup (TableSuffixes \ Delimited)
WritesAsText(name) == Suffix(name) \notin BinarySuffixes

(* Who takes a file: read_document (decode_bytes), read_binary_document, query_table, jq. *)
ReadsText(name, bytes) == Suffix(name) \notin VisionSuffixes /\ bytes = "text"
ReadsBinary(name) == Suffix(name) \in VisionSuffixes
QueriedBy(name) == {t \in {"query_table", "jq"} :
                     Suffix(name) \in IF t = "jq" THEN JsonSuffixes ELSE TableSuffixes}

-----------------------------------------------------------------------------
(* Converting and chunking.                                                *)

\* _reject_unsupported_extension: a name without a suffix passes.
Rejects(p, name) ==
    LET extension == MatchFileExtension(name, ExtensionsOf[p])
    IN p # PlainText /\ extension # << >> /\ extension \notin ExtensionsOf[p]

(* get_converter: the pipeline asked for, or the first AUTO candidate that imports. *)
GetConverter(p, name) ==
    IF p # "auto" THEN IF ~Rejects(p, name) /\ Loads(p) THEN p ELSE "refused"
    ELSE LET loading == SelectSeq(AutoCandidates(name), Loads)
         IN IF loading = << >> THEN "refused" ELSE Head(loading)

(* get_chunker: AUTO is the recursive one; one not installed leaves the entry unindexed. *)
GetChunker(chunking) == IF chunking = "auto" THEN "recursive" ELSE chunking
Chunks(row, chunking) == row \in {"image", "video", "binary_stub"} \/ Loads(GetChunker(chunking))

PlainOrStubOf(bytes) ==
    IF bytes = "text" THEN [by |-> PlainText, row |-> "convertible"] ELSE [by |-> "stub", row |-> "binary_stub"]

(* _prepare_upload: the descriptions an upload may end with, none when it is refused; *)
(* a converter may fail on any bytes, and then AUTO alone has another.                *)
Outcome(name, bytes, p) ==
    CASE ProjectionFor(name) = "markdown" ->
             IF bytes = "text" THEN {[by |-> "user", row |-> "user_markdown"]} ELSE {}
      [] ProjectionFor(name) = "image" -> {[by |-> "vision", row |-> "image"]}
      [] ProjectionFor(name) = "video" -> {[by |-> "vision", row |-> "video"]}
      [] p = "auto" /\ ResolveAuto(name) = PlainText -> {PlainOrStubOf(bytes)}
      [] OTHER ->
             LET converter == GetConverter(p, name)
             IN CASE converter = "refused" -> {}
                  [] converter = PlainText -> {x \in {PlainOrStubOf(bytes)} : p = "auto" \/ x.by = PlainText}
                  [] OTHER -> {[by |-> converter, row |-> "convertible"]}
                                \cup {x \in {PlainOrStubOf(bytes)} : p = "auto"}

(* What an upload or a text write leaves: the file, its description and its row. *)
Lands(name, bytes, p, chunking, written) ==
    \E outcome \in Outcome(name, bytes, p) :
        item' = [name |-> name, bytes |-> bytes, version |-> item.version + 1,
                 description |-> [by |-> outcome.by, version |-> item.version + 1],
                 row |-> outcome.row, indexed |-> Chunks(outcome.row, chunking), written |-> written]

-----------------------------------------------------------------------------
(* What happens to the file.                                               *)

Keeps == booted /\ UNCHANGED <<host, booted>>

\* A new file's format decides whether text may be written at it, an existing one's
\* bytes; an original's write converts it anew.
WriteText(name, chunking) ==
    /\ item.version < MaxVersions
    /\ item.bytes # "none" => item.name = name /\ item.bytes = "text"
    /\ Suffix(name) \notin VisionSuffixes
    /\ item.bytes = "none" => WritesAsText(name)
    /\ Lands(name, "text", "auto", chunking, item.bytes = "none" \/ item.written)
    /\ Keeps

UploadFile(name, bytes, p, chunking) ==
    /\ item.version < MaxVersions
    /\ item.bytes # "none" => item.name = name
    /\ Lands(name, bytes, p, chunking, FALSE)
    /\ Keeps

(* A file is put or changed in the workspace by hand. *)
DropFile(name, bytes) ==
    /\ item.version < MaxVersions
    /\ item.bytes # "none" => item.name = name
    /\ item' = [item EXCEPT !.name = name, !.bytes = bytes, !.version = @ + 1, !.written = FALSE,
                            !.description = IF ProjectionFor(name) = "markdown"
                                            THEN [by |-> "user", version |-> item.version + 1] ELSE @]
    /\ Keeps

(* The description of an entry is edited as the document it is. *)
EditText ==
    /\ item.row # "none" /\ ProjectionFor(item.name) # "markdown"
    /\ item' = [item EXCEPT !.description.by = "edit"]
    /\ Keeps

\* The database starts empty: the files alone tell what the entry is.
LoseRow ==
    /\ item.row # "none"
    /\ item' = [item EXCEPT !.row = "none", !.indexed = FALSE]
    /\ Keeps

\* The server starts on a host with other packages.
Restart(packages) ==
    /\ booted /\ booted' = FALSE
    /\ host' = packages
    /\ UNCHANGED item

(* _sync_verbatim_description: a text whose description is a copy of it gets that copy. *)
Derived ==
    IF item.bytes = "text" /\ ProjectsVerbatim(item.name) THEN [by |-> PlainText, version |-> item.version]
    ELSE item.description

\* _entry_metadata_from_disk: what a rediscovered entry's original says it is.
RediscoveredKind(name) ==
    IF ProjectionFor(name) = "markdown" THEN "user_markdown" ELSE ProjectionFor(name)

(* A description gives a row, none drops it; one that is no text is left as it is. *)
Reconcile ==
    /\ ~booted /\ booted' = TRUE
    /\ item' = IF ProjectionFor(item.name) = "markdown" /\ item.bytes = "binary" THEN item
               ELSE LET row == IF Derived.by = "none" THEN "none"
                               ELSE IF item.row = "none" THEN RediscoveredKind(item.name) ELSE item.row
                    IN [item EXCEPT !.description = Derived, !.row = row,
                                    !.indexed = row # "none" /\ Chunks(row, "auto")]
    /\ UNCHANGED host

FormatInit == host \in Host /\ booted = TRUE /\ item = NoFile

FormatNext ==
    \/ \E name \in FileName, chunking \in {"auto"} \cup DOMAIN ChunkerNeeds : WriteText(name, chunking)
    \/ \E name \in FileName, bytes \in {"text", "binary"}, p \in {"auto"} \cup DOMAIN ConverterNeeds,
          chunking \in {"auto"} \cup DOMAIN ChunkerNeeds : UploadFile(name, bytes, p, chunking)
    \/ \E name \in FileName, bytes \in {"text", "binary"} : DropFile(name, bytes)
    \/ EditText
    \/ LoseRow
    \/ \E packages \in Host : Restart(packages)
    \/ Reconcile

-----------------------------------------------------------------------------


==============================================================================
