-------------------------------- MODULE Ingest --------------------------------
(***************************************************************************)
(* How an upload becomes an entry before anything is committed             *)
(* (workspace/prepare.py, workspace/describe.py, converters/, workers/):   *)
(* the name decides the projection, a converter runs in the shared pool of *)
(* worker processes, which a crash breaks for all that run in it, a        *)
(* failed AUTO conversion is recovered or read as text, a video is sampled *)
(* by a process of its own, and the images a conversion found are stored   *)
(* and described once each.                                                *)
(***************************************************************************)
EXTENDS Naturals, Sequences, FiniteSets, FiniteSetsExt, SequencesExt

CONSTANTS
    Upload,     \* the uploads prepared side by side
    Sent,       \* what they hold and ask for: records, see MCTools
    Order,      \* the order of image names
    MaxWorkers, \* isolation.max_workers
    MaxPools    \* bound on the executors built

VARIABLES
    pools,   \* the executors built so far: "live" or "broken"
    current, \* ProcessPool._executor: 0 for none
    uploads  \* what each upload is at

ingestVars == <<pools, current, uploads>>

NoEntry == [kind |-> "none", refs |-> {}, leads |-> << >>, files |-> {}, described |-> {}]
Unprepared == [at |-> "start", file |-> [kind |-> "none"], by |-> "none", pool |-> 0, tries |-> 0, lost |-> 0, outcome |-> "none", entry |-> NoEntry]

Is(u, pc) == uploads[u].at = pc
Goes(u, pc) == uploads' = [uploads EXCEPT ![u].at = pc]
Settles(u, pc, entry) == uploads' = [uploads EXCEPT ![u].at = pc, ![u].entry = entry]

-----------------------------------------------------------------------------
(* The images of a conversion: name -> [look, key, role, small].           *)

\* triage_image: whether an image is worth a description.
Triaged(image) ==
    \/ image.role = "informative"
    \/ image.role = "unknown" /\ ~image.small

\* Images without a stable key count as one.
SameImage_Keyless(images, a, b) == images[a].key = images[b].key

\* perceptual_key: occurrences of one image, where it has a key.
SameImage(images, a, b) == a = b \/ (images[a].key # "none" /\ images[a].key = images[b].key)

\* _prepare_conversion_assets: the first of its group stands for a described image.
Described(images, mode) == {n \in DOMAIN images : mode = "describe" /\ Triaged(images[n])}
StandsFor(images, mode, n) ==
    IF n \notin Described(images, mode) THEN n
    ELSE CHOOSE r \in Described(images, mode) :
            /\ SameImage(images, r, n)
            /\ \A o \in Described(images, mode) : SameImage(images, o, n) => Order[r] <= Order[o]

\* _replace_image_references: what is mapped leads to its file, a reference out of
\* the workspace is dropped, any other is kept.
Prepared(images, refs, mode) ==
    LET kept == {n \in refs : n \notin DOMAIN images /\ n.ext # "outside"}
        files == {StandsFor(images, mode, n) : n \in DOMAIN images}
    IN IF mode = "ignore"
       THEN [NoEntry EXCEPT !.kind = "convertible", !.refs = kept]
       ELSE [kind |-> "convertible", refs |-> kept \cup (refs \cap DOMAIN images),
             leads |-> [n \in refs \cap DOMAIN images |-> StandsFor(images, mode, n)],
             files |-> files, described |-> files \cap Described(images, mode)]

-----------------------------------------------------------------------------
(* Which preparation a file gets.                                          *)

\* _prepare_plain_text_or_stub.
PlainOrStub(file) == [NoEntry EXCEPT !.kind = IF file.text THEN "convertible" ELSE "binary_stub"]

\* _prepare_upload, by projection_for: markdown is its own description ...
PrepareMarkdown(u, file) ==
    /\ file.kind = "markdown"
    /\ uploads' = [uploads EXCEPT
          ![u] = [Unprepared EXCEPT !.file = file,
                     !.at = IF file.text THEN "done" ELSE "refused",
                     !.entry = IF file.text THEN [NoEntry EXCEPT !.kind = "user_markdown"] ELSE NoEntry]]
    /\ UNCHANGED <<pools, current>>

\* ... an image gets a description, or its name for one (_describe_with_fallback) ...
PrepareImage(u, file) ==
    /\ file.kind = "image"
    /\ uploads' = [uploads EXCEPT ![u] = [Unprepared EXCEPT !.file = file, !.at = "done",
                                                     !.entry = [NoEntry EXCEPT !.kind = "image"]]]
    /\ UNCHANGED <<pools, current>>

\* ... a video has to be sampled first ...
PrepareVideo(u, file) ==
    /\ file.kind = "video"
    /\ uploads' = [uploads EXCEPT ![u] = [Unprepared EXCEPT !.file = file, !.at = "queued"]]
    /\ UNCHANGED <<pools, current>>

\* ... and AUTO reads text as it is, where no converter is named for it; one named
\* by the user has to support the file (_build_converter).
PrepareConvertible(u, file) ==
    /\ file.kind = "convertible"
    /\ LET plain == file.auto /\ ~file.rich
       IN uploads' = [uploads EXCEPT ![u] =
             [Unprepared EXCEPT !.file = file, !.by = "converter",
                !.at = IF plain THEN "done" ELSE IF ~file.rich THEN "refused" ELSE "submit",
                !.entry = IF plain THEN PlainOrStub(file) ELSE NoEntry]]
    /\ UNCHANGED <<pools, current>>

-----------------------------------------------------------------------------
(* The pool of worker processes (workers/pool.py).                         *)

\* _current builds an executor if there is none, run_in_executor submits to it: a
\* broken one refuses at once.
Submit(u) ==
    /\ Is(u, "submit")
    /\ current # 0 \/ Len(pools) < MaxPools
    /\ LET pool == IF current = 0 THEN Len(pools) + 1 ELSE current
       IN /\ current' = pool
          /\ pools' = IF current = 0 THEN Append(pools, "live") ELSE pools
          /\ LET broken == current # 0 /\ pools[current] = "broken"
             IN uploads' = [uploads EXCEPT ![u].pool = pool, ![u].tries = @ + 1,
                               ![u].at = IF broken THEN "broken" ELSE "running",
                               ![u].lost = @ + (IF broken THEN 1 ELSE 0)]

\* A worker runs the converter: it returns or raises ...
Run(u) ==
    /\ uploads[u].at \in {"running", "left"}
    /\ LET file == uploads[u].file
       IN /\ uploads[u].by = "anydoc" \/ ~file.poison
          /\ uploads' = [uploads EXCEPT
                ![u].at = IF @ = "left" THEN "gone" ELSE "converted",
                ![u].outcome = IF uploads[u].by = "converter" THEN file.converts
                               ELSE IF file.recovers THEN "recovered" ELSE "raises"]
    /\ UNCHANGED <<pools, current>>

\* ... or dies of the input, and takes all that runs in its pool with it.
Crash(u) ==
    /\ uploads[u].at \in {"running", "left"}
    /\ uploads[u].by = "converter" /\ uploads[u].file.poison
    /\ pools' = [pools EXCEPT ![uploads[u].pool] = "broken"]
    /\ uploads' = [v \in Upload |->
          IF uploads[v].pool = uploads[u].pool /\ uploads[v].at \in {"running", "left"}
          THEN [uploads[v] EXCEPT !.at = IF @ = "left" THEN "gone" ELSE "broken",
                                  !.lost = @ + (IF v = u THEN 0 ELSE 1)]
          ELSE uploads[v]]
    /\ UNCHANGED current

\* _discard: the broken pool, unless another took its place.
DropBroken(pool) == IF current = pool THEN 0 ELSE current

\* ProcessPool.run tries once more; the second failure is the caller's.
Retry(u) ==
    /\ Is(u, "broken")
    /\ IF uploads[u].tries = 1
       THEN current' = DropBroken(uploads[u].pool) /\ Goes(u, "submit")
       ELSE /\ uploads' = [uploads EXCEPT ![u].at = "converted", ![u].outcome = "raises"]
            /\ UNCHANGED current
    /\ UNCHANGED pools

-----------------------------------------------------------------------------
(* From a conversion's outcome to the entry.                               *)

\* recover_conversion: AUTO has anydoc read what docling raised on, and poppler what
\* came out as glyph names ...
ByAnydoc(u) == /\ uploads[u].file.auto /\ uploads[u].by = "converter"
               /\ uploads[u].outcome = "raises" /\ uploads[u].file.office
ByPoppler(u) == /\ uploads[u].file.auto /\ uploads[u].by = "converter"
                /\ uploads[u].outcome = "garbled" /\ uploads[u].file.recovers
Recover(u) ==
    /\ Is(u, "converted")
    /\ \/ /\ ByAnydoc(u)
          /\ uploads' = [uploads EXCEPT ![u].at = "submit", ![u].by = "anydoc", ![u].tries = 0]
       \/ /\ ByPoppler(u)
          /\ uploads' = [uploads EXCEPT ![u].by = "poppler", ![u].outcome = "recovered"]
    /\ UNCHANGED <<pools, current>>

\* ... and what is left of a failure is read as text by AUTO, and told otherwise
\* (_prepare_convertible). Text recovered has no images.
Conclude(u) ==
    /\ Is(u, "converted")
    /\ ~ByAnydoc(u) /\ ~ByPoppler(u)
    /\ LET file == uploads[u].file
       IN CASE uploads[u].outcome = "raises" /\ uploads[u].file.auto -> Settles(u, "done", PlainOrStub(file))
            [] uploads[u].outcome = "raises" /\ ~uploads[u].file.auto -> Settles(u, "refused", NoEntry)
            [] uploads[u].outcome = "recovered" ->
                  Settles(u, "done", [NoEntry EXCEPT !.kind = "convertible"])
            [] OTHER -> Settles(u, "done", Prepared(file.images, file.refs, uploads[u].file.mode))
    /\ UNCHANGED <<pools, current>>

-----------------------------------------------------------------------------
(* A process of its own (workers/isolation.py).                            *)

Processes == {u \in Upload : uploads[u].at \in {"sampling", "killed"}}

\* run_isolated: a slot is held from the spawn until the process is reaped.
Slots == {u \in Upload : uploads[u].at \in {"sampling", "killed"}}

Spawn(u) ==
    /\ Is(u, "queued")
    /\ Cardinality(Slots) < MaxWorkers
    /\ Goes(u, "sampling")
    /\ UNCHANGED <<pools, current>>

\* Frames or an error, a crash, or the timeout: a description in any case.
Sampled(u) ==
    /\ Is(u, "sampling")
    /\ Settles(u, "done", [NoEntry EXCEPT !.kind = "video"])
    /\ UNCHANGED <<pools, current>>

\* _drain: a killed process is waited for before its call ends.
Reap(u) ==
    /\ Is(u, "killed")
    /\ Goes(u, "gone")
    /\ UNCHANGED <<pools, current>>

\* The upload is given up: what runs in a pool runs on, a process is killed.
Abandon(u) ==
    /\ uploads[u].at \in {"submit", "running", "broken", "converted", "queued", "sampling"}
    /\ Goes(u, CASE Is(u, "running") -> "left" [] Is(u, "sampling") -> "killed" [] OTHER -> "gone")
    /\ UNCHANGED <<pools, current>>

-----------------------------------------------------------------------------
IngestInit ==
    /\ pools = << >>
    /\ current = 0
    /\ uploads = [u \in Upload |-> Unprepared]

IngestNext ==
    \E u \in Upload :
        \/ Is(u, "start") /\ \E file \in Sent :
              \/ PrepareMarkdown(u, file) \/ PrepareImage(u, file) \/ PrepareVideo(u, file)
              \/ PrepareConvertible(u, file)
        \/ Submit(u) \/ Run(u) \/ Crash(u) \/ Retry(u) \/ Recover(u) \/ Conclude(u)
        \/ Spawn(u) \/ Sampled(u) \/ Reap(u) \/ Abandon(u)

-----------------------------------------------------------------------------
(* A crash is the matter of the document that caused it: one that converts is   *)
(* converted, whatever runs beside it; there is one executor at a time, and the *)
(* processes for videos stay within their bound (ProcessPool, run_isolated).    *)
(* Exempt is a document whose pool broke twice (README, Departures).            *)
CrashesContained ==
    /\ \A u \in Upload :
          /\ uploads[u].at \in {"done", "refused"} /\ uploads[u].by = "converter"
          /\ uploads[u].file.rich /\ ~uploads[u].file.poison /\ uploads[u].lost < 2
          => uploads[u].outcome = uploads[u].file.converts
    /\ Cardinality({p \in DOMAIN pools : pools[p] = "live"}) <= 1
    /\ Cardinality(Processes) <= MaxWorkers

(* Every reference to an image a conversion found leads to a file the entry     *)
(* stores, of the same picture; every picture is stored, and described once     *)
(* where it can be told apart; no reference out of the workspace is left, and   *)
(* none to an image where images are ignored (_prepare_conversion_assets).      *)
ImagesLand ==
    \A u \in {u \in Upload : Is(u, "done") /\ uploads[u].outcome = "well"} :
        LET entry == uploads[u].entry
            images == uploads[u].file.images
            kept == uploads[u].file.mode # "ignore"
        IN /\ \A n \in entry.refs :
                 /\ n.ext # "outside"
                 /\ n \in DOMAIN images =>
                       /\ kept /\ entry.leads[n] \in entry.files
                       /\ images[entry.leads[n]].look = images[n].look
           /\ kept => \A n \in DOMAIN images : \E f \in entry.files : images[f].look = images[n].look
           /\ \A m, n \in entry.described : m # n /\ images[n].key # "none" => images[m].key # images[n].key

(* An upload comes to what its own content says: a crash beside it changes       *)
(* nothing, and every picture it has lands where it is referred to.              *)
UploadsLand == CrashesContained /\ ImagesLand
===============================================================================
