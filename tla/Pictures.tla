------------------------------ MODULE Pictures ------------------------------
(***************************************************************************)
(* What a model is shown of images, PDFs and videos (tools/binary.py,      *)
(* converters/video.py, workers/pdf.py, workers/video.py,                  *)
(* agents/guards.py, server/routes/conversations.py): a user's attachments *)
(* are admitted, a call of read_binary_document turns its files into       *)
(* pictures within the gateway's image cap, and what a request carries     *)
(* beyond the cap is replaced on the wire, the oldest pictures first.      *)
(*                                                                         *)
(* A message of the history is the sequence of its pictures; a picture is  *)
(* a part of what it was taken from: a page, a frame, the image itself.    *)
(***************************************************************************)
EXTENDS Batches

CONSTANTS
    ImageCap,      \* multimodal.max_images, 0 for none
    PdfPages,      \* ReadBinaryDocumentTool.max_pages
    Frames,        \* ReadBinaryDocumentTool.max_frames
    Ingestible,    \* INGESTIBLE_IMAGE_MEDIA_TYPES
    Attachments,   \* what a prompt may carry
    Asked,         \* the calls one response may make, each a sequence of items
    MaxMessages    \* bound on the messages of a history

VARIABLES
    native,   \* whether PDFs are forwarded as files
    pictures, \* the history: per message who wrote it and its pictures
    served,   \* the items the last calls reported attached
    wire     \* the messages as the last request carried them

pictureVars == <<native, pictures, served, wire>>

Lesser(a, b) == IF a < b THEN a ELSE b
Greater(a, b) == IF a < b THEN b ELSE a

-----------------------------------------------------------------------------
(* Turning a file into pictures.                                           *)

NotRead == [ok |-> FALSE, parts |-> {}]
Attached(parts) == [ok |-> TRUE, parts |-> parts]

\* _sample_indices: the frames taken of an animation, spread over its timeline.
SampleIndices(count, most) ==
    IF count <= most THEN 0 .. count - 1
    ELSE {((2 * i + 1) * count) \div (2 * most) : i \in 0 .. most - 1}

\* sample_animated_image: what Pillow cannot decode is no animation to show.
SampleAnimation(file, most) ==
    IF file.sound THEN Attached(SampleIndices(file.length, most)) ELSE NotRead

(* sample_frames: about a frame a second, one at least, in a worker of its own. *)
SampleVideo(file, most) ==
    IF file.sound THEN Attached(1 .. Greater(1, Lesser(most, file.length))) ELSE NotRead

(* parse_pages: the pages a selection names, in ranges that the document has. *)
ValidPages(ranges, total) ==
    \A i \in DOMAIN ranges : ranges[i][1] >= 1 /\ ranges[i][1] <= ranges[i][2] /\ ranges[i][2] <= total
PagesOf(ranges, total) ==
    IF ranges = << >> THEN 1 .. total ELSE UNION {ranges[i][1] .. ranges[i][2] : i \in DOMAIN ranges}

(* render_pages: a page image each, of no more pages than the bound. *)
RenderPages(item, most) ==
    LET pages == PagesOf(item.pages, item.file.length)
    IN IF item.file.sound /\ ValidPages(item.pages, item.file.length) /\ Cardinality(pages) <= most
       THEN Attached(pages) ELSE NotRead

(* extract_pages: the file itself, or a file of the pages selected. *)
ExtractPages(item) ==
    IF item.pages = << >> \/ (item.file.sound /\ ValidPages(item.pages, item.file.length))
    THEN Attached({}) ELSE NotRead

\* _renders_images: what reaches a model as images, spending the cap.
RendersImages(item) ==
    item.file.media # "none" /\ (item.file.media = "pdf" => ~native)

(* _read: one file, within its share of the call's image cap. *)
ReadItem(item, cap) ==
    LET file == item.file
        bounded(budget) == IF ImageCap = 0 THEN budget ELSE Lesser(budget, cap)
    IN CASE file.missing \/ file.media = "none" -> NotRead
         [] item.pages # << >> /\ file.media # "pdf" -> NotRead
         [] file.media = "video" -> SampleVideo(file, bounded(Frames))
         [] file.media = "animation" /\ file.length > 1 -> SampleAnimation(file, bounded(Frames))
         [] file.large -> NotRead
         [] file.media = "pdf" /\ native -> ExtractPages(item)
         [] file.media = "pdf" -> RenderPages(item, bounded(PdfPages))
         [] OTHER -> Attached({1})

\* Every item of a batch shares its budgets.
Sharing_All(items) == DOMAIN items

\* run_batch's `shares`: the items that divide the image cap between them.
Sharing(items) == {i \in DOMAIN items : RendersImages(items[i])}

\* Their outcomes, in order; who does not share is handed the whole.
Outcomes(items) ==
    LET sharing == Sharing(items)
        place(i) == Cardinality({j \in sharing : j <= i})
        share(i) == IF i \in sharing THEN ShareOf(ImageCap, place(i), Cardinality(sharing)) ELSE ImageCap
    IN [i \in DOMAIN items |-> ReadItem(items[i], share(i))]

(* __call__ refuses a call more of whose files become images than the cap holds. *)
TooMany(items) ==
    ImageCap # 0 /\ Cardinality({i \in DOMAIN items : RendersImages(items[i])}) > ImageCap

(* A call as the history keeps it: the pictures of the files that succeeded, in order. *)
PicturesOf(item, parts) ==
    LET at == SetToSortSeq(parts, LAMBDA i, j : i < j)
    IN [k \in DOMAIN at |-> [of |-> item, part |-> at[k]]]
ReadBinary(batch) ==
    LET items == Once(batch)
    IN IF TooMany(items) THEN [pictures |-> << >>, items |-> {}]
       ELSE [pictures |-> FlattenSeq([i \in DOMAIN items |-> PicturesOf(items[i], Outcomes(items)[i].parts)]),
             items |-> {items[i] : i \in {j \in DOMAIN items : Outcomes(items)[j].ok}}]

-----------------------------------------------------------------------------
(* What a request carries.                                                 *)

ImageNote == [part |-> 0]
Total(history) == Len(FlattenSeq([m \in DOMAIN history |-> history[m].pictures]))

\* _within_image_cap: the oldest occurrences beyond the cap, in request order.
Displaced(history, m, k) ==
    /\ ImageCap # 0
    /\ Total(SubSeq(history, 1, m - 1)) + k <= Total(history) - ImageCap

(* PromptImageLimit: on the wire a note stands for every picture displaced. *)
WithinImageCap(history) ==
    [m \in DOMAIN history |->
        [k \in DOMAIN history[m].pictures |->
            IF Displaced(history, m, k) THEN ImageNote ELSE history[m].pictures[k]]]

Sends(history, items) ==
    /\ pictures' = history
    /\ served' = items
    /\ wire' = WithinImageCap(history)
    /\ UNCHANGED native

(* _accept_attachments: too many pictures, or anything but small ones, refuse a prompt. *)
Accepted(items) ==
    /\ ImageCap # 0 => Len(items) <= ImageCap
    /\ \A i \in DOMAIN items : items[i].media \in Ingestible /\ ~items[i].large

Prompt(items) ==
    /\ Len(pictures) < MaxMessages
    /\ Accepted(items)
    /\ LET message == [calls |-> 0, pictures |-> [i \in DOMAIN items |-> [of |-> items[i], part |-> i]]]
       IN Sends(Append(pictures, message), {})

(* The model reads files, with one call or several side by side, and is asked again. *)
CallReads(batches) ==
    /\ pictures # << >> /\ Len(pictures) < MaxMessages
    /\ LET answers == [c \in DOMAIN batches |-> ReadBinary(batches[c])]
           message == [calls |-> Len(batches), pictures |-> FlattenSeq([c \in DOMAIN answers |-> answers[c].pictures])]
       IN Sends(Append(pictures, message), UNION {answers[c].items : c \in DOMAIN answers})

PicturesInit ==
    /\ native \in BOOLEAN
    /\ pictures = << >> /\ served = {} /\ wire = << >>

PicturesNext ==
    \/ \E items \in Attachments : Prompt(items)
    \/ \E batches \in Asked : CallReads(batches)

-----------------------------------------------------------------------------

(* The gateway takes no request with more images than its cap, and the model  *)
(* has to see what it is told it was given: no request carries more, what one *)
(* call or the user just attached is carried whole, a file reported attached  *)
(* has a picture there unless it goes as a file, a selection of pages all its *)
(* pages, and a picture is displaced only by newer ones.                      *)
PicturesShown ==
    LET carried == {<<m, k>> \in (1 .. Len(wire)) \X (1 .. 2 * (ImageCap + Frames + PdfPages)) :
                        k \in DOMAIN wire[m] /\ wire[m][k] # ImageNote}
        newest == pictures[Len(pictures)]
        seen(item) == {p.part : p \in {q \in ToSet(newest.pictures) : q.of = item}}
    IN wire # << >> =>
        /\ ImageCap # 0 => Cardinality(carried) <= ImageCap
        /\ newest.calls <= 1 => wire[Len(wire)] = newest.pictures
        /\ \A item \in served :
               /\ RendersImages(item) => seen(item) # {}
               /\ item.file.media = "pdf" /\ ~native => seen(item) = PagesOf(item.pages, item.file.length)
        /\ \A <<m, k>> \in carried, n \in DOMAIN wire, j \in 1 .. ImageCap :
               (n > m \/ (n = m /\ j > k)) /\ j \in DOMAIN wire[n] => wire[n][j] # ImageNote
==============================================================================
