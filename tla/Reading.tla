------------------------------- MODULE Reading -------------------------------
(***************************************************************************)
(* How a model reads texts longer than one answer (tools/documents.py,     *)
(* tools/formatting.py, tools/base.py, agents/guards.py): read_document    *)
(* shows a window of lines and names the offset to read on from, a batch   *)
(* of reads splits one budget, and a result no answer can hold is saved    *)
(* whole and shown around a note that says where a read of it goes on.     *)
(*                                                                         *)
(* A text is the sequence of its lines' widths; what a line says is left   *)
(* out.                                                                    *)
(***************************************************************************)
EXTENDS Naturals, Batches

CONSTANTS
    Doc,          \* the documents a model reads
    Saved,        \* the file a result too large to show is saved as
    Text,         \* the texts a document may hold
    MaxChars,     \* ReadDocumentTool.max_chars
    MaxLineChars, \* ReadDocumentTool.max_line_chars
    MaxOutput,    \* ToolOutputSpill.max_chars
    Number,       \* characters of a line's number
    Note,         \* characters of the note standing for what was left out
    MaxEdits      \* bound on changes of a document while it is read

VARIABLES
    texts,  \* what each document holds
    read,   \* per document: the line to go on from (0 once read), and the lines shown
    edits   \* how often a document was changed

readVars == <<texts, read, edits>>

Places == Doc \cup {Saved}
Least(a, b) == IF a < b THEN a ELSE b
Fresh == [at |-> 1, got |-> << >>, same |-> TRUE, cut |-> FALSE]

-----------------------------------------------------------------------------
(* Batches and windows.                                                    *)

(* A line as it is shown, numbered and clipped. *)
Rendered(width, full) ==
    Number + (IF full THEN width ELSE Least(width, MaxLineChars))

(* What the first k lines of a window take, a line break between two. *)
Size(lines, k, full) ==
    FoldSeq(LAMBDA w, sum : Rendered(w, full) + sum, 0, SubSeq(lines, 1, k)) + k - 1

(* fit_window: the last line shown of a text from `at` on (at - 1 for none): the *)
(* lines that fit, the first one however long it is.                             *)
FitWindow(lines, at, budget, limit, full) ==
    LET stop == IF limit = 0 THEN Len(lines) ELSE Least(Len(lines), at + limit - 1)
        window == SubSeq(lines, at, stop)
    IN at - 1 + Max({k \in 0 .. Len(window) : k <= 1 \/ Size(window, k, full) <= budget})

\* The first line has to fit as well.
After_FirstMustFit(r, lines, budget, limit, full) ==
    LET first == Rendered(lines[r.at], full) <= budget
        end == IF r.at > Len(lines) \/ first THEN FitWindow(lines, r.at, budget, limit, full)
               ELSE r.at - 1
    IN [r EXCEPT !.at = IF end >= Len(lines) THEN 0 ELSE end + 1,
                 !.got = @ \o [i \in 1 .. end + 1 - r.at |-> r.at + i - 1]]

(* What a model that follows the hints knows of a text after one window of it: *)
(* past the end, and at the end, there is nothing to read on to.               *)
After(r, lines, budget, limit, full) ==
    LET end == FitWindow(lines, r.at, budget, limit, full)
    IN [r EXCEPT !.at = IF end >= Len(lines) THEN 0 ELSE end + 1,
                 !.got = @ \o [i \in 1 .. end + 1 - r.at |-> r.at + i - 1]]

(* read_document over a batch: every read gets its share of the one budget. *)
ReadDocuments(batch, limit, full) ==
    /\ batch # << >>
    /\ IsInjective(batch)
    /\ \A i \in DOMAIN batch : read[batch[i]].at # 0
    /\ read' = [p \in Places |->
          IF \E i \in DOMAIN batch : batch[i] = p
          THEN LET i == CHOOSE i \in DOMAIN batch : batch[i] = p
               IN After(read[p], texts[p], ShareOf(MaxChars, i, Len(batch)), limit, full)
          ELSE read[p]]
    /\ UNCHANGED <<texts, edits>>

-----------------------------------------------------------------------------
(* Results too large to show.                                              *)

(* Where the line end after the k-th line is, and how long a text is. *)
LineEnd(lines, k) == FoldSeq(LAMBDA w, sum : w + sum, 0, SubSeq(lines, 1, k)) + k - 1
Length(lines) == IF lines = << >> THEN 0 ELSE LineEnd(lines, Len(lines))

(* _head_and_tail: the lines the head of a cut text shows whole, and the     *)
(* line ends it holds. A head without a line end to cut at ends in a line.   *)
HeadOf(lines, room) ==
    LET headRoom == (room * 3) \div 4
        whole == {k \in 1 .. Len(lines) - 1 : LineEnd(lines, k) <= headRoom}
        breaks == Cardinality({k \in whole : LineEnd(lines, k) < headRoom})
    IN IF whole # {} /\ LineEnd(lines, Max(whole)) > 0
       THEN [lines |-> Max(whole), breaks |-> Max(whole) - 1, empty |-> FALSE, cut |-> FALSE]
       ELSE [lines |-> breaks, breaks |-> breaks, empty |-> headRoom = 0, cut |-> headRoom > 0]

(* _saved_note: the line a read of the saved result goes on from. *)
NotedOffset(head) == IF head.empty THEN 1 ELSE head.breaks + 2

(* ToolOutputSpill.after_tool_execute: a text too large is saved and shown      *)
(* around the note; where not even the note fits, the note is all that is shown. *)
Spill(lines) ==
    /\ Length(lines) > MaxOutput
    /\ read[Saved].at = 0
    /\ read[Saved].got = << >>
    /\ texts' = [texts EXCEPT ![Saved] = lines]
    /\ LET fits == MaxOutput >= Note + 2
           head == IF fits THEN HeadOf(lines, MaxOutput - Note - 2)
                   ELSE [lines |-> 0, breaks |-> 0, empty |-> TRUE, cut |-> FALSE]
           at == NotedOffset(head)
       IN read' = [read EXCEPT ![Saved] =
             [at |-> IF at > Len(lines) THEN 0 ELSE at,
              got |-> [i \in 1 .. head.lines |-> i], same |-> TRUE, cut |-> head.cut]]
    /\ UNCHANGED edits

(* Somebody changes a document that is being read. *)
ChangeDocument(d, lines) ==
    /\ edits < MaxEdits
    /\ lines # texts[d]
    /\ edits' = edits + 1
    /\ texts' = [texts EXCEPT ![d] = lines]
    /\ read' = [read EXCEPT ![d].same = FALSE]

-----------------------------------------------------------------------------
ReadInit ==
    /\ texts \in {[p \in Places |-> IF p = Saved THEN << >> ELSE f[p]] : f \in [Doc -> Text]}
    /\ read = [p \in Places |-> IF p = Saved THEN [Fresh EXCEPT !.at = 0] ELSE Fresh]
    /\ edits = 0

ReadSome ==
    \E batch \in SeqOf(Places, 2), limit \in {0, 1}, full \in BOOLEAN :
        ReadDocuments(batch, limit, full)

ReadNext ==
    \/ ReadSome
    \/ \E lines \in Text : Spill(lines)
    \/ \E d \in Doc, lines \in Text : ChangeDocument(d, lines)

-----------------------------------------------------------------------------
(* Every window of a text leads on, however small its share or long a line, so *)
(* a model that follows the offsets comes to the end, and has then been shown  *)
(* every line exactly once and in order, of a saved result as of a document.   *)
(* Left out are a document changed meanwhile, and a result whose head holds no *)
(* line end: the rest of the line it ends in is what no offset leads to        *)
(* (README, Departures).                                                       *)
ReadThrough ==
    \A p \in Places :
        /\ read[p].at = 0 /\ read[p].same /\ ~read[p].cut
              => read[p].got = [i \in 1 .. Len(texts[p]) |-> i]
        /\ \A n \in {1, 2}, limit \in {0, 1}, full \in BOOLEAN : \A i \in 1 .. n :
              read[p].at # 0 =>
                 After(read[p], texts[p], ShareOf(MaxChars, i, n), limit, full).at \notin 1 .. read[p].at

=============================================================================
