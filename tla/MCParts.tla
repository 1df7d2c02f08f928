------------------------------- MODULE MCParts -------------------------------
(***************************************************************************)
(* The tools' and the services' modules share no state, so one run checks  *)
(* each by itself: the first state says which, and the others rest.        *)
(***************************************************************************)
EXTENDS MCTools, MCServices

VARIABLE topic

ReadingRests == texts = [p \in Places |-> << >>] /\ edits = 0
                /\ read = [p \in Places |-> [Fresh EXCEPT !.at = 0]]
DocumentsRest == disk = << >> /\ folds = FALSE /\ counted = Idle /\ call = NoCall
                 /\ hidden = Hiding({}, {})
ConfirmationRests == ConfirmationInit /\ documents = [t \in Target |-> NoText]
TablesRest == files = << >> /\ answer = Unasked /\ followed = None
PicturesRest == PicturesInit /\ native = FALSE
FormatsRest == FormatInit /\ host = CHOOSE h \in Host : TRUE
CompactionRests == CompactionInit /\ output = CHOOSE o \in Outputs : TRUE
InventoryRests == InventoryInit /\ shelf = (CHOOSE s \in Shelves : TRUE).nodes
AccountsRest == AccountInit /\ memo = Nothing

Topics == {"reading", "documents", "web", "ingest", "search", "access", "accounts", "confirmation",
           "tables", "pictures", "formats", "compaction", "inventory"}

Init ==
    /\ topic \in Topics
    /\ IF topic = "reading" THEN ReadInit ELSE ReadingRests
    /\ IF topic = "documents" THEN DocumentsInit ELSE DocumentsRest
    /\ IF topic = "confirmation" THEN ConfirmationInit ELSE ConfirmationRests
    /\ IF topic = "compaction" THEN CompactionInit ELSE CompactionRests
    /\ IF topic = "accounts" THEN AccountInit ELSE AccountsRest
    /\ IF topic = "tables" THEN TableInit ELSE TablesRest
    /\ IF topic = "formats" THEN FormatInit ELSE FormatsRest
    /\ IF topic = "pictures" THEN PicturesInit ELSE PicturesRest
    /\ IF topic = "inventory" THEN InventoryInit ELSE InventoryRests
    /\ WebInit /\ IngestInit /\ SearchInit /\ AccessInit

\* Every topic but the one that is checked stays as it began.
OthersRest ==
    /\ IF topic = "reading" THEN TRUE ELSE UNCHANGED readVars
    /\ IF topic = "documents" THEN TRUE ELSE UNCHANGED documentVars
    /\ IF topic = "web" THEN TRUE ELSE UNCHANGED webVars
    /\ IF topic = "ingest" THEN TRUE ELSE UNCHANGED ingestVars
    /\ IF topic = "search" THEN TRUE ELSE UNCHANGED searchVars
    /\ IF topic = "access" THEN TRUE ELSE UNCHANGED accessVars
    /\ IF topic = "accounts" THEN TRUE ELSE UNCHANGED accountVars
    /\ IF topic = "confirmation" THEN TRUE ELSE UNCHANGED confirmationVars
    /\ IF topic = "tables" THEN TRUE ELSE UNCHANGED tableVars
    /\ IF topic = "pictures" THEN TRUE ELSE UNCHANGED pictureVars
    /\ IF topic = "formats" THEN TRUE ELSE UNCHANGED formatVars
    /\ IF topic = "compaction" THEN TRUE ELSE UNCHANGED compactionVars
    /\ IF topic = "inventory" THEN TRUE ELSE UNCHANGED inventoryVars
    /\ UNCHANGED topic

Next ==
    \/ topic = "reading" /\ ReadNext /\ OthersRest
    \/ topic = "documents" /\ DocumentsNext /\ OthersRest
    \/ topic = "web" /\ WebNext /\ OthersRest
    \/ topic = "ingest" /\ IngestNext /\ OthersRest
    \/ topic = "search" /\ SearchNext /\ OthersRest
    \/ topic = "access" /\ AccessNext /\ OthersRest
    \/ topic = "accounts" /\ AccountNext /\ OthersRest
    \/ topic = "confirmation" /\ ConfirmationNext /\ OthersRest
    \/ topic = "tables" /\ TableNext /\ OthersRest
    \/ topic = "pictures" /\ PicturesNext /\ OthersRest
    \/ topic = "formats" /\ FormatNext /\ OthersRest
    \/ topic = "compaction" /\ CompactionNext /\ OthersRest
    \/ topic = "inventory" /\ InventoryNext /\ OthersRest

vars == <<topic, readVars, documentVars, webVars, ingestVars, searchVars, accessVars, accountVars,
          confirmationVars, tableVars, pictureVars, formatVars, compactionVars, inventoryVars>>

Spec == Init /\ [][Next]_vars
==============================================================================
