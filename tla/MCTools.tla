------------------------------- MODULE MCTools -------------------------------
(* Small instances of the tools' modules. *)
EXTENDS Reading, Documents, WebPages, Ingest, Tables, Pictures, Formats

CONSTANTS u1, u2, c1, c2, t1, t2

\* Reading: lines of several widths, one wider than every share.
Texts == {<< >>, <<9, 2, 2, 1>>, <<1, 1, 1, 1, 1>>}

\* Documents: a document with a table and a payload, a directory and its build
\* directory, links within and out of the workspace.
Name(stem, ext) == [stem |-> stem, ext |-> ext]
TheUser == Name("~", "")
TheGroup == Name("@g", "")
TheTmp == Name("/tmp", "")
Other == Name("other", "")
Build == Name("build", "")
SigilNames == {TheUser, TheGroup, TheTmp, Name("@h", "")}
Report == Name("r", "md")
Table == Name("r", "csv")
Payload == Name("r", "assets")
Note2 == Name("x", "md")
Dir == Name("d", "")
Link == Name("l", "")

File(hits) == [kind |-> "file", to |-> << >>, hits |-> hits]
Folder == [kind |-> "dir", to |-> << >>, hits |-> 0]
LinkTo(p) == [kind |-> "link", to |-> p, hits |-> 0]

Bare == (<<TheUser>> :> Folder) @@ (<<TheGroup>> :> Folder) @@ (<<TheUser, Dir>> :> Folder)
          @@ (<<Other>> :> Folder) @@ (<<Other, Note2>> :> File(1))
Linked == Bare @@ (<<TheUser, Link>> :> LinkTo(<<TheUser, Dir>>))
            @@ (<<TheUser, Dir, Note2>> :> File(1)) @@ (<<TheUser, Payload>> :> Folder)
TreeSet == {
    Linked @@ (<<TheUser, Report>> :> File(1)) @@ (<<TheUser, Table>> :> File(2))
           @@ (<<TheUser, Payload, Name("f", "md")>> :> File(1)),
    Linked @@ (<<TheUser, Report>> :> File(0)) @@ (<<TheUser, Table>> :> File(1)),
    Bare @@ (<<TheUser, Dir, Build>> :> Folder) @@ (<<TheUser, Dir, Build, Note2>> :> File(1))
         @@ (<<TheUser, Dir, Report>> :> LinkTo(<<Other, Note2>>)) @@ (<<TheUser, Link>> :> File(1))
         @@ (<<TheUser, Report>> :> LinkTo(<<TheUser, Link>>))
         @@ (<<TheGroup, Report>> :> File(1)) @@ (<<TheGroup, Dir>> :> Folder)
         @@ (<<TheTmp>> :> Folder) @@ (<<TheTmp, Note2>> :> File(2))}

AFile(p) == [path |-> p, dir |-> FALSE]
ADir(p) == [path |-> p, dir |-> TRUE]
Hiding(own, group) == (TheUser :> own) @@ (TheGroup :> group) @@ (TheTmp :> {})
SelectionSet == {
    Hiding({}, {}), Hiding({AFile(<<Report>>)}, {ADir(<< >>)}), Hiding({ADir(<<Dir>>)}, {}),
    Hiding({AFile(<<Link>>)}, {}), Hiding({AFile(<<Table>>), AFile(<<Dir, Note2>>)}, {AFile(<<Report>>)})}

Stems == {"~", "@g", "@h", "/tmp", "other", "build", "r", "R", "f", "d", "D", "x", "l", ".."}
LowerOf == [s \in Stems |-> CASE s = "R" -> "r" [] s = "D" -> "d" [] OTHER -> s]
RankOf == [x \in {"", "assets", "csv", "md", "png"} |->
              CASE x = "" -> 0 [] x = "assets" -> 1 [] x = "csv" -> 2 [] x = "md" -> 3 [] OTHER -> 4]
BuildNames == {Build}
VisionExts == {"png"}
TabularExts == {"csv"}
SpellingSet == {
    << >>, <<TheUser>>, <<TheGroup>>, <<TheUser, Report>>, <<TheUser, Name("R", "md")>>, <<Report>>,
    <<TheUser, Dir, Up, Report>>, <<TheUser, Link>>, <<TheUser, Link, Note2>>,
    <<TheUser, Up, Other, Note2>>, <<TheUser, Name("D", "")>>, <<Dir>>, <<TheTmp, Note2>>,
    <<Name("@h", ""), Report>>, <<TheGroup, Report>>, <<TheUser, Name("R", "csv")>>,
    <<TheUser, Dir, Report>>, <<TheUser, Name("r", "png")>>}

\* WebPages: a page the user wrote the URL of, which links to another.
UrlSet == {u1, u2}
LinksFrom == (u1 :> {u2}) @@ (u2 :> {})
WrittenSet == {u1}

\* Ingest: files of every projection, one that kills the worker converting it, and
\* one with images: two of one picture, two blank ones, a logo.
Upload2 == {"a", "b"}
Image(look, key, role, small) == [look |-> look, key |-> key, role |-> role, small |-> small]
Pictures ==
    (Name("a", "png") :> Image("plan", "k1", "informative", FALSE))
      @@ (Name("b", "png") :> Image("plan", "k1", "unknown", FALSE))
      @@ (Name("c", "png") :> Image("red", "none", "unknown", FALSE))
      @@ (Name("c", "gif") :> Image("blue", "none", "informative", TRUE))
      @@ (Name("e", "png") :> Image("logo", "k2", "decorative", FALSE))
      @@ (Name("f", "png") :> Image("plan", "k1", "unknown", TRUE))
NameOrder == [n \in DOMAIN Pictures |->
    CASE n.stem = "a" -> 1 [] n.stem = "b" -> 2 [] n.ext = "gif" -> 3 [] n.stem = "c" -> 4
      [] n.stem = "e" -> 5 [] OTHER -> 6]
Plain == [kind |-> "convertible", text |-> TRUE, rich |-> FALSE, office |-> FALSE, poison |-> FALSE,
          converts |-> "well", recovers |-> FALSE, images |-> << >>, refs |-> {},
          auto |-> TRUE, mode |-> "store"]
Rich == [Plain EXCEPT !.rich = TRUE, !.text = FALSE]
Illustrated == [Rich EXCEPT !.images = Pictures,
                   !.refs = (DOMAIN Pictures) \cup {Name("x", "web"), Name("y", "outside")}]
FileSet == {
    [Plain EXCEPT !.kind = "markdown"], [Plain EXCEPT !.kind = "image"], [Plain EXCEPT !.kind = "video"],
    [Plain EXCEPT !.kind = "markdown", !.text = FALSE], Plain, [Plain EXCEPT !.auto = FALSE],
    Illustrated, [Illustrated EXCEPT !.mode = "describe"],
    [Illustrated EXCEPT !.mode = "ignore", !.auto = FALSE],
    [Rich EXCEPT !.poison = TRUE, !.auto = FALSE],
    [Rich EXCEPT !.poison = TRUE, !.office = TRUE, !.recovers = TRUE],
    [Rich EXCEPT !.converts = "raises"], [Rich EXCEPT !.converts = "garbled", !.recovers = TRUE]}

\* Tables: headers under a title, above units, over two rows; a padded column, a
\* mixed one, a legacy encoding, a second sheet.
ParsesAs ==
    [cell \in {"", "x", "y", "kg", "7", "2.5", "007", "day"} |->
        CASE cell = "7" -> {"Int64", "Float64"} [] cell = "2.5" -> {"Float64"}
          [] cell = "007" -> {"Int64", "Float64"} [] cell = "day" -> {"Date"} [] OTHER -> {}]
DtypeOrder == <<"Int64", "Float64", "Date">>
Grids == {
    <<<<"x", "y">>, <<"kg", "kg">>, <<"7", "2.5">>, <<"2.5", "7">>>>,
    <<<<"kg", "">>, <<"x", "y">>, <<"", "kg">>, <<"7", "007">>, <<"7", "day">>>>,
    <<<<"x", "">>, <<"y", "x">>, <<"", "7">>, <<"kg", "7">>, <<"day", "7">>>>,
    <<<<"x", "x">>, <<"7", "">>, <<"kg", "day">>, <<"2.5", "kg">>>>,
    <<<<"", "">>, <<"kg", "x">>, <<"y", "7">>, <<"7", "7">>>>}
Grid(kind, text, grids) == [kind |-> kind, text |-> text, grids |-> grids]
Short == <<<<"x">>, <<"7">>>>
Tabulars ==
    {Grid("delimited", "utf8", [s \in {"first"} |-> g]) : g \in Grids}
      \cup {Grid("workbook", "utf8", ("first" :> g) @@ ("second" :> Short)) : g \in {g \in Grids : Len(g) = 4}}
Untyped ==
    {Grid("delimited", t, [s \in {"first"} |-> Short]) : t \in {"utf8", "legacy", "binary"}}
      \cup {Grid("other", "utf8", << >>)}
TableFiles == {(t1 :> f) @@ (t2 :> Grid("delimited", "legacy", [s \in {"first"} |-> Short])) : f \in Tabulars}
                \cup {(t1 :> Grid("workbook", "utf8", [s \in {"first"} |-> Short])) @@ (t2 :> f) : f \in Untyped}
Batches == {<<t1>>, <<t1, t2>>, <<t2, t1>>}
Asking(kind, takes, spells, returns, fails) ==
    [kind |-> kind, takes |-> takes, spells |-> spells, returns |-> returns, fails |-> fails]
Queried == {
    Asking("describe", {}, {}, 0, ""), Asking("select", {"x", "y"}, {}, 2, ""),
    Asking("select", {}, {"x"}, 1, ""), Asking("function", {}, {}, 0, ""),
    Asking("select", {"x"}, {}, 0, "no such column"), Asking("select", {"x"}, {"x"}, 0, "type")}

\* Pictures: two images a request; a file of every kind, too long and broken ones.
Media(kind, length) == [media |-> kind, length |-> length, sound |-> TRUE, large |-> FALSE, missing |-> FALSE]
Photo == Media("image/png", 1)
Whole(file) == [file |-> file, pages |-> << >>]
Part(file, first, last) == [file |-> file, pages |-> <<<<first, last>>>>]
Scan == Media("pdf", 3)
Clip == Media("video", 5)
Animation == Media("animation", 5)
Singles == {
    Whole(Photo), Whole([Photo EXCEPT !.large = TRUE]), Part(Photo, 1, 1), Whole(Media("none", 1)), Whole(Scan),
    Part(Scan, 2, 3), Part(Scan, 3, 4), Whole([Scan EXCEPT !.sound = FALSE]), Whole(Clip),
    Whole([Clip EXCEPT !.missing = TRUE]), Whole([Clip EXCEPT !.sound = FALSE]), Whole(Animation)}
AskedFor ==
    {<<<<a>>>> : a \in Singles}
    \cup {<<<<Whole(Photo), b>>>> : b \in Singles}
    \cup {<<<<a, b, c>>>> : a \in {Whole(Clip), Part(Scan, 2, 3)}, b, c \in {Whole(Photo), Whole(Animation), Whole(Scan)}}
    \cup {<<<<a>>, <<b>>>> : a, b \in {Whole(Photo), Whole(Clip), Part(Scan, 1, 1)}}
Given == [media |-> "image/png", large |-> FALSE]
Prompts == {<< >>, <<Given>>, <<Given, Given>>, <<Given, Given, Given>>, <<[Given EXCEPT !.large = TRUE]>>,
            <<[Given EXCEPT !.media = "text/plain"]>>}

\* Formats: names in every table and every overlap of two, hosts that lack or break packages.
FileNames == Alone({".md", ".txt", ".html", ".csv", ".xlsx", ".doc", ".pdf", ".png", ".bmp", ".svg", ".mp4",
                    ".json", ".org", ".py", ".parquet"})
             \cup {<< >>, <<".dclg", ".xml">>, <<".tar", ".gz">>}
Hosts == {
    [installed |-> {"docling", "tesserocr", "kreuzberg", "pandoc", "tree_sitter"}, broken |-> {}],
    [installed |-> {"docling", "tesserocr"}, broken |-> {"docling", "anydoc"}],
    [installed |-> {"docling", "kreuzberg", "pandoc"}, broken |-> {"kreuzberg"}]}
=============================================================================
