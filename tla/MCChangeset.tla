---------------------------- MODULE MCChangeset -----------------------------
(* Changesets of up to two or three items over a workspace and a folder of files. *)
EXTENDS Changeset

CONSTANTS wsDir, tmpDir, dDir, eDir, aDir, keptDir, f, g, h, r1, r2, r3

N(stem, ext) == [stem |-> stem, ext |-> ext]
ws == N("~", "")
tmp == N("tmp", "")
kept == N("kept", "")
d == N("d", "")
e == N("e", "")

Workspaces == {ws}
KeptName == kept

Dirs == {wsDir, tmpDir, dDir, eDir, aDir, keptDir, Made, HalfMade}
HiddenFiles == {r1}
FilesByAge == <<r1, r2, r3>>
Binaries == {g}
OpaqueExts == {"bin"}

Roots == <<ws>> :> wsDir @@ <<tmp>> :> tmpDir

\* An entry of three parts, and a directory with another.
Documents ==
    Roots @@ <<ws, N("x", "md")>> :> f @@ <<ws, N("x", "bin")>> :> g @@ <<ws, N("x", "assets")>> :> aDir
          @@ <<ws, d>> :> dDir @@ <<ws, d, N("y", "md")>> :> h

\* A folder with one file in a directory and one beside it.
Folder ==
    Roots @@ <<tmp, d>> :> dDir @@ <<tmp, d, N("x", "")>> :> f @@ <<tmp, N("y", "")>> :> h
          @@ <<tmp, e>> :> eDir

\* A folder the host keeps results in, at its quota.
Results ==
    Roots @@ <<tmp, kept>> :> keptDir @@ <<tmp, kept, N("x", "")>> :> r1 @@ <<tmp, kept, N("y", "")>> :> r2
          @@ <<tmp, N("y", "")>> :> r3

\* A directory with a document the caller does not see.
Partly ==
    Roots @@ <<ws, d>> :> dDir @@ <<ws, d, N("x", "md")>> :> r1 @@ <<ws, d, N("y", "md")>> :> f

ResultItems ==
    {Write(p, m, <<>>, Unseen) : m \in {"replace", "create"},
        p \in {<<tmp, kept, N(s, "")>> : s \in {"x", "y", "z"}} \cup {<<tmp, N("z", "")>>}}
    \cup {Delete(p, "any", Unseen) : p \in {<<tmp, kept, N("x", "")>>, <<tmp, N("y", "")>>, <<tmp, kept>>}}
    \cup {Move(<<tmp, kept, N("x", "")>>, <<tmp, N("z", "")>>, Unseen)}

PartItems ==
    {Move(<<ws, d>>, <<ws, e>>, Unseen), Move(<<ws, d, N("y", "md")>>, <<ws>>, Unseen), Delete(<<ws, d>>, "any", Unseen)}
    \cup {Write(<<ws, d, N("y", "md")>>, "replace", <<>>, Snapshot(tree, <<ws, d, N("y", "md")>>)) :
             tree \in {Partly, Partly @@ <<ws, d, N("y", "md")>> :> g, <<>>}}

DocItems ==
    LET src == {<<ws, N("x", "md")>>, <<ws, N("x", "bin")>>, <<ws, d>>, <<ws, d, N("y", "md")>>}
        dst == {<<ws>>, <<ws, N("y", "md")>>, <<ws, d>>, <<ws, e>>, <<ws, d, N("x", "md")>>,
                <<ws, e, N("y", "md")>>, <<ws, d, e>>}
    IN {Move(p, q, Unseen) : p \in src, q \in dst} \cup {Delete(p, "any", Unseen) : p \in src}
       \cup {Delete(<<ws, d>>, "entry", Unseen)}
       \cup {Write(p, m, <<>>, Unseen) : p \in {<<ws, N("x", "md")>>, <<ws, N("y", "md")>>, <<ws, N("y", "txt")>>,
                                  <<ws, N("x", "bin")>>, <<ws, e, N("y", "md")>>, <<ws, d>>},
                           m \in {"create", "append", "replace"}}
       \cup {CreateDir(p) : p \in {<<ws, d>>, <<ws, e>>, <<ws, e, d>>}}

HostItems ==
    {Upload(p, o) : p \in {<<ws, N("x", "md")>>, <<ws, N("x", "bin")>>, <<ws, N("y", "txt")>>,
                           <<ws, d, N("y", "md")>>, <<ws, d, N("x", "bin")>>}, o \in BOOLEAN}

FolderItems ==
    LET src == {<<tmp, d>>, <<tmp, d, N("x", "")>>, <<tmp, N("y", "")>>, <<tmp, e>>}
        dst == {<<tmp>>, <<tmp, d>>, <<tmp, N("x", "")>>, <<tmp, N("y", "")>>, <<tmp, e, N("x", "")>>,
                <<tmp, e, d>>, <<tmp, kept, N("x", "")>>, <<ws, N("y", "md")>>}
    IN {Move(p, q, Unseen) : p \in src, q \in dst} \cup {Delete(p, "any", Unseen) : p \in src}
       \cup {Write(p, m, <<>>, Unseen) : p \in {<<tmp, N("x", "")>>, <<tmp, N("y", "")>>, <<tmp, d, N("x", "")>>,
                                  <<tmp, e, N("y", "")>>, <<tmp, d>>}, m \in {"replace", "append"}}
       \cup {CreateDir(p) : p \in {<<tmp, d>>, <<tmp, e, d>>, <<tmp, N("y", ""), d>>}}

\* Items that meet each other: swaps, chains, what leaves a directory that goes.
DocCore ==
    LET x == <<ws, N("x", "md")>> y == <<ws, d, N("y", "md")>> IN
    {Move(x, <<ws, d>>, Unseen), Move(x, y, Unseen), Move(y, x, Unseen), Move(y, <<ws, e, N("y", "md")>>, Unseen),
     Move(<<ws, d>>, <<ws, e>>, Unseen), Move(<<ws, d>>, <<ws, e, d>>, Unseen), Delete(<<ws, d>>, "any", Unseen),
     Delete(x, "any", Unseen), Write(x, "replace", <<>>, Unseen), Write(y, "create", <<>>, Unseen),
     Write(<<ws, N("x", "txt")>>, "replace", <<>>, Unseen), Write(<<ws, d>>, "create", <<>>, Unseen),
     CreateDir(<<ws, d>>), CreateDir(<<ws, d, e>>)}

FolderCore ==
    LET x == <<tmp, d, N("x", "")>> y == <<tmp, N("y", "")>> IN
    {Move(x, y, Unseen), Move(y, x, Unseen), Move(x, <<tmp, d, N("y", "")>>, Unseen), Move(<<tmp, d>>, <<tmp, e, d>>, Unseen),
     Move(<<tmp, e>>, <<tmp, d>>, Unseen), Move(<<tmp, d>>, y, Unseen), Delete(<<tmp, d>>, "any", Unseen),
     Delete(y, "any", Unseen), Write(x, "replace", <<>>, Unseen), Write(y, "replace", <<>>, Unseen),
     Write(<<tmp, e, N("y", "")>>, "create", <<>>, Unseen), CreateDir(<<tmp, d>>), CreateDir(<<tmp, d, e>>)}

HostCore ==
    {Upload(<<ws, N("x", "md")>>, TRUE), Upload(<<ws, N("x", "txt")>>, TRUE), Upload(<<ws, N("y", "bin")>>, FALSE)}

Of(tree, set, for) == [tree : {tree}, items : set, host : {for}]

Pairs ==
    Of(Documents, {<<i, j>> : i, j \in DocItems}, FALSE)
    \cup Of(Folder, {<<i, j>> : i, j \in FolderItems}, FALSE)
    \cup Of(Results, {<<i, j>> : i, j \in ResultItems}, FALSE)
    \cup Of(Results, {<<i, j>> : i, j \in ResultItems}, TRUE)
    \cup Of(Partly, {<<i, j>> : i, j \in PartItems}, FALSE)
    \cup Of(Documents, {<<i, j>> : i \in HostItems, j \in DocItems \cup HostItems}, TRUE)

Several ==
    Pairs
    \cup Of(Documents, {<<i, j, o>> : i, j, o \in DocCore}, FALSE)
    \cup Of(Folder, {<<i, j, o>> : i, j, o \in FolderCore}, FALSE)
    \cup Of(Documents, {<<i, j, o>> : i \in HostCore, j, o \in DocCore \cup HostCore}, TRUE)
=============================================================================
