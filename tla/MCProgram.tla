----------------------------- MODULE MCProgram ------------------------------
(* A program over a workspace or a folder of a few files. *)
EXTENDS Program

CONSTANTS wsDir, tmpDir, dDir, aDir

N(stem, ext) == [stem |-> stem, ext |-> ext]
ws == N("~", "")
tmp == N("tmp", "")
kept == N("kept", "")
d == N("d", "")
e == N("e", "")

Workspaces == {ws}
KeptName == kept
Dirs == {wsDir, tmpDir, dDir, aDir, Made}
Binaries == {<<"g">>}
HiddenFiles == {<<"s">>}
OpaqueExts == {"bin"}
NoFiles == <<>>

Roots == <<ws>> :> wsDir @@ <<tmp>> :> tmpDir

Documents ==
    Roots @@ <<ws, N("x", "md")>> :> <<"f">> @@ <<ws, d>> :> dDir @@ <<ws, d, N("x", "md")>> :> <<"h">>

Partly ==
    Roots @@ <<ws, d>> :> dDir @@ <<ws, d, N("x", "md")>> :> <<"h">> @@ <<ws, d, N("y", "md")>> :> <<"s">>

Parted ==
    Roots @@ <<ws, N("x", "md")>> :> <<"f">> @@ <<ws, N("x", "bin")>> :> <<"g">> @@ <<ws, N("x", "assets")>> :> aDir

Folder ==
    Roots @@ <<tmp, N("x", "")>> :> <<"f">> @@ <<tmp, d>> :> dDir @@ <<tmp, d, N("x", "")>> :> <<"h">>

Both == Roots @@ <<tmp, N("x", "")>> :> <<"f">> @@ <<ws, N("y", "md")>> :> <<"h">>

Inst(tree, named) == [tree |-> tree, named |-> named]

InDocuments ==
    Inst(Documents, {<<ws, N("x", "md")>>, <<ws, d>>, <<ws, d, N("x", "md")>>, <<ws, e>>, <<ws, e, N("x", "md")>>})

InEntry == Inst(Parted, {<<ws, N(s, x)>> : s \in {"x", "y"}, x \in {"md", "bin"}})

InFolder ==
    Inst(Folder, {<<tmp, N("x", "")>>, <<tmp, d>>, <<tmp, d, N("x", "")>>, <<tmp, e>>, <<tmp, e, N("x", "")>>})

AcrossRoots ==
    Inst(Both, {<<tmp, N("x", "")>>, <<tmp, d>>, <<ws, N("x", "")>>, <<ws, N("y", "md")>>, <<tmp, N("y", "md")>>,
                <<tmp, N("x", ""), d, e>>})

InPart == Inst(Partly, {<<ws, d>>, <<ws, d, N("x", "md")>>, <<ws, d, N("y", "md")>>, <<ws, e>>})

All == {InDocuments, InEntry, InFolder, AcrossRoots, InPart}
=============================================================================
