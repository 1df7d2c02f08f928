------------------------------ MODULE MCServices ------------------------------
(* Small instances of the modules of the server's services. *)
EXTENDS Search, Access, Accounts, Confirmation, Compaction, Inventory, TLC

\* Search: two documents in two of three casebases, a text of two lines.
FoundContent == {<< >>, <<"x", "n", "x">>}
Homes == ("r1" :> [store |-> "own", stem |-> "a"]) @@ ("r2" :> [store |-> "group", stem |-> "b"])
HiddenScopes == {[s \in Store |-> {}], ("own" :> {"b"}) @@ ("group" :> {"a"}) @@ ("other" :> {})}

\* Access: a member who may read one group and write another, a forger, an admin who
\* acts for somebody and one who does not, and somebody who may not.
Granting(id, permission) == [id |-> id, permission |-> permission]
Wants(group, write) == [group |-> group, write |-> write]
Plain0 == [kid |-> "k1", genuine |-> TRUE, holds |-> TRUE, sub |-> "ada", entries |-> {},
           roles |-> {}, actsFor |-> "none", asks |-> Wants("~", TRUE)]
Member == [Plain0 EXCEPT !.kid = "k2", !.entries = {
    Granting("g", "read"), Granting("g", "none"), Granting("h", "read"), Granting("?", "write")}]
Admin == [Plain0 EXCEPT !.roles = {"admin"}, !.entries = {Granting("g", "write")}, !.actsFor = "bob"]
Tokens == {
    [Member EXCEPT !.asks = Wants("g", TRUE)], [Member EXCEPT !.asks = Wants("h", TRUE)],
    [Plain0 EXCEPT !.genuine = FALSE], Admin, [Admin EXCEPT !.asks = Wants("g", TRUE)],
    [Plain0 EXCEPT !.actsFor = "bob"]}

\* Accounts: a passage is added, or put in place of another.
Edits == {[old |-> "none", new |-> "x"], [old |-> "x", new |-> "y"]}

\* Confirmation: a write bound to no text, one bound to the text it read, an edit and a
\* deletion of one document.
Writing == [tool |-> "write", target |-> "t", find |-> NoText, text |-> "y", expected |-> AnyHash]
ConfirmedCalls == {
    Writing, [Writing EXCEPT !.expected = "x"], [Writing EXCEPT !.tool = "edit", !.find = "x"],
    [Writing EXCEPT !.tool = "delete", !.text = NoText]}

\* Inventory: an entry, of three parts or a lone original dropped by hand, and one of the
\* same name in a directory.
InRoot(name, ext) == [in |-> << >>, name |-> name, ext |-> ext]
InD(name) == [in |-> <<"d">>, name |-> name]
Beside(parts, indexed) ==
    [nodes |-> parts \cup {InRoot("d", "dir"), [in |-> <<"d">>, name |-> "x", ext |-> "md"]},
     rows |-> indexed \cup {InD("x")}]
Shelved == {Beside({InRoot("x", "md"), InRoot("x", "pdf"), InRoot("x", "assets")}, {[in |-> << >>, name |-> "x"]}),
            Beside({InRoot("x", "pdf")}, {})}
Wheres == {<< >>, <<"d">>, <<"e">>}
===============================================================================
