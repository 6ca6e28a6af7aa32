--------------------------- MODULE MCServerFiles ---------------------------
(* A tree for ServerFiles: "srv", where the process starts, has the        *)
(* subdirectory "data"; "home" is apart.  There is a list in each, and     *)
(* the files they name differ from directory to directory.                 *)
EXTENDS ServerFiles, TLC

MCDirs == {"srv", "data", "home"}
MCSubDir == [d \in MCDirs |-> IF d = "srv" THEN "data" ELSE "none"]
MCClps == {<<"srv", "a">>, <<"srv", "b">>, <<"data", "a">>, <<"data", "b">>, <<"home", "a">>}

InPlace(n) == [dir |-> Here, name |-> n]
MCLists ==
    (<<"srv", "list">> :> <<InPlace("a"), [dir |-> Below, name |-> "b"]>>) @@
    (<<"data", "list">> :> <<InPlace("a"), InPlace("b"), InPlace("a")>>) @@
    (<<"home", "list">> :> <<InPlace("a"), [dir |-> "srv", name |-> "a"]>>)
MCInitialFiles == {[dir |-> Below, name |-> "list"], [dir |-> "home", name |-> "a"]}
MCBroken == {<<"data", "b">>}
MCCalling == {<<"home", "a">>}
=============================================================================
