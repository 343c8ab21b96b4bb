------------------------------ MODULE MCFiles ------------------------------
(***************************************************************************)
(* Directories: a root, an empty folder, which has two entries, and the     *)
(* empty root of another drive; or a folder in a folder.  Files of up to    *)
(* two bytes, enough for the magic number of a program.  Two drives with a  *)
(* directory in a directory.                                                *)
(***************************************************************************)
EXTENDS Files, Sequences

MCTree ==
    [p \in {<<>>, <<"a">>, <<"e">>} |->
        CASE p = <<>>    -> <<"a">>
          [] p = <<"a">> -> <<".", "..">>
          [] p = <<"e">> -> <<>>]
MCNames == [abs : {TRUE}, path : {<<"a">>, <<"e">>, <<"x">>}]
       \cup [abs : {FALSE}, path : {<<"a">>}]

DeepTree ==
    [p \in {<<>>, <<"a">>, <<"a", "b">>} |->
        CASE p = <<>>         -> <<"a">>
          [] p = <<"a">>      -> <<".", "..", "b">>
          [] p = <<"a", "b">> -> <<".", "..">>]
RelativeNames == [abs : {FALSE}, path : {<<"b">>}]

MCContents == {<<>>, <<"z">>, <<"60", "1A">>}
MCPieces == {<<"z">>}
MCPaths == {<<>>, <<"a">>, <<"a", "b">>}
MCMissing == <<"x">>
=============================================================================
