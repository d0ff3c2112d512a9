------------------------------ MODULE MCStartup ------------------------------
(***************************************************************************)
(* Startup on small sets of texts: a path with and one without a separator  *)
(* at its end, for -i and for the root; a script in a directory, and the    *)
(* empty file name.                                                        *)
(***************************************************************************)
EXTENDS Startup

MCPiece == STRING
MCPaths == {<<"lib">>, <<"/", "opt", "/">>}
MCScripts == {<<"app", "/", "run.lua">>, <<>>}
MCValues == {<<"srv">>, <<"srv", "/">>}
=============================================================================
