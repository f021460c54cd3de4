--------------------------- MODULE MCPebbleBench ---------------------------
(***************************************************************************)
(* A small instance of PebbleBench for TLC.                                *)
(***************************************************************************)
EXTENDS PebbleBench

\* The same engine and chunk size twice: the second run finds what the first one
\* left behind.
MCQueue == <<"chunk_2", "chunk_2">>
=============================================================================
