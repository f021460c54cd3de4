---------------------------- MODULE MCFlatStore ----------------------------
(***************************************************************************)
(* Small instances of FlatStore for TLC.                                   *)
(***************************************************************************)
EXTENDS FlatStore

\* Lists with a repeated index among them, and an index again in a later batch:
\* FlatStore takes them.  Both keys in one batch, an empty list, an empty map.
MCUpdates ==
  UNION {[D -> {<<>>, <<0>>, <<1, 1>>, <<0, 2>>}] : D \in {{}, {0}, {0, 1}}}
=============================================================================
