------------------------------ MODULE MCCodecs ------------------------------
(***************************************************************************)
(* A small instance of Codecs for TLC.  With bytes of 0 .. 7 the length of *)
(* a range takes two groups from its first hash on; in the code it does    *)
(* from the fourth.                                                        *)
(***************************************************************************)
EXTENDS Codecs

\* Two fillings of the hashes of each size.
MCRanges == {[size |-> n, hashes |-> [j \in 1 .. OnesCount(n) |-> (9 * j + s) % 64]] :
               n \in 0 .. 7, s \in {0, 60}}

MCTails == {<<>>, <<5>>, <<9, 63>>, <<16, 0>>}

MCWords(n) == IF n = 0 THEN {<<>>} ELSE [1 .. n -> {0, 9, 63}]

MCValues ==
  UNION {{[format |-> f, words |-> w, range |-> r, tail |-> t] :
            w \in MCWords(Formats[f].words),
            r \in IF Formats[f].range THEN MCRanges ELSE {NoRange},
            t \in IF Formats[f].tail = 0 THEN {<<>>} ELSE MCTails} : f \in DOMAIN Formats}

\* An engine's letter, two bytes of map key, one byte of number.
MCPrefixes == {<<3, a, b>> : a, b \in {0, 1, 6, 7}} \cup {<<2, 7, 7>>, <<4, 0, 0>>}

MCSeeks == {[prefix |-> p, key |-> Append(q, n)] : p, q \in MCPrefixes, n \in {0, 7}}
=============================================================================
