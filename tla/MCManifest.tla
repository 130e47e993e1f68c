----------------------------- MODULE MCManifest -----------------------------
(* Instances of Manifest for TLC: a file at the top, one below a directory *)
(* whose name is escaped, a hidden one, one whose name begins with a dash, *)
(* and the manifest.                                                       *)
EXTENDS Manifest

CONSTANTS x, y, line

Escapable == <<"d", "\\">>
MCPath == {<<"a">>, Escapable, <<".h">>, <<"-x">>, <<"d", "m">>}
MCOutFile == <<"d", "m">>
MCEscaped == {Escapable}
MCShiftedName == [p \in Escaped |-> <<" d", "\\\\">>]

(* Two contents which, read while one is written over the other, give some *)
(* that are neither: the first block of one, and two of the second block.  *)
MCContents == {<<x, y>>, <<y>>}
MCPartial == <<line>>

MCBlob == UNION {[1..n -> Block] : n \in 0..2}
MCDigestHex == [b \in Blob |-> <<"hex", b>>]
=============================================================================
