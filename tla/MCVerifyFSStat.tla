--------------------------- MODULE MCVerifyFSStat ---------------------------
(* Instances of VerifyFSStat for TLC: one listed file of two bytes. *)
EXTENDS VerifyFSStat

CONSTANTS whole, a, b

MCDigestHex == [blob \in Blob |-> <<"hex", blob>>]
MCDigests == [path \in Path |-> <<"hex", <<a, b>>>>]
MCDirectories == {}

(* Genuine, cut off, grown, and empty. *)
MCContents == {<<a, b>>, <<a>>, <<a, b, a>>, <<>>}

MCReadAt == (0..3) \X (1..3)
=============================================================================
