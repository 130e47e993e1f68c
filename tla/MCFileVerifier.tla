--------------------------- MODULE MCFileVerifier ---------------------------
(* Instances of FileVerifier for TLC: a hash is one character, a name a    *)
(* sequence of at most five.                                               *)
EXTENDS FileVerifier

CONSTANTS b1, b2

Texts(chars, n) == UNION {[1..k -> chars] : k \in 0..n}

MCChar == {"x", "/", ".", "\\", "d", "e", "D", " ", "*"}

(* "d" and "e" are digests of blobs, "D" is the first in upper case. *)
MCHash == {<<"d">>, <<"e">>, <<"D">>}
MCDigestHex == [blob \in {b1, b2} |-> IF blob = b1 THEN <<"d">> ELSE <<"e">>]

MCPath == Texts({"x", "/"}, 4) \cup {<<"x", "/", ".", "x">>, <<".">>}

Relative(names) == {f \in names : f = <<>> \/ f[1] # "/"}

Line(h, f) == h \o <<" ", " ">> \o f

(* Lists of one deep name, and of two short names or bad lines. *)
MCDeep == {<<Line(<<"d">>, f)>> : f \in Relative(Texts({"x", "/", "."}, 5))}

MCShort == {Line(h, f) : h \in MCHash, f \in Relative(Texts({"x", "/"}, 3))}
             \cup {<<>>, <<"d">>, <<"d", " ">>}

MCDigestFiles == {<<>>} \cup MCDeep \cup (MCShort \X MCShort)

(* What shasum prints for one file, in text or in binary mode. *)
MCShasumPath == Texts({"x", "/", "\\"}, 3) \ {<<>>}

MCShasumFiles ==
  {<<shasum(h, f, mode)>> :
     h \in {<<"d">>, <<"e">>}, f \in Relative(MCShasumPath),
     mode \in {" ", "*"}}
=============================================================================
