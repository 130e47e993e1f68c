----------------------------- MODULE MCStartup -----------------------------
(* Instances of Startup for TLC: command lines of up to MaxArgs arguments. *)
EXTENDS Startup

CONSTANTS MaxArgs, foreground, single, b1, b2

MCChar == {"x", "/", ".", "d", "e", " "}
MCLine(h) == <<h, " ", " ", "x", "/", "x">>
MCTwice == <<MCLine("d"), MCLine("e")>>
MCDigestFiles == {<<>>, MCTwice, <<MCLine("d"), <<"d">>>>}

MCText == {"", "src", "list", "bad"}
MCOption == {foreground, single}
MCListAt == [t \in MCText |->
  CASE t = "list" -> MCTwice [] t = "bad" -> <<MCLine("d"), <<"d">>>>
    [] OTHER -> NoFile]

MCCommandLine ==
  LET Complete(n) == UNION {[1..k -> MCText \cup MCOption] : k \in 0..n} IN
  Complete(MaxArgs)
    \cup {Append(args, Unfinished) : args \in Complete(MaxArgs - 1)}

MCPath == {<<"x">>, <<"x", "/", "x">>}
MCHash == {<<"d">>, <<"e">>}
MCDigestHex == [b \in {b1, b2} |-> IF b = b1 THEN <<"d">> ELSE <<"e">>]
=============================================================================
