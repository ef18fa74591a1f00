----------------------------- MODULE MCTerminal -----------------------------
(* Instances of Terminal for TLC. *)
EXTENDS Terminal

Chars(S)     == {<<Byt(b)>> : b \in S}
Seq1(b, S)   == {<<CSI(<<n>>), Byt(b)>> : n \in S}
Sgr(S)       == {<<CSI(p), Byt("m")>> : p \in S}

Stream(plain, whole, writes) == [plain |-> plain, whole |-> whole, writes |-> writes]

\* Plain text: every text of MaxText bytes.
Plain == Stream(TRUE, TRUE, [w \in {"shell"} |-> Chars({"x", "y", "LF", "TAB", "?"})])

\* Programs that move the cursor (0 and 1 mean the same in a movement), save and
\* restore its position, and erase.
Moves ==
    Stream(FALSE, TRUE, [w \in {"shell"} |->
        Chars({"x"}) \cup Seq1("A", {1}) \cup Seq1("B", {0, 65535}) \cup Seq1("C", {2})
        \cup Seq1("D", {0}) \cup Seq1("E", {0}) \cup Seq1("F", {0}) \cup Seq1("G", {W})
        \cup {<<CSI(<<W, H + 1>>), Byt("H")>>, <<CSI(<<0>>), Byt("f")>>} \cup Seq1("n", {6})])

Saves ==
    Stream(FALSE, TRUE, [w \in {"shell"} |->
        Chars({"x", "TAB"}) \cup {<<CSI(<<W + 1, H>>), Byt("H")>>, <<CSI(<<W, 0>>), Byt("f")>>}
        \cup Seq1("s", {0}) \cup Seq1("u", {0})])

Erases ==
    Stream(FALSE, TRUE, [w \in {"shell"} |->
        Chars({"x", "LF"}) \cup {<<CSI(<<W, 0>>), Byt("H")>>}
        \cup Seq1("J", {0, 1, 2, 3}) \cup Seq1("K", {0, 1, 2, 3})])

\* The logger and the shell, whose strings are whole sequences.
Whole ==
    Stream(FALSE, TRUE,
        [logger |-> {<<CSI(<<36>>), Byt("m"), Byt("x"), CSI(<<39>>), Byt("m"), Byt("LF")>>},
         shell  |-> {<<Byt("x")>>, <<CSI(<<1>>), Byt("TAB"), Byt("B")>>, <<Byt("BEL")>>}])

\* The shell echoes bytes as they are typed, also those of an escape sequence.
Typed ==
    Stream(FALSE, FALSE,
        [logger |-> {<<CSI(<<36>>), Byt("m"), Byt("x")>>},
         shell  |-> {<<CSI(<<1>>)>>, <<Byt("x")>>, <<Byt("C")>>, <<Byt("K")>>, <<Byt("LF")>>}])

\* Colours: renditions, plain, bright and extended ones, also cut short.
Colors ==
    Stream(FALSE, TRUE, [w \in {"shell"} |-> Sgr(
        {<<0>>, <<1>>, <<2, 7>>, <<22>>, <<27, 60>>, <<31>>, <<39, 42>>, <<93>>, <<105>>,
         <<38, 5, 12>>, <<38, 5, 300>>, <<48, 2, 1, 300, 5>>, <<48, 2, 7>>, <<38, 7>>})])

MCStreams == {Plain, Moves, Saves, Erases, Whole, Typed, Colors}
=============================================================================
