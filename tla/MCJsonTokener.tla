--------------------------- MODULE MCJsonTokener ---------------------------
(* Instances of JsonText for TLC.  Literals are cut to two letters, a \u   *)
(* escape to two digits; D8, D9 and DA are high surrogates, DC and DD low  *)
(* ones.  A pair that begins with D9 passes for a high surrogate, one that *)
(* begins with DA for a low one.                                           *)
EXTENDS JsonText

MCWord == [null |-> <<"n", "u">>, nan |-> <<"n", "a">>, true |-> <<"t", "r">>,
           false |-> <<"f", "a">>, inf |-> <<"i", "f">>]
MCAsHigh == {<<"d", "9">>}
MCAsLow  == {<<"d", "a">>}
MCHigh == {<<"d", "8">>} \cup MCAsHigh \cup MCAsLow
MCLow  == {<<"d", "c">>, <<"d", "d">>}
MCHighOf == (<<"d", "c">> :> <<"d", "8">>) @@ (<<"d", "d">> :> <<"d", "9">>)

\* Every valid text of a piece of the language, every beginning of one, alone
\* or followed by one more character, right or wrong.
Tried(g) ==
    LET valid == {d.t : d \in DocumentsOf(g)}
        begun == UNION {{SubSeq(x, 1, k) : k \in 1 .. Len(x)} : x \in valid}
        short == {x \in begun : Len(x) < g.maxText}
    IN  begun \cup {x \o <<a>> : x \in short, a \in g.wrong}

\* Is no comment left open in txt?
Closed(g, txt) ==
    LET within(i) ==
            \E b \in g.blanks, k \in 1 .. i :
                k + Len(b) > i /\ k + Len(b) - 1 <= Len(txt)
                    /\ SubSeq(txt, k, k + Len(b) - 1) = b
    IN  \A i \in 1 .. Len(txt) - 1 :
            txt[i] = "/" /\ txt[i + 1] \in {"*", "/"} => within(i)

Plain == [numbers |-> {}, quotes |-> {"\""}, bodies |-> {}, brackets |-> {"["},
          blanks |-> {}, literals |-> {}, maxText |-> 6, maxInside |-> 4,
          wrong |-> {}]

\* Arrays and objects in one another; the leaves are 1 and the empty string.
Nested ==
    [Plain EXCEPT !.numbers = {<<"1">>}, !.bodies = {<<>>}, !.blanks = {<<" ">>},
                  !.brackets = {"[", "{"}, !.maxText = 7, !.maxInside = 5,
                  !.wrong = {"[", "]", "{", "}", ",", ":", "\"", " ", NUL}]

\* The same up to eight characters, without blanks.
Longer == [Nested EXCEPT !.blanks = {}, !.wrong = @ \ {" "},
                         !.maxText = 8, !.maxInside = 6]

\* Strings and field names of up to two pieces, or three escapes.
Pieces == {<<"a">>, <<"'">>, <<"\\", "\"">>, <<"\\", "n">>,
           <<"\\", "u", "0", "0">>, <<"\\", "u", "1", "1">>,
           <<"\\", "u", "d", "8">>, <<"\\", "u", "d", "c">>}
Unit_(u) == <<"\\", "u">> \o u
Escapes == {Unit_(u) : u \in {<<"1", "1">>, <<"d", "8">>, <<"d", "c">>}}
\* Pairs taken for a surrogate, and what may come after them.
Mistakes ==
    LET halves == {Unit_(hi) : hi \in MCAsHigh \cup MCAsLow}
        pairs  == {p \o Unit_(lo) : p \in halves, lo \in MCLow}
    IN  halves \cup pairs \cup {p \o r : p \in pairs, r \in Escapes}
Strings ==
    [Plain EXCEPT !.quotes = Quote, !.brackets = {"[", "{"},
                  !.bodies = {<<>>} \cup Pieces \cup {p \o q : p, q \in Pieces}
                             \cup {p \o q \o r : p, q, r \in Escapes} \cup Mistakes,
                  !.maxText = 14, !.maxInside = 7,
                  !.wrong = {"\"", "\\", "u", "x", "n", "]", "}", NUL}]

\* Objects with fields of equal names, one of them with an escaped 0.
Names ==
    [Plain EXCEPT !.numbers = {<<"1">>, <<"2">>}, !.brackets = {"{"},
                  !.bodies = {<<>>, <<"\\", "u", "0", "0">>},
                  !.maxText = 15, !.maxInside = 13,
                  !.wrong = {"{", "}", ",", ":", "\"", "]", NUL}]

\* Literals, comments, and a string that counts digits.
Words ==
    [Plain EXCEPT !.bodies = {<<"\\", "u", "1", "1">>},
                  !.blanks = {<<" ">>, <<"/", "*", "*", "/">>, <<"/", "/", "\n">>},
                  !.literals = {"null", "nan", "true", "false", "inf"},
                  !.wrong = {"[", "]", ",", "n", "u", "a", "t", "f", "i", "/", "x", NUL}]

\* Numbers with signs and points, and the infinities.
Runs(n) == UNION {[1 .. k -> {"1", "-", "."}] : k \in 1 .. n}
Signs ==
    [Plain EXCEPT !.numbers = {x \in Runs(5) :
                                  x[1] # "." /\ Scans(Chars(x), Contains(x, "."))},
                  !.blanks = {<<" ">>}, !.literals = {"inf", "-inf"}, !.maxText = 5,
                  !.wrong = {"[", "]", ",", "1", "-", ".", "i", "f", " ", NUL}]

\* Texts one tokener parses one after another: whole, broken off, wrong.
Several ==
    [Plain EXCEPT !.numbers = {<<"1">>, <<"1", ".">>},
                  !.bodies = {<<>>, <<"\\", "u", "1", "1">>},
                  !.brackets = {"[", "{"}, !.blanks = {<<" ">>},
                  !.literals = {"null", "inf"}]
MCReused ==
    {<<"n", "u">>, <<"n", "x">>, <<"[", "i", "f", "]">>, <<"[", "i">>,
     <<"\"", "\\", "u", "1", "1", "\"">>, <<"\"", "\\", "u", "1">>,
     <<"[", "1", ".", ",", "1", "]">>, <<"1", " ", "1">>,
     <<"{", "\"", "\"", ":", "1", "}">>, <<"{", "\"", "\"", ":">>, <<"{", "\"">>,
     <<"[", "[", "1">>, <<"[", "[", "[">>}

NoText == {}
NoUnit == [u \in {} |-> u]

\* All of these: the containers and the literals cut into chunks anywhere, the
\* others in one chunk.
AllGrammars == {Nested, Longer, Strings, Names, Words, Signs, Several}
AllCut      == Tried(Nested) \cup {x \in Tried(Words) : Closed(Words, x)}
AllWhole    == Tried(Longer) \cup Tried(Strings) \cup Tried(Names) \cup Tried(Signs)

\* Comments that may be left open.
OpenGrammars ==
    {[Plain EXCEPT !.numbers = {<<"1">>}, !.blanks = Words.blanks,
                   !.wrong = {"/", "*"}]}
OpenTexts == UNION {Tried(g) : g \in OpenGrammars}

\* Surrogate pairs.
PairGrammars ==
    {[Plain EXCEPT !.bodies = {p \o q : p, q \in Escapes}, !.maxText = 10]}
PairTexts == UNION {Tried(g) : g \in PairGrammars}
=============================================================================
