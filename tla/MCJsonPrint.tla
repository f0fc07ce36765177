---------------------------- MODULE MCJsonPrint ----------------------------
(* JsonPrint for TLC: a buffer of 6 bytes, integers of 6 and 4 bits, and   *)
(* literals and escapes spelled in full.                                   *)
EXTENDS JsonPrint

MCWord == [null |-> <<"n", "u", "l", "l">>, nan |-> <<"n", "a", "n">>,
           true |-> <<"t", "r", "u", "e">>, false |-> <<"f", "a", "l", "s", "e">>,
           inf |-> <<"i", "n", "f", "i", "n", "i", "t", "y">>]

MCUnitsBelow == {<<"0", "0", "0", "0">>, <<"0", "0", "1", "f">>}

Str(s) == <<"string", s>>
Zero   == <<"u", "0", "0", "0", "0">>
Awkward == << <<"a">>, <<"'">>, <<"b">>, <<"\"">>, <<"\\">>, <<"LF">>, <<"/">>,
              <<"u", "0", "0", "1", "f">>, <<"c">> >>
Dict(f) == <<"object", f>>
Deep == <<"array", << <<"array", <<>>>>, Dict(<<>>),
                      Dict(<< << << <<"/">> >>, <<"array", << <<"num", 3>> >> >> >>,
                              << <<>>, Hole>> >>) >> >>

\* Elements of the array that is edited.
MCData == {<<"num", 7>>, Dict(<< << << <<"k">> >>, Str(<<>>) >> >>)}

MCLone ==
    {<<"null">>, <<"true">>, <<"false">>, <<"nan">>, <<"inf">>, <<"-inf">>,
     Str(Awkward), Str([i \in 1 .. 13 |-> <<"x">>]), Deep,
     Dict(<< <<Awkward, Str(<<Zero>> \o Awkward \o <<Zero>>)>> >>)}
    \cup {<<"num", n>> : n \in {-32, -10, -1, 0, 9, 10, 31}}
    \cup {<<"real", s>> : s \in {<<"1">>, <<"-", "1", "0">>, <<"1", ",", "5">>,
                                 <<"1", ".", "2", "5", "e", "+", "2", "1">>}}
    \cup {<<"double", Chars(s)>> : s \in {<<"1", ".", "5", "0">>, <<"1", "e", "5">>}}

MCFlags == {{}, {"SPACED"}, {"PRETTY", "NOZERO"}, {"SPACED", "PRETTY"}}

\* Every text of up to three digits of these, and some that go on after.
Runs == UNION {[1 .. k -> {"0", "1", "3", "4", "6"}] : k \in 1 .. 3}
MCNumerals == Runs \cup {<<"-">> \o r : r \in Runs}
                   \cup {<<"1", "-", "2">>, <<"3", "2", "+">>, <<"0", "0", "-">>,
                         <<"-", "9", " ", "1", ".">>, <<"8", "]">>, <<"4", "/">>,
                         <<"6", "/", "*", "*", "/">>, <<"4", "/", "*">>}
NoText == {}
NoUnit == [u \in {} |-> u]
=============================================================================
