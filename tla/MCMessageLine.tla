---------------------------- MODULE MCMessageLine ----------------------------
(***************************************************************************)
(* MessageLine for TLC: readings of the clock within a second, into the next *)
(* minute and hour, to the same day of another month and over a change of   *)
(* daylight savings, and patterns that hold every flag.                     *)
(***************************************************************************)
EXTENDS MessageLine

At(second, year, mon, mday, wday, hour, min, sec, zone) ==
    [second |-> second, zone |-> zone,
     tm |-> [year |-> year, mon |-> mon, mday |-> mday, wday |-> wday, hour |-> hour, min |-> min, sec |-> sec]]
Winter == [hours |-> 1, abbrev |-> "CET"]
Summer == [hours |-> 2, abbrev |-> "CEST"]

MCInstants ==
    <<At(60, 123, 0, 31, 2, 12, 0, 0, Winter), At(62, 123, 0, 31, 2, 12, 0, 2, Winter),
      At(75960, 123, 1, 1, 3, 9, 6, 0, Winter), At(13000000, 124, 6, 1, 1, 13, 0, 0, Summer)>>

Source == [line |-> "7", column |-> "3", file |-> "main.cpp", function |-> "main"]
MCMessages ==
    {[level |-> 0, text |-> "one", source |-> Source], [level |-> 4, text |-> "two", source |-> Source],
     [level |-> 4, text |-> "{", source |-> Source]}

MCColourSettings == {[level |-> 4, colour |-> "blue"]}

F(letter) == Flag(letter, <<>>)
Bar == Literal(<<"|">>)
MCDefaultPattern ==
    <<Bar, F("l"), Literal(<<"|", " ">>), F("a"), Literal(<<" ">>), F("n"), Literal(<<" ">>), F("T"),
      Literal(<<" ", "[">>), F("N"), Literal(<<"]", ":", " ">>), F("+")>>
MCPatterns ==
    {<<>>,
     <<F("a"), F("b"), F("c"), F("d"), F("e"), F("h")>>,
     <<F("A"), F("B"), F("C"), F("D"), F("F"), F("m"), F("n")>>,
     <<F("H"), Literal(<<":">>), F("M"), Literal(<<":">>), F("S"), F("p"), F("r"), F("x")>>,
     <<F("I"), F("L"), F("R"), F("T"), F("X"), F("Y"), F("y")>>,
     <<F("w"), F("z"), F("Z"), F("q"), F("t"), F("N"), F("+")>>,
     <<Flag("e", <<"4">>), Flag("t", <<"1", "2">>), Flag("t", <<"5">>), Flag("e", <<"1", "0">>), Bar, Flag("e", <<"0">>)>>,
     <<F("s"), Bar>>, <<F("s")>>, <<Flag("s", <<"l">>)>>, <<Flag("s", <<"f", "l">>), Literal(<<":", "F">>)>>,
     <<F("l"), Literal(<<":", "m">>), F("+"), Literal(<<":">>)>>, <<F("%"), F("l"), Literal(<<":">>)>>}
=============================================================================
