----------------------------- MODULE MCArgFormat -----------------------------
(***************************************************************************)
(* ArgFormat for TLC: the calls an application makes.  Each family varies   *)
(* one part of a format string over all its forms.                          *)
(***************************************************************************)
EXTENDS ArgFormat

IntArg(n) == [type |-> "int", n |-> n]
StringArg(text) == [type |-> "string", text |-> text]
FloatArg(neg, whole, fraction) ==
    [type |-> "float", neg |-> neg, whole |-> whole, fraction |-> fraction, nibbles |-> 5, power |-> 1]
TimeArg(tm) == [type |-> "time", tm |-> tm]
AB == <<"a", "b">>

Call(items, args) == [items |-> items, args |-> args]
Singles(args, specs) ==
    {Call(<<WithSpec(Automatic, p[2])>>, <<p[1]>>) :
         p \in {q \in args \X specs : ValidSpec(q[2], q[1].type)}}
Single(arg, specs) == Singles({arg}, specs)
Starred(align, width) == [NoItemSpec EXCEPT !.fill = "*", !.align = align, !.width = width]

\* Texts, automatic and manual positions in every order, up to three of them.
IndexCalls ==
    {Call(items, <<IntArg(7), StringArg(AB)>>) :
         items \in SeqOf({Text("t"), Plain(Automatic), Plain(0), Plain(1),
                          WithSpec(Automatic, Starred("<", 4))}, 3)}

IntCalls ==
    LET specs == {[NoItemSpec EXCEPT !.fill = f, !.align = a, !.sign = s, !.alt = h, !.zero = z,
                                     !.width = w, !.localize = l, !.type = t] :
                      f \in {"", "*"}, a \in {"", "<", ">", "^"}, s \in {"", "+", "-", " "},
                      h \in BOOLEAN, z \in BOOLEAN, w \in {0, 6}, l \in BOOLEAN,
                      t \in {"", "b", "o", "X", "c"}}
    IN Singles({IntArg(n) : n \in {0, -12, 1234}}, specs)

OtherCalls ==
    LET specs == {[NoItemSpec EXCEPT !.fill = f, !.align = a, !.sign = s, !.alt = h, !.zero = z,
                                     !.width = w, !.precision = p, !.localize = l, !.type = t] :
                      f \in {"", "*"}, a \in {"", "^"}, s \in {"", "+"}, h \in BOOLEAN,
                      z \in BOOLEAN, w \in {0, 12}, p \in {0, 1, 3}, l \in BOOLEAN,
                      t \in {"", "a", "B", "e", "F", "g", "s", "o", "p"}}
        args == {FloatArg(FALSE, 1, 2), FloatArg(TRUE, 2, 0), FloatArg(FALSE, 9, 3), [type |-> "bool", b |-> TRUE],
                 [type |-> "char", char |-> "a", code |-> 97], [type |-> "pointer", n |-> 20],
                 StringArg(AB), [type |-> "cstring", text |-> AB]}
    IN Singles(args, specs)

NewYear == [year |-> 123, mon |-> 0, mday |-> 1, wday |-> 0, yday |-> 0, hour |-> 0, min |-> 0, sec |-> 9]
Silvester == [year |-> 120, mon |-> 11, mday |-> 31, wday |-> 4, yday |-> 365, hour |-> 12, min |-> 10, sec |-> 59]
Summer == [year |-> 124, mon |-> 6, mday |-> 9, wday |-> 2, yday |-> 190, hour |-> 23, min |-> 5, sec |-> 10]

Empire == [Summer EXCEPT !.year = -5]

OfTime(spec, times) == [spec EXCEPT !.times = times]
TimeCalls ==
    LET times == {<<c>> : c \in Specs \union {"n", "t", "%"}} \union {<<"H", "M">>, <<"y", "p", "A">>}
    IN UNION {Single(TimeArg(tm), {OfTime([s EXCEPT !.localize = l], t) :
                                      s \in {NoItemSpec, Starred(">", 8)}, t \in times, l \in BOOLEAN}) :
                  tm \in {NewYear, Silvester, Summer, Empire}}

\* Fields of every kind one after the other, and with a text between them.
Pieces ==
    LET piece(item, arg) == [item |-> item, arg |-> arg]
        field(spec, arg) == piece(WithSpec(Automatic, spec), arg)
    IN {piece(Plain(Automatic), IntArg(7)), piece(Plain(Automatic), StringArg(AB)),
        field(Starred("^", 7), IntArg(-12)), field(Starred("^", 7), [type |-> "bool", b |-> TRUE]),
        field([Starred("^", 7) EXCEPT !.precision = 2], StringArg(AB)),
        field([NoItemSpec EXCEPT !.precision = 2], FloatArg(TRUE, 4, 1)),
        field([NoItemSpec EXCEPT !.localize = TRUE], IntArg(1234)),
        field(OfTime(NoItemSpec, <<"H">>), TimeArg(NewYear)),
        field(OfTime(Starred(">", 8), <<"H", "M">>), TimeArg(NewYear))}
MixedCalls ==
    {Call([i \in 1 .. Len(s) |-> s[i].item], [i \in 1 .. Len(s) |-> s[i].arg]) : s \in SeqOf(Pieces, 3)}
    \union {Call(<<s[1].item, Text("t"), s[2].item>>, <<s[1].arg, s[2].arg>>) : s \in [1 .. 2 -> Pieces]}

\* Where a number gets one digit more, and fill characters that mean something else.
EdgeCalls ==
    LET widths == {Starred(a, w) : a \in {"", ">"}, w \in {9, 10, 99, 100}}
        cuts == {[NoItemSpec EXCEPT !.precision = p, !.type = t] :
                     p \in {9, 10, 64, 65, 99, 100}, t \in {"", "f"}}
        many(char, n) == OfTime(NoItemSpec, [i \in 1 .. n |-> char])
        fills(times) == {[Starred(">", w) EXCEPT !.fill = f, !.times = times] :
                            f \in {":", "%", "0", "L", "-", " "}, w \in {0, 8}}
    IN UNION {Single(IntArg(7), widths \union fills(<<>>)), Single(FloatArg(FALSE, 1, 2), widths \union cuts),
              Single(StringArg([i \in 1 .. 100 |-> "a"]), cuts),
              Single(TimeArg(Silvester), {many("%", 25), many("%", 26), many("c", 2), many("c", 3)}),
              Single(TimeArg(Summer), fills(<<"H">>) \union fills(<<"H", "M">>))}

\* Any characters between brackets.
RawCalls ==
    {Call(<<Raw(<<"{">> \o text \o end)>>, <<arg>>) :
         text \in SeqOf({"{", "}", ":", "1", ".", "%"}, 4), end \in {<<>>, <<"}">>},
         arg \in {IntArg(3), TimeArg(NewYear)}}

\* What a formatter is used for before and after: manual positions, a time
\* field, an error, a field that fills the buffer, and a custom argument.
Companions ==
    {Call(<<Plain(1), Text("t"), Plain(0)>>, <<IntArg(7), StringArg(AB)>>),
     Call(<<Text("t"), Plain(Automatic), Text("t")>>, <<StringArg(AB)>>),
     Call(<<WithSpec(Automatic, OfTime(NoItemSpec, <<"H">>))>>, <<TimeArg(Summer)>>),
     Call(<<Raw(<<"{", "9", "9", "}">>)>>, <<IntArg(7)>>),
     Call(<<Raw(<<"{", ":", "%", "M", "%", "E", "q", "}">>)>>, <<TimeArg(Summer)>>),
     Call(<<WithSpec(Automatic, Starred("<", 9)), Text("t")>>, <<IntArg(1234)>>),
     Call(<<Text("t"), Plain(Automatic)>>, <<TimeArg(Summer)>>),
     Call(<<WithSpec(Automatic, Starred("<", 9)), Plain(Automatic)>>, <<[type |-> "custom"], [type |-> "custom"]>>),
     Call(<<Plain(0), Plain(1), Text("t")>>, <<[type |-> "custom"], TimeArg(NewYear)>>)}

MCUses ==
    [1 .. 3 -> Companions]
    \union {<<c>> : c \in IntCalls \union (OtherCalls \union (RawCalls \union (TimeCalls
                              \union (MixedCalls \union (IndexCalls \union EdgeCalls)))))}

Thousands == <<3>>
Zone == <<"Z">>
=============================================================================
