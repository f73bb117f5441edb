------------------------------- MODULE MCDtmf -------------------------------
(* Command lines, texts, recordings and spectra for Dtmf.                  *)
EXTENDS Dtmf

Num(n) == IF n < 10 THEN <<n>> ELSE IF n < 100 THEN <<n \div 10, n % 10>>
          ELSE IF n < 1000 THEN <<n \div 100, (n \div 10) % 10, n % 10>>
          ELSE <<n \div 1000, (n \div 100) % 10, (n \div 10) % 10, n % 10>>
Neg(n) == <<Minus>> \o Num(n)
Word == <<49, 50>>                          \* "ab"

Line(mode, opts, odd) == [mode |-> mode, opts |-> opts, odd |-> odd]

Pairs == {<<"-t", a>> : a \in {Num(5), Num(5000), Neg(5), <<5, 49>>}}
    \cup {<<"-l", a>> : a \in {Num(0), Num(30), Num(31), Neg(30), Neg(31), <<>>,
                              <<Minus>>, <<Minus, 17>>, Word}}
    \cup {<<"-n", Word>>, <<"-b", Num(100)>>}

(* Every pair alone, good ones in every order, a repeated and a fourth.    *)
Good == {<<"-t", Num(5)>>, <<"-t", Num(7)>>, <<"-n", Word>>, <<"-l", Neg(30)>>}

GenLines ==
    {Line("-g", <<>>, o) : o \in BOOLEAN} \cup {Line("-h", <<>>, TRUE), Line("none", <<>>, FALSE)}
    \cup {Line("-g", <<a>>, FALSE) : a \in Pairs}
    \cup {Line("-g", <<a, b>>, FALSE) : a \in Good, b \in Good}
    \cup {Line("-g", <<a, b, c>>, FALSE) : a \in Good, b \in Good, c \in Good}
    \cup {Line("-g", <<a, a, a, a>>, FALSE) : a \in {<<"-n", Word>>}}

DetLines ==
    {Line("-d", <<>>, o) : o \in BOOLEAN} \cup {Line("-d", <<<<"-t", Num(5)>>>>, FALSE)}
    \cup {Line("-d", <<<<"-b", a>>>>, FALSE) :
             a \in {Num(9), Num(120), Num(300), Num(1001), <<1, 49>>, <<>>}}

Ev(n1, n2, symbol) == [n1 |-> n1, n2 |-> n2, symbol |-> symbol]
Text(lines, ending) == [lines |-> lines, ending |-> ending]

Lines == {Ev(0, 300, "1"), Ev(0, 240, "1"), Ev(0, 150, "D"),
          Ev(300, 600, "2"), Ev(300, 600, "5"), Ev(360, 600, "1"), Ev(450, 700, "#"),
          Ev(600, 900, "5"), Ev(600, 500, "1"), Ev(300, 600, "x")}

Texts == {Text(<<a>>, "\n") : a \in Lines}
    \cup {Text(<<a, b>>, "\n") : a \in Lines, b \in Lines}
    \cup {Text(<<Ev(0, 300, "1"), a, b>>, "\n") : a \in Lines, b \in Lines}
    \cup {Text(ls, e) : ls \in {<<>>, <<Ev(0, 300, "9")>>},
                       e \in {"", "\n\n", "\n80", "\n80\t"}}

(* Strong and weak ends of the three tests of a tone, each passed and      *)
(* failed: twist of 4 dB, a second row 6 dB below, -20 dB together.        *)
Twisted == [Silence EXCEPT ![770] = 125, ![1336] = 49]
TwoRows == [Silence EXCEPT ![770] = 125, ![852] = 40, ![1336] = 125]
Faint == [Silence EXCEPT ![697] = 5, ![1209] = 5]

MCSpectra == {Silence, Faint, ToneSpectrum("2", 125), ToneSpectrum("5", 125),
              Twisted, TwoRows}

MCHeader(offset, size) ==
    [magic_number |-> AUDIO_MAGIC, data_offset |-> offset, data_size |-> size,
     encoding |-> 3, sample_rate |-> 8000, channels |-> 1]

MCRecordings == {[header |-> MCHeader(24, 0), length |-> n] : n \in {0, 98, 99, 100, 550, 599}}
           \cup {[header |-> h, length |-> 100] :
                    h \in {MCHeader(23, 0), MCHeader(24, UnknownSize), NoHeader}}

Plain == Line("-g", <<>>, FALSE)
Noisy(l) == Line("-g", <<<<"-n", Word>>, <<"-l", l>>>>, FALSE)
Short == Text(<<Ev(0, 300, "1")>>, "\n")
B(n) == Line("-d", <<<<"-b", Num(n)>>>>, FALSE)

MCScenarios ==
    [gen : GenLines, det : {B(300)}, text : {Short}, recordings : {{}}]
    \cup [gen : {Plain}, det : DetLines, text : {Short}, recordings : {{}}]
    \cup [gen : {Plain, Noisy(Num(0)), Noisy(Neg(30))}, det : {B(100), B(120), B(300)},
          text : Texts, recordings : {{}}]
    \cup [gen : {Plain}, det : {B(100), B(120), B(240)}, text : {Short},
          recordings : {MCRecordings}]

(* Two tone blocks, a silent one, three tone blocks; the default options.  *)
ShortScenarios ==
    [gen : {Plain}, det : {Line("-d", <<>>, FALSE)}, recordings : {{}},
     text : {Text(<<Ev(0, 200, "1"), Ev(300, 600, "5")>>, "\n")}]

(* Three blocks of '1', three of '2'; both have the row 697.               *)
AlikeScenarios ==
    [gen : {Plain}, det : {Line("-d", <<>>, FALSE)}, recordings : {{}},
     text : {Text(<<Ev(0, 300, "1"), Ev(300, 600, "2")>>, "\n")}]
=============================================================================
