-------------------------------- MODULE Dtmf --------------------------------
(***************************************************************************)
(* The DTMF tool of hw1 (src/hw1/src: main.c, dtmf.c, audio.c), run as the *)
(* pipeline dtmf.c:525 shows: one process generates audio from a text of   *)
(* tone events ("gen"), the next detects the tones in it ("det").  Instead *)
(* of a generator a recording may be the detector's input.  Both processes *)
(* run main: validargs first, then their mode.                             *)
(*                                                                         *)
(* Audio is a sequence of segments: who sounds, how strong, up to which    *)
(* sample.  The cosines and the Goertzel filters are abstracted to what    *)
(* they find: a block filled by one tone has that tone's two strengths, a  *)
(* silent block has none, and a block of anything else, recorded sound     *)
(* included, has any spectrum of Spectra.                                  *)
(***************************************************************************)
EXTENDS Integers, Sequences, SequencesExt

CONSTANTS
    Scenarios,    \* the command lines of gen and det, the text gen reads
                  \* ([lines, ending]) and the recordings ([header, length])
                  \* that may stand in for gen
    Spectra,      \* strengths of the eight frequencies, in thousandths
    LENGTH,       \* samples asked of dtmf_generate (12400 in main.c)
    INT_MAX       \* largest int; the program's own is beyond TLC's integers

VARIABLES
    argv,     \* the command lines, and the recordings at hand
    glob,     \* the globals validargs sets
    pc,       \* where each process is
    text,     \* the events gen reads, and how many lines it has taken
    audio,    \* what det reads: header, segments, samples, closed?
    det,      \* the locals of dtmf_detect
    out,      \* the events det has written
    heard     \* what det found in each block (for the properties)

vars == <<argv, glob, pc, text, audio, det, out, heard>>

-----------------------------------------------------------------------------
(* The table of symbols and the tests on a spectrum.                       *)

Rows == {697, 770, 852, 941}
Cols == {1209, 1336, 1477, 1633}

(* A command line is what its words say; a spectrum gives each frequency a *)
(* strength; the numbers of a text are made of digits, and a recording has *)
(* some number of samples.                                                 *)
CommandLines == [mode : STRING, odd : BOOLEAN, opts : Seq(STRING \X Seq(Int))]

ASSUME DtmfAssumption ==
    /\ LENGTH \in Nat \ {0} /\ INT_MAX \in Nat \ {0}
    /\ Spectra \subseteq [Rows \cup Cols -> Nat]
    /\ \A s \in Scenarios :
         /\ s.gen \in CommandLines /\ s.det \in CommandLines
         /\ s.text.ending \in {"", "\n", "\n\n", "\n80", "\n80\t"}
         /\ s.text.lines \in Seq([n1 : Nat, n2 : Nat, symbol : STRING])
         /\ \A r \in s.recordings : r.length \in Nat

MIN_DTMF_DURATION == 240              \* 0.03 s at 8000 samples a second

dtmf_symbol_names == << <<"1", "2", "3", "A">>, <<"4", "5", "6", "B">>,
                        <<"7", "8", "9", "C">>, <<"*", "0", "#", "D">> >>

checkSymbolIsCorrect(c) ==
    \E row, col \in 1..4 : dtmf_symbol_names[row][col] = c

getFreqRow(c) == CASE c \in {"1", "2", "3", "A"} -> 697
                   [] c \in {"4", "5", "6", "B"} -> 770
                   [] c \in {"7", "8", "9", "C"} -> 852
                   [] OTHER -> 941

getFreqCol(c) == CASE c \in {"1", "4", "7", "*"} -> 1209
                   [] c \in {"2", "5", "8", "0"} -> 1336
                   [] c \in {"3", "6", "9", "#"} -> 1477
                   [] OTHER -> 1633

(* An unknown row counts as the last one; an unknown column has no symbol. *)
findSymbolFromFrequencies(row, col) ==
    LET r == CASE row = 697 -> 1 [] row = 770 -> 2 [] row = 852 -> 3 [] OTHER -> 4
    IN  CASE col = 1209 -> dtmf_symbol_names[r][1]
          [] col = 1336 -> dtmf_symbol_names[r][2]
          [] col = 1477 -> dtmf_symbol_names[r][3]
          [] col = 1633 -> dtmf_symbol_names[r][4]
          [] OTHER -> "F"

(* The loudest of some frequencies; the lowest of them on a tie.           *)
Strongest(s, freqs) ==
    CHOOSE f \in freqs : \A g \in freqs : s[g] < s[f] \/ (s[g] = s[f] /\ f <= g)

is_greater_than_other_frequencies(s, f, freqs) ==
    \A g \in freqs \ {f} : 1000 * s[f] >= 3981 * s[g]

validate_strongest_frequencies(s, row, col) ==
    /\ is_greater_than_other_frequencies(s, row, Rows)
    /\ is_greater_than_other_frequencies(s, col, Cols)

(* Not below -20 dB together, within 4 dB of each other, 6 dB above the    *)
(* others.                                                                 *)
TonePresent(s, row, col) ==
    /\ s[row] + s[col] >= 10
    /\ 2512 * s[row] >= 1000 * s[col] /\ 1000 * s[row] <= 2512 * s[col]
    /\ validate_strongest_frequencies(s, row, col)

-----------------------------------------------------------------------------
(* validargs.  A command line is a mode, its flag and argument pairs, and  *)
(* whether one argument is left over.  An argument is the sequence of its  *)
(* characters less '0', so that a digit is itself and '-' is Minus.        *)

Minus == -3
NULL == <<>>

Wrap(n) == ((n + INT_MAX + 1) % (2 * INT_MAX + 2)) - INT_MAX - 1

Number(a) ==
    LET n[i \in 0..Len(a)] == IF i = 0 THEN 0 ELSE Wrap(10 * n[i - 1] + a[i])
    IN  n[Len(a)]

AllDigits(a) == \A i \in DOMAIN a : a[i] \in 0..9

Fail == [ok |-> FALSE]

ParseTime(st, a) ==
    IF a # <<>> /\ AllDigits(a) /\ Number(a) >= 0
    THEN [st EXCEPT !.seen = @ \cup {"-t"}, !.audio_samples = Wrap(8 * Number(a))]
    ELSE Fail

(* The character after a '-' is not tested.  A '-' alone reads past the    *)
(* argument's end, and whatever stands there leaves a level out of range.  *)
ParseLevel(st, a) ==
    LET negative == a # <<>> /\ a[1] = Minus
        digits == IF negative THEN Tail(a) ELSE a
        level == IF negative THEN -Number(digits) ELSE Number(digits)
    IN  IF /\ digits # <<>> /\ AllDigits(Tail(digits))
           /\ negative \/ digits[1] \in 0..9
           /\ level \in -30..30
        THEN [st EXCEPT !.seen = @ \cup {"-l"}, !.noise_level = level]
        ELSE Fail

(* Mutant: a flag given twice is taken twice.                              *)
TakeFlagAgain(st, pair) ==
    CASE ~st.ok \/ pair[1] \notin {"-t", "-n", "-l"} -> Fail
      [] st.ok /\ pair[1] = "-t" -> ParseTime(st, pair[2])
      [] st.ok /\ pair[1] = "-l" -> ParseLevel(st, pair[2])
      [] OTHER -> [st EXCEPT !.seen = @ \cup {"-n"}, !.noise_file = pair[2]]

TakeFlag(st, pair) ==
    CASE ~st.ok \/ pair[1] \notin {"-t", "-n", "-l"} -> Fail
      [] st.ok /\ pair[1] \in st.seen -> Fail
      [] st.ok /\ pair[1] = "-t" /\ "-t" \notin st.seen -> ParseTime(st, pair[2])
      [] st.ok /\ pair[1] = "-l" /\ "-l" \notin st.seen -> ParseLevel(st, pair[2])
      [] OTHER -> [st EXCEPT !.seen = @ \cup {"-n"}, !.noise_file = pair[2]]

(* The flags not seen keep these defaults.                                 *)
NoFlags == [ok |-> TRUE, seen |-> {}, audio_samples |-> 8000,
            noise_file |-> NULL, noise_level |-> 0]

OneFlag(opts) == TakeFlag(NoFlags, opts[1])

TwoFlags(opts) == TakeFlag(OneFlag(opts), opts[2])

ThreeFlags(opts) == TakeFlag(TwoFlags(opts), opts[3])

GenerateOptions(opts) == CASE Len(opts) = 0 -> NoFlags
                           [] Len(opts) = 1 -> OneFlag(opts)
                           [] Len(opts) = 2 -> TwoFlags(opts)
                           [] Len(opts) = 3 -> ThreeFlags(opts)
                           [] OTHER -> Fail

DetectOptions(opts) ==
    CASE Len(opts) = 0 -> [ok |-> TRUE, block_size |-> 100]
      [] Len(opts) = 1 /\ opts[1][1] = "-b" ->
            IF /\ opts[1][2] # <<>> /\ AllDigits(opts[1][2])
               /\ Number(opts[1][2]) \in 10..1000
            THEN [ok |-> TRUE, block_size |-> Number(opts[1][2])]
            ELSE Fail
      [] OTHER -> Fail

validargs(line) ==
    CASE line.mode = "-h" -> [ok |-> TRUE]
      [] line.mode = "-g" /\ ~line.odd -> GenerateOptions(line.opts)
      [] line.mode = "-d" /\ ~line.odd -> DetectOptions(line.opts)
      [] OTHER -> Fail

-----------------------------------------------------------------------------
(* Audio files.                                                            *)

AUDIO_MAGIC == 779316836              \* 0x2e736e64
UnknownSize == -1                     \* 0xffffffff, as the int that holds it

HeaderOK(h) ==
    /\ h.magic_number = AUDIO_MAGIC /\ h.data_offset >= 24
    /\ h.data_size # UnknownSize /\ h.encoding = 3
    /\ h.sample_rate = 8000 /\ h.channels = 1

NoHeader == [magic_number |-> 0]      \* a file that ends inside the header

audio_write_header(h) == IF HeaderOK(h) THEN h ELSE NoHeader

(* Samples up to "to" (none when it is behind us) sounding one tone.       *)
Write(f, to, tone, strength) ==
    IF to <= f.length THEN f
    ELSE [f EXCEPT !.length = to,
                   !.segs = Append(@, [from |-> f.length, to |-> to,
                                       tone |-> tone, strength |-> strength])]

(* The segments a stretch of samples touches.                              *)
Sounding(f, from, to) ==
    {g \in Range(f.segs) : g.from < to /\ from < g.to}

Silence == [f \in Rows \cup Cols |-> 0]

ToneSpectrum(tone, strength) ==
    [Silence EXCEPT ![getFreqRow(tone)] = strength, ![getFreqCol(tone)] = strength]

(* What the Goertzel filters can find in the samples of a block.           *)
BlockSpectra(f, from, to) ==
    LET g == Sounding(f, from, to)
    IN  CASE \A s \in g : s.tone = "silence" -> {Silence}
          [] \E s \in g : g = {s} /\ checkSymbolIsCorrect(s.tone) ->
                {ToneSpectrum(s.tone, s.strength) : s \in g}
          [] OTHER -> Spectra

-----------------------------------------------------------------------------
NoGlobals == [ok |-> FALSE]

Init ==
    /\ \E s \in Scenarios :
         /\ argv = [gen |-> s.gen, det |-> s.det, recordings |-> s.recordings]
         /\ text = [lines |-> s.text.lines, ending |-> s.text.ending, next |-> 1]
    /\ glob = [gen |-> NoGlobals, det |-> NoGlobals]
    /\ pc = [gen |-> "main", det |-> "main"]
    /\ audio = [header |-> NoHeader, segs |-> <<>>, length |-> 0, closed |-> FALSE]
    /\ det = [start |-> 0, end |-> 0, prev |-> <<-1, -1>>, curr |-> <<0, 0>>,
              duration |-> 0, end_file |-> FALSE]
    /\ out = <<>>
    /\ heard = <<>>

Goto(p, l) == pc' = [pc EXCEPT ![p] = l]

GenHeader == [magic_number |-> AUDIO_MAGIC, data_offset |-> 24,
              data_size |-> 2 * LENGTH, encoding |-> 3,
              sample_rate |-> 8000, channels |-> 1]

(* main: usage and exit when the arguments are wrong or ask for help.      *)
Main(p) ==
    /\ pc[p] = "main"
    /\ \E o \in {validargs(argv[p])} :
         /\ glob' = [glob EXCEPT ![p] = o]
         /\ CASE o.ok /\ argv[p].mode = "-g" ->
                   /\ Goto(p, "generate")
                   /\ audio' = [audio EXCEPT !.header = audio_write_header(GenHeader)]
              [] o.ok /\ argv[p].mode = "-d" ->
                   /\ Goto(p, "header")
                   /\ UNCHANGED audio
              [] OTHER ->
                   /\ Goto(p, "exit")
                   /\ audio' = [audio EXCEPT !.closed = @ \/ p = "gen"]
    /\ UNCHANGED <<argv, text, det, out, heard>>

(* The detector's input is a recording and nobody generates.               *)
Play ==
    /\ pc["gen"] = "main"
    /\ \E r \in argv.recordings :
         audio' = [Write(audio, r.length, "recorded", 0)
                     EXCEPT !.header = r.header, !.closed = TRUE]
    /\ Goto("gen", "absent")
    /\ UNCHANGED <<argv, glob, text, det, out, heard>>

-----------------------------------------------------------------------------
(* dtmf_generate.                                                          *)

(* fgetc before the loop eats the first character of the text.             *)
DropFirstDigit(n) == CASE n < 10 -> 0 [] n < 100 -> n % 10
                       [] n < 1000 -> n % 100 [] n < 10000 -> n % 1000
                       [] OTHER -> n % 10000      \* 12400 has five digits

getNumFromText(t) ==
    IF t.next = 1 THEN DropFirstDigit(t.lines[1].n1) ELSE t.lines[t.next].n1

(* The strength of a tone: with a noise file the samples are scaled by     *)
(* w = e / (e + 1), e being 10 to the level's tenth cut to an integer; the *)
(* noise itself is never read.                                             *)
Scaled(noise_level) ==
    CASE noise_level \in -9..9 -> 125 \div 4
      [] noise_level \in 10..19 -> (125 * 100) \div 121
      [] noise_level >= 20 -> 123
      [] noise_level \in -19..-10 -> 125 \div 121
      [] OTHER -> 0

Strength(g) == IF g.noise_file = NULL THEN 125 ELSE Scaled(g.noise_level)

Pad(f, g) ==
    IF g.noise_file = NULL THEN f ELSE Write(f, LENGTH, "silence", 0)

GenLine ==
    /\ pc["gen"] = "generate"
    /\ audio.length < LENGTH
    /\ text.next <= Len(text.lines)
    /\ \E e \in {text.lines[text.next]}, n1 \in {getNumFromText(text)} :
         IF n1 > e.n2 \/ ~checkSymbolIsCorrect(e.symbol)
         THEN /\ audio' = [audio EXCEPT !.closed = TRUE]
              /\ Goto("gen", "failed")
              /\ UNCHANGED text
         ELSE /\ \E silence \in {Write(audio, n1, "silence", 0)} :
                 \E tone \in {Write(silence, e.n2, e.symbol, Strength(glob["gen"]))} :
                    audio' = Pad(tone, glob["gen"])
              /\ text' = [text EXCEPT !.next = @ + 1]
              /\ UNCHANGED pc
    /\ UNCHANGED <<argv, glob, det, out, heard>>

(* The loop ends at LENGTH samples, at the end of the text, or when a      *)
(* number is missing; an empty line or the end of the text inside a number *)
(* keeps getNumFromText reading for ever.                                  *)
GenEnd ==
    /\ pc["gen"] = "generate"
    /\ \/ audio.length >= LENGTH
       \/ text.next > Len(text.lines) /\ text.ending \in {"", "\n", "\n80\t"}
    /\ audio' = [audio EXCEPT !.closed = TRUE]
    /\ Goto("gen", "exit")
    /\ UNCHANGED <<argv, glob, text, det, out, heard>>

GenHang ==
    /\ pc["gen"] = "generate"
    /\ audio.length < LENGTH /\ text.next > Len(text.lines)
    /\ text.ending \in {"\n\n", "\n80"}
    /\ Goto("gen", "loops")
    /\ UNCHANGED <<argv, glob, text, audio, det, out, heard>>

-----------------------------------------------------------------------------
(* dtmf_detect.                                                            *)

Block == glob["det"].block_size

Left == audio.length - det.end        \* samples not yet read

(* audio_read_header; duration and curr are not initialized.               *)
DetHeader ==
    /\ pc["det"] = "header"
    /\ audio.header # NoHeader \/ audio.closed
    /\ IF audio.header # NoHeader /\ HeaderOK(audio.header)
       THEN /\ Goto("det", "block")
            /\ \E duration \in {0, MIN_DTMF_DURATION}, curr \in {<<0, 0>>, <<697, 1209>>} :
                 det' = [det EXCEPT !.duration = duration, !.curr = curr]
       ELSE Goto("det", "failed") /\ UNCHANGED det
    /\ UNCHANGED <<argv, glob, text, audio, out, heard>>

write_to_detect_output(start, end, freqs) ==
    out' = Append(out, [from |-> start, to |-> end,
                        symbol |-> findSymbolFromFrequencies(freqs[1], freqs[2])])

(* Mutant: the reported event includes the block that ended it.            *)
ReportOneMore(end, prev) ==
    IF end - det.start >= MIN_DTMF_DURATION
    THEN write_to_detect_output(det.start, end, prev)
    ELSE UNCHANGED out

(* A tone ends with the block before this one: it is reported when it and  *)
(* this block last long enough.                                            *)
Report(end, prev) ==
    IF end - det.start >= MIN_DTMF_DURATION
    THEN write_to_detect_output(det.start, end - Block, prev)
    ELSE UNCHANGED out

(* Mutants: the next tone starts with the silent block; a different tone   *)
(* starts only after the block that brought it.                            *)
StartInSilence(end, tone, different) ==
    IF ~tone \/ different THEN end - Block ELSE det.start
StartLate(end, tone, different) ==
    IF ~tone \/ different THEN end ELSE det.start

(* The start of the tone after a block.                                    *)
NextStart(end, tone, different) ==
    CASE ~tone -> end [] tone /\ different -> end - Block [] OTHER -> det.start

(* Only a change of both frequencies makes a different tone.               *)
Different(prev, curr) == prev[1] # curr[1] /\ prev[2] # curr[2]

(* One block.  The last sample of a block may be missing: the sample read  *)
(* before it is then used twice and counted twice.                         *)
DetBlock ==
    /\ pc["det"] = "block"
    /\ ~det.end_file
    /\ Left >= Block \/ (audio.closed /\ Left = Block - 1)
    /\ \E s \in BlockSpectra(audio, det.end, det.end + Block) :
       \E curr \in {<<Strongest(s, Rows), Strongest(s, Cols)>>} :
       \E prev \in {IF det.prev = <<-1, -1>> THEN curr ELSE det.prev},
          tone \in {TonePresent(s, curr[1], curr[2])},
          end \in {det.end + Block} :
         /\ IF ~tone \/ Different(prev, curr) THEN Report(end, prev) ELSE UNCHANGED out
         /\ det' = [start |-> NextStart(end, tone, Different(prev, curr)),
                    end |-> end, prev |-> curr, curr |-> curr,
                    duration |-> end - det.start, end_file |-> Left < Block]
         /\ heard' = Append(heard, [from |-> det.end, to |-> end, freqs |-> curr,
                                    tone |-> tone])
    /\ UNCHANGED <<argv, glob, pc, text, audio>>

(* The end of the audio inside a block; the last tone is reported when the *)
(* duration computed at the last whole block is long enough.               *)
DetEnd ==
    /\ pc["det"] = "block"
    /\ det.end_file \/ (audio.closed /\ Left < Block - 1)
    /\ \E end \in {IF det.end_file THEN det.end ELSE audio.length} :
         /\ det' = [det EXCEPT !.end = end]
         /\ IF det.duration >= MIN_DTMF_DURATION
            THEN write_to_detect_output(det.start, end, det.curr)
            ELSE UNCHANGED out
    /\ Goto("det", "exit")
    /\ UNCHANGED <<argv, glob, text, audio, heard>>

Next == \/ \E p \in {"gen", "det"} : Main(p)
        \/ Play \/ GenLine \/ GenEnd \/ GenHang
        \/ DetHeader \/ DetBlock \/ DetEnd

Spec == Init /\ [][Next]_vars

-----------------------------------------------------------------------------
(* Properties.                                                             *)

(* The int an argument spells, and the arguments for which the code can be *)
(* held to it: the character after a '-' is a digit and no int overflows.  *)
Decimal(a) ==
    LET n[i \in 0..Len(a)] == IF i = 0 THEN 0 ELSE 10 * n[i - 1] + a[i]
    IN  n[Len(a)]
Spelled(a) == IF a # <<>> /\ a[1] = Minus THEN -Decimal(Tail(a)) ELSE Decimal(a)
Proper(a) ==
    LET digits == IF a # <<>> /\ a[1] = Minus THEN Tail(a) ELSE a
    IN  /\ AllDigits(digits) => 8 * Decimal(digits) <= INT_MAX
        /\ (Len(a) > 1 /\ a[1] = Minus) => a[2] \in 0..9
IsInt(a) == a # <<>> /\ (AllDigits(a) \/ (a[1] = Minus /\ Len(a) > 1 /\ AllDigits(Tail(a))))

(* The argument a command line gives a flag, or the default.               *)
Given(line, flag, default) ==
    LET at == {i \in DOMAIN line.opts : line.opts[i][1] = flag}
    IN  IF at = {} THEN default ELSE line.opts[CHOOSE i \in at : TRUE][2]

(* What the usage text permits: each flag of the mode once, in any order,  *)
(* with an argument in range.                                              *)
Permitted(line) ==
    \/ line.mode = "-h"
    \/ /\ line.mode \in {"-g", "-d"} /\ ~line.odd
       /\ \A i, j \in DOMAIN line.opts : line.opts[i][1] = line.opts[j][1] => i = j
       /\ \A i \in DOMAIN line.opts :
            CASE line.mode = "-g" /\ line.opts[i][1] = "-t" ->
                    IsInt(line.opts[i][2]) /\ line.opts[i][2][1] # Minus
              [] line.mode = "-g" /\ line.opts[i][1] = "-n" -> TRUE
              [] line.mode = "-g" /\ line.opts[i][1] = "-l" ->
                    IsInt(line.opts[i][2]) /\ Spelled(line.opts[i][2]) \in -30..30
              [] line.mode = "-d" /\ line.opts[i][1] = "-b" ->
                    IsInt(line.opts[i][2]) /\ Spelled(line.opts[i][2]) \in 10..1000
              [] OTHER -> FALSE

(* validargs (dtmf.c:548-1128, one copy of the parser per argument count   *)
(* and position) accepts exactly the command lines of the usage text and   *)
(* stores what they say, whatever the order of the flags, the flags left   *)
(* out at their defaults.                                                  *)
OptionsAsGiven ==
    \A p \in {"gen", "det"} :
        (/\ pc[p] \notin {"main", "absent"}
         /\ \A i \in DOMAIN argv[p].opts :
              argv[p].opts[i][1] # "-n" => Proper(argv[p].opts[i][2]))
        => /\ glob[p].ok <=> Permitted(argv[p])
           /\ (glob[p].ok /\ argv[p].mode = "-g") =>
                /\ glob[p].audio_samples = 8 * Spelled(Given(argv[p], "-t", <<1, 0, 0, 0>>))
                /\ glob[p].noise_level = Spelled(Given(argv[p], "-l", <<0>>))
                /\ glob[p].noise_file = Given(argv[p], "-n", NULL)
           /\ (glob[p].ok /\ argv[p].mode = "-d") =>
                glob[p].block_size = Spelled(Given(argv[p], "-b", <<1, 0, 0>>))

(* Two successive blocks of one tone, and two that the detector takes for  *)
(* one (dtmf.c:501): they share at least a frequency.                      *)
SameTone(i) == /\ heard[i].tone /\ heard[i + 1].tone
               /\ heard[i].freqs = heard[i + 1].freqs

Alike(f, g) == f[1] = g[1] \/ f[2] = g[2]

Chained(i) == /\ heard[i].tone /\ heard[i + 1].tone
              /\ Alike(heard[i].freqs, heard[i + 1].freqs)

(* The blocks that lie in an event.                                        *)
BlocksOf(e) == {i \in DOMAIN heard : e.from <= heard[i].from /\ heard[i].to <= e.to}

(* Every block of a reported event is a tone, goes on from the block       *)
(* before it, and the last one is the tone the event names: prev and start *)
(* of dtmf_detect (dtmf.c:469-511) stay in step with the blocks read.      *)
EventsAreTones ==
    \A k \in DOMAIN out : \A i \in BlocksOf(out[k]) :
        /\ heard[i].tone
        /\ IF i + 1 \in BlocksOf(out[k]) THEN Chained(i)
           ELSE out[k].symbol = findSymbolFromFrequencies(heard[i].freqs[1], heard[i].freqs[2])

(* Reported events are in order and apart, and none cuts a tone in two: of *)
(* two successive blocks with the same tone an event has both or neither   *)
(* (dtmf.c:342-346).                                                       *)
EventsSeparate ==
    /\ \A k \in DOMAIN out : out[k].from <= out[k].to
    /\ \A k \in 1..Len(out) - 1 : out[k].to <= out[k + 1].from
    /\ \A k \in DOMAIN out : \A i \in 1..Len(heard) - 1 :
          SameTone(i) => (i \in BlocksOf(out[k]) <=> i + 1 \in BlocksOf(out[k]))

(* Blocks i to j are one tone and last at least MIN_DTMF_DURATION; an      *)
(* event names that tone.                                                  *)
LongTone(i, j) ==
    /\ i <= j /\ heard[i].tone /\ \A k \in i..j - 1 : SameTone(k)
    /\ heard[j].to - heard[i].from >= MIN_DTMF_DURATION

Names(e, i) == e.symbol = findSymbolFromFrequencies(heard[i].freqs[1], heard[i].freqs[2])

(* A long tone between silence, the ends of the audio or tones that share  *)
(* no frequency with it is reported once the detector has finished: by an  *)
(* event of exactly its blocks and with its symbol, also when it lasts to  *)
(* the end or gives way to another tone at once (dtmf.c:492-508, 519).     *)
LoneTonesReported ==
    pc["det"] = "exit" =>
        \A i, j \in DOMAIN heard :
            (/\ LongTone(i, j)
             /\ i > 1 => ~Chained(i - 1)
             /\ j < Len(heard) => ~Chained(j))
            => \E e \in Range(out) : BlocksOf(e) = i..j /\ Names(e, i)

(* A text whose events start at 0, fill whole blocks, last long enough and *)
(* differ in both frequencies where they touch.                            *)
CleanText ==
    /\ text.lines # <<>> /\ text.lines[1].n1 = 0
    /\ \A k \in DOMAIN text.lines :
         LET e == text.lines[k]
         IN  /\ checkSymbolIsCorrect(e.symbol)
             /\ e.n1 % Block = 0 /\ e.n2 % Block = 0
             /\ e.n2 - e.n1 >= MIN_DTMF_DURATION /\ e.n2 <= LENGTH
             /\ k < Len(text.lines) =>
                  LET f == text.lines[k + 1]
                  IN  \/ e.n2 < f.n1
                      \/ e.n2 = f.n1 /\ ~Alike(<<getFreqRow(e.symbol), getFreqCol(e.symbol)>>,
                                              <<getFreqRow(f.symbol), getFreqCol(f.symbol)>>)

(* dtmf -g | dtmf -d gives back the events it was given: text, segments,   *)
(* blocks and reports agree about every index.  (An event without samples  *)
(* may be reported besides.)                                               *)
RoundTrip ==
    (/\ pc["gen"] = "exit" /\ glob["gen"].ok /\ argv["gen"].mode = "-g"
     /\ glob["gen"].noise_file = NULL
     /\ pc["det"] = "exit" /\ glob["det"].ok /\ argv["det"].mode = "-d" /\ CleanText)
    => SelectSeq(out, LAMBDA e : e.from < e.to)
         = [k \in DOMAIN text.lines |->
              [from |-> text.lines[k].n1, to |-> text.lines[k].n2,
               symbol |-> text.lines[k].symbol]]

(* What dtmf.c:341-349 says of a long tone, whatever comes before or after *)
(* it: a block with "a different tone" ends the event, and the event is    *)
(* emitted.                                                                *)
LongTonesReported ==
    pc["det"] = "exit" =>
        \A i, j \in DOMAIN heard :
            LongTone(i, j) => \E e \in Range(out) : {i, j} \subseteq BlocksOf(e) /\ Names(e, i)

(* What dtmf.c:346-350 says of a detected tone: an event shorter than      *)
(* MIN_DTMF_DURATION is discarded.                                         *)
ReportedLongEnough ==
    \A k \in DOMAIN out : out[k].to - out[k].from >= MIN_DTMF_DURATION
=============================================================================
