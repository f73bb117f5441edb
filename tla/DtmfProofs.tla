----------------------------- MODULE DtmfProofs -----------------------------
(***************************************************************************)
(* What dtmf_detect reports, for audio of any length, any spectrum in any  *)
(* block, and every block size that validargs lets through: the events are *)
(* tones and apart, and every tone that lasts long enough and touches none *)
(* that shares a frequency with it is one.                                 *)
(* And what validargs makes of a command line of any length.               *)
(***************************************************************************)
EXTENDS Dtmf, LeastElement, TLAPS

Symbols == UNION {{dtmf_symbol_names[r][c] : c \in 1 .. 4} : r \in 1 .. 4}
Segments == [from : Nat, to : Nat, tone : {"silence", "recorded"} \cup Symbols, strength : Nat]
FreqPairs == (Rows \cup {-1, 0}) \X (Cols \cup {-1, 0})
Events == [from : Nat, to : Nat,
           symbol : {findSymbolFromFrequencies(f[1], f[2]) : f \in FreqPairs}]
HeardBlocks == [from : Nat, to : Nat, freqs : Rows \X Cols, tone : BOOLEAN]

IsAudio(f) ==
    /\ f = [header |-> f.header, segs |-> f.segs, length |-> f.length, closed |-> f.closed]
    /\ f.segs \in Seq(Segments) /\ f.length \in Nat

Labels == {"main", "generate", "header", "block", "exit", "absent", "failed", "loops"}

DetLocals == [start : Nat, end : Nat, prev : FreqPairs, curr : FreqPairs,
              duration : Int, end_file : BOOLEAN]

Types ==
    /\ argv = [gen |-> argv.gen, det |-> argv.det, recordings |-> argv.recordings]
    /\ \A r \in argv.recordings : r.length \in Nat
    /\ glob = [gen |-> glob.gen, det |-> glob.det]
    /\ pc \in [{"gen", "det"} -> Labels]
    /\ text = [lines |-> text.lines, ending |-> text.ending, next |-> text.next]
    /\ text.lines \in Seq([n1 : Nat, n2 : Nat, symbol : STRING]) /\ text.next \in Nat \ {0}
    /\ IsAudio(audio)
    /\ det \in DetLocals
    /\ out \in Seq(Events)
    /\ heard \in Seq(HeardBlocks)

(* Before the first block nothing has been heard; the block size that      *)
(* validargs accepted is in range.                                         *)
Started ==
    /\ pc["det"] \in {"header", "block"} => Block \in 10 .. 1000
    /\ pc["det"] \notin {"block", "exit"} =>
         /\ heard = <<>> /\ out = <<>>
         /\ det.start = 0 /\ det.end = 0 /\ det.prev = <<-1, -1>> /\ ~det.end_file

(* The blocks follow each other up to det.end.                             *)
InOrder ==
    /\ \A i \in DOMAIN heard : heard[i].from < heard[i].to /\ heard[i].to <= det.end
    /\ \A i, j \in DOMAIN heard : i < j => heard[i].to <= heard[j].from

(* The tone that is being heard starts with block s, at det.start: all     *)
(* blocks from s on belong to it and the one before does not.  When no     *)
(* tone is being heard s is the next block.                                *)
RunFrom(s) ==
    /\ \A i \in DOMAIN heard :
         /\ i < s => heard[i].to <= det.start
         /\ i >= s => /\ heard[i].from >= det.start /\ heard[i].tone
                      /\ i < Len(heard) => Chained(i)
    /\ s > 1 /\ s <= Len(heard) => ~Chained(s - 1)
    /\ s > 1 /\ s = Len(heard) + 1 => ~heard[s - 1].tone

(* The locals of dtmf_detect between two blocks.                           *)
Position ==
    /\ det.start <= det.end /\ (~det.end_file => det.end <= audio.length)
    /\ heard = <<>> => det.prev = <<-1, -1>>
    /\ heard # <<>> => /\ det.prev = heard[Len(heard)].freqs
                       /\ det.curr = heard[Len(heard)].freqs
                       /\ det.duration >= det.end - det.start
    /\ \A k \in DOMAIN out : out[k].to <= det.start

(* A tone of blocks i to j that is long enough, and that it is reported.   *)
Long(i, j) ==
    /\ i <= j /\ heard[i].tone /\ \A k \in i .. j - 1 : Chained(k)
    /\ heard[j].to - heard[i].from >= MIN_DTMF_DURATION

Covered(i, j) == \E k \in DOMAIN out : {i, j} \subseteq BlocksOf(out[k])

(* Every long tone that is over has been reported.                         *)
PastReported ==
    \A i, j \in DOMAIN heard : Long(i, j) /\ heard[j].to <= det.start => Covered(i, j)

(* The same when the detector has finished; the blocks are in order.       *)
ChainsReported ==
    pc["det"] = "exit" =>
        /\ \A i \in DOMAIN heard : heard[i].from < heard[i].to
        /\ \A i, j \in DOMAIN heard : i < j => heard[i].to <= heard[j].from
        /\ \A i, j \in DOMAIN heard :
             Long(i, j) => \E e \in Range(out) : {i, j} \subseteq BlocksOf(e)

(* EventsSeparate, with the blocks of an event as the detector sees them.  *)
EventsWhole ==
    /\ \A k \in DOMAIN out : out[k].from <= out[k].to
    /\ \A k \in 1 .. Len(out) - 1 : out[k].to <= out[k + 1].from
    /\ \A k \in DOMAIN out : \A i \in 1 .. Len(heard) - 1 :
         Chained(i) => (i \in BlocksOf(out[k]) <=> i + 1 \in BlocksOf(out[k]))

Between ==
    /\ InOrder /\ Position /\ PastReported
    /\ \E s \in 1 .. Len(heard) + 1 : RunFrom(s)

IInv ==
    /\ Types /\ Started
    /\ pc["det"] = "block" => Between
    /\ EventsAreTones /\ EventsWhole /\ ChainsReported

-----------------------------------------------------------------------------
(* The operators of the model.                                             *)

(* Of four numbers one is the largest and first among its equals.          *)
LEMMA StrongestOf ==
    ASSUME NEW a \in Nat, NEW b \in Nat, NEW c \in Nat, NEW d \in Nat, a < b, b < c, c < d,
           NEW s, s[a] \in Nat, s[b] \in Nat, s[c] \in Nat, s[d] \in Nat
    PROVE  Strongest(s, {a, b, c, d}) \in {a, b, c, d}
<1> DEFINE P(f) == \A g \in {a, b, c, d} : s[g] < s[f] \/ (s[g] = s[f] /\ f <= g)
<1>1. P(a) \/ P(b) \/ P(c) \/ P(d)
  OBVIOUS
<1>2. \E f \in {a, b, c, d} : P(f)
  BY <1>1
<1> QED
  BY <1>2 DEF Strongest

SpectrumType == [Rows \cup Cols -> Nat]

(* The strongest row and column are a row and a column.                    *)
LEMMA StrongestType ==
    ASSUME NEW s \in SpectrumType
    PROVE  Strongest(s, Rows) \in Rows /\ Strongest(s, Cols) \in Cols
<1>1. /\ s[697] \in Nat /\ s[770] \in Nat /\ s[852] \in Nat /\ s[941] \in Nat
      /\ s[1209] \in Nat /\ s[1336] \in Nat /\ s[1477] \in Nat /\ s[1633] \in Nat
  BY DEF SpectrumType, Rows, Cols
<1>2. Strongest(s, {697, 770, 852, 941}) \in {697, 770, 852, 941}
  <2>1. PICK a \in Nat, b \in Nat, c \in Nat, d \in Nat : a = 697 /\ b = 770 /\ c = 852 /\ d = 941
    OBVIOUS
  <2>2. Strongest(s, {a, b, c, d}) \in {a, b, c, d}
    BY SMTT(30), <1>1, <2>1, StrongestOf
  <2> QED
    BY <2>1, <2>2
<1>3. Strongest(s, {1209, 1336, 1477, 1633}) \in {1209, 1336, 1477, 1633}
  <2>1. PICK a \in Nat, b \in Nat, c \in Nat, d \in Nat : a = 1209 /\ b = 1336 /\ c = 1477 /\ d = 1633
    OBVIOUS
  <2>2. Strongest(s, {a, b, c, d}) \in {a, b, c, d}
    BY SMTT(30), <1>1, <2>1, StrongestOf
  <2> QED
    BY <2>1, <2>2
<1> QED
  BY <1>2, <1>3 DEF Rows, Cols

(* Every block the detector can hear has a spectrum.                       *)
LEMMA BlockSpectraType ==
    ASSUME NEW f, IsAudio(f), NEW from, NEW to, NEW s \in BlockSpectra(f, from, to)
    PROVE  s \in SpectrumType
<1>1. Silence \in SpectrumType
  BY DEF Silence, SpectrumType
<1>2. ASSUME NEW g \in Segments PROVE ToneSpectrum(g.tone, g.strength) \in SpectrumType
  <2>1. PICK k : k = g.strength
    OBVIOUS
  <2>2. k \in Nat
    BY <2>1 DEF Segments
  <2>3. getFreqRow(g.tone) \in Rows \cup Cols /\ getFreqCol(g.tone) \in Rows \cup Cols
    BY DEF getFreqRow, getFreqCol, Rows, Cols
  <2>4. PICK h : h = [Silence EXCEPT ![getFreqRow(g.tone)] = k]
    OBVIOUS
  <2>5. h \in SpectrumType
    BY <1>1, <2>2, <2>3, <2>4 DEF SpectrumType
  <2>6. ToneSpectrum(g.tone, g.strength) = [h EXCEPT ![getFreqCol(g.tone)] = k]
    BY <2>1, <2>4 DEF ToneSpectrum
  <2> QED
    BY <2>2, <2>3, <2>5, <2>6 DEF SpectrumType
<1>3. Sounding(f, from, to) \subseteq Segments
  BY DEF Sounding, Range, IsAudio
<1>4. Spectra \subseteq SpectrumType
  BY DtmfAssumption DEF SpectrumType
<1> QED
  BY <1>1, <1>2, <1>3, <1>4 DEF BlockSpectra

(* Audio only grows.                                                       *)
Grown(f, g) == IsAudio(g) /\ f.length <= g.length

(* The generator only appends to the audio.                                *)
LEMMA WriteGrows ==
    ASSUME NEW f, IsAudio(f), NEW to \in Nat, NEW strength \in Nat,
           NEW tone \in {"silence", "recorded"} \cup Symbols
    PROVE  Grown(f, Write(f, to, tone, strength))
<1>1. PICK n : n = f.length
  OBVIOUS
<1>2. n \in Nat /\ f.segs \in Seq(Segments)
  BY <1>1 DEF IsAudio
<1>3. CASE to <= n
  BY <1>1, <1>2, <1>3 DEF Write, Grown
<1>4. CASE ~(to <= n)
  <2>1. PICK e : e = [from |-> n, to |-> to, tone |-> tone, strength |-> strength]
    OBVIOUS
  <2>2. e \in Segments
    BY <1>2, <2>1 DEF Segments
  <2>3. PICK t : t = Append(f.segs, e)
    OBVIOUS
  <2>4. t \in Seq(Segments)
    BY <1>2, <2>2, <2>3
  <2>5. Write(f, to, tone, strength) = [f EXCEPT !.length = to, !.segs = t]
    BY <1>1, <1>4, <2>1, <2>3 DEF Write
  <2>6. [f EXCEPT !.length = to, !.segs = t]
          = [header |-> f.header, segs |-> t, length |-> to, closed |-> f.closed]
    <3>1. PICK h, g, m, x : f = [header |-> h, segs |-> g, length |-> m, closed |-> x]
      BY DEF IsAudio
    <3>2. PICK k : k = [f EXCEPT !.length = to]
      OBVIOUS
    <3>3. k = [header |-> h, segs |-> g, length |-> to, closed |-> x]
      BY <3>1, <3>2
    <3>4. [k EXCEPT !.segs = t] = [header |-> h, segs |-> t, length |-> to, closed |-> x]
      BY <3>3
    <3>5. [f EXCEPT !.length = to, !.segs = t] = [k EXCEPT !.segs = t]
      BY <3>2
    <3> QED
      BY <3>1, <3>4, <3>5
  <2> QED
    BY <1>1, <1>2, <1>4, <2>4, <2>5, <2>6 DEF Grown, IsAudio
<1> QED
  BY <1>3, <1>4

(* The bounds of -b: an accepted block size is in 10..1000.                *)
LEMMA OptionsInRange ==
    ASSUME NEW line, validargs(line).ok, line.mode = "-d"
    PROVE  validargs(line).block_size \in 10 .. 1000
<1>1. Fail.ok = FALSE
  BY DEF Fail
<1>2. validargs(line) = IF line.odd THEN Fail ELSE DetectOptions(line.opts)
  BY DEF validargs
<1>3. DetectOptions(line.opts).ok
  BY <1>1, <1>2
<1>4. DetectOptions(line.opts).block_size \in 10 .. 1000
  <2>1. PICK opts : opts = line.opts
    OBVIOUS
  <2>2. CASE Len(opts) = 0
    BY <2>1, <2>2 DEF DetectOptions
  <2>3. CASE Len(opts) # 0
    <3>1. Len(opts) = 1 /\ opts[1][1] = "-b" /\ opts[1][2] # <<>> /\ AllDigits(opts[1][2])
          /\ Number(opts[1][2]) \in 10 .. 1000
      BY ZenonT(40), <1>1, <1>3, <2>1, <2>3 DEF DetectOptions
    <3>2. DetectOptions(opts) = [ok |-> TRUE, block_size |-> Number(opts[1][2])]
      BY SMTT(30), <3>1 DEF DetectOptions
    <3>3. PICK k : k = Number(opts[1][2])
      OBVIOUS
    <3>4. DetectOptions(opts) = [ok |-> TRUE, block_size |-> k] /\ k \in 10 .. 1000
      BY <3>1, <3>2, <3>3
    <3>5. DetectOptions(opts).block_size = k
      BY <3>4
    <3> QED
      BY <2>1, <3>4, <3>5
  <2> QED
    BY <2>2, <2>3
<1> QED
  BY <1>1, <1>2, <1>4

-----------------------------------------------------------------------------
(* One event: its blocks are chained tones ending with the one it names,   *)
(* and no tone that it has a block of goes on outside it.                  *)
AllTones(e) ==
    \A i \in BlocksOf(e) :
        /\ heard[i].tone
        /\ IF i + 1 \in BlocksOf(e) THEN Chained(i)
           ELSE e.symbol = findSymbolFromFrequencies(heard[i].freqs[1], heard[i].freqs[2])

Whole(e) ==
    \A i \in 1 .. Len(heard) - 1 :
        Chained(i) => (i \in BlocksOf(e) <=> i + 1 \in BlocksOf(e))

(* The properties, event by event, now and after a step.                   *)
LEMMA ByEvent ==
    /\ EventsAreTones <=> \A k \in DOMAIN out : AllTones(out[k])
    /\ EventsWhole <=>
         /\ \A k \in DOMAIN out : out[k].from <= out[k].to
         /\ \A k \in 1 .. Len(out) - 1 : out[k].to <= out[k + 1].from
         /\ \A k \in DOMAIN out : Whole(out[k])
BY DEF EventsAreTones, EventsWhole, AllTones, Whole

LEMMA ByEventAfter ==
    ASSUME \A k \in DOMAIN out' : \A x : x = out'[k] => AllTones(x)' /\ Whole(x)',
           \A k \in DOMAIN out' : out'[k].from <= out'[k].to,
           \A k \in 1 .. Len(out') - 1 : out'[k].to <= out'[k + 1].from
    PROVE  EventsAreTones' /\ EventsWhole'
<1>1. EventsAreTones'
  <2> SUFFICES ASSUME NEW k \in DOMAIN out', NEW x, x = out'[k],
                      NEW i \in BlocksOf(x)'
               PROVE  /\ heard'[i].tone
                      /\ IF i + 1 \in BlocksOf(x)' THEN Chained(i)'
                         ELSE x.symbol = findSymbolFromFrequencies(heard'[i].freqs[1],
                                                                   heard'[i].freqs[2])
    BY DEF EventsAreTones, BlocksOf
  <2> QED
    BY DEF AllTones
<1>2. EventsWhole'
  <2>1. ASSUME NEW k \in DOMAIN out', NEW x, x = out'[k],
               NEW i \in 1 .. Len(heard') - 1, Chained(i)'
        PROVE  i \in BlocksOf(x)' <=> i + 1 \in BlocksOf(x)'
    BY <2>1 DEF Whole
  <2> QED
    BY <2>1 DEF EventsWhole, BlocksOf
<1> QED
  BY <1>1, <1>2

(* One more block is heard.                                                *)
Hears(b) == heard' = Append(heard, b)

(* What the detector has heard gets one block longer.                      *)
LEMMA HeardGrows ==
    ASSUME heard \in Seq(HeardBlocks), NEW b \in HeardBlocks, Hears(b)
    PROVE  /\ heard' \in Seq(HeardBlocks) /\ Len(heard) \in Nat /\ Len(heard') = Len(heard) + 1
           /\ DOMAIN heard = 1 .. Len(heard) /\ DOMAIN heard' = 1 .. Len(heard) + 1
           /\ \A i \in 1 .. Len(heard) : heard'[i] = heard[i]
           /\ heard'[Len(heard) + 1] = b
           /\ \A i \in 1 .. Len(heard) - 1 : Chained(i)' <=> Chained(i)
<1>1. /\ heard' \in Seq(HeardBlocks) /\ Len(heard) \in Nat /\ Len(heard') = Len(heard) + 1
      /\ DOMAIN heard = 1 .. Len(heard) /\ DOMAIN heard' = 1 .. Len(heard) + 1
      /\ \A i \in 1 .. Len(heard) : heard'[i] = heard[i]
      /\ heard'[Len(heard) + 1] = b
  BY DEF Hears
<1>2. ASSUME NEW i \in 1 .. Len(heard) - 1 PROVE Chained(i)' <=> Chained(i)
  <2>1. heard'[i] = heard[i] /\ heard'[i + 1] = heard[i + 1]
    BY <1>1
  <2> QED
    BY <2>1 DEF Chained, Alike
<1> QED
  BY <1>1, <1>2

(* The fields of what has been heard and reported, as numbers.             *)
LEMMA Fields ==
    ASSUME Types
    PROVE  /\ \A i \in DOMAIN heard : heard[i].from \in Nat /\ heard[i].to \in Nat
           /\ \A k \in DOMAIN out : out[k] \in Events /\ out[k].from \in Nat /\ out[k].to \in Nat
           /\ det.start \in Nat /\ det.end \in Nat /\ det.duration \in Int
           /\ Len(heard) \in Nat /\ DOMAIN heard = 1 .. Len(heard)
           /\ Len(out) \in Nat /\ DOMAIN out = 1 .. Len(out)
<1>1. \A i \in DOMAIN heard : heard[i] \in HeardBlocks
  BY DEF Types
<1>2. \A k \in DOMAIN out : out[k] \in Events
  BY DEF Types
<1>3. \A i \in DOMAIN heard : heard[i].from \in Nat /\ heard[i].to \in Nat
  BY <1>1 DEF HeardBlocks
<1>4. \A k \in DOMAIN out : out[k].from \in Nat /\ out[k].to \in Nat
  BY <1>2 DEF Events
<1>5. det.start \in Nat /\ det.end \in Nat /\ det.duration \in Int
  BY DEF Types, DetLocals
<1>6. /\ Len(heard) \in Nat /\ DOMAIN heard = 1 .. Len(heard)
      /\ Len(out) \in Nat /\ DOMAIN out = 1 .. Len(out)
  BY DEF Types
<1> QED
  BY <1>2, <1>3, <1>4, <1>5, <1>6

(* An event that ends before the new block stays what it was, if the last  *)
(* block is not chained to the new one.                                    *)
LEMMA EventKept ==
    ASSUME Types, NEW e \in Events, NEW b \in HeardBlocks, Hears(b), b.to > det.end,
           e.to <= det.end, AllTones(e), Whole(e),
           NEW n, n = Len(heard), n \in BlocksOf(e) => ~Chained(n)'
    PROVE  AllTones(e)' /\ Whole(e)' /\ BlocksOf(e)' = BlocksOf(e)
<1>1. /\ n \in Nat /\ Len(heard') = n + 1
      /\ DOMAIN heard = 1 .. n /\ DOMAIN heard' = 1 .. n + 1
      /\ \A i \in 1 .. n : heard'[i] = heard[i]
      /\ heard'[n + 1] = b
      /\ \A i \in 1 .. n - 1 : Chained(i)' <=> Chained(i)
  BY HeardGrows DEF Types
<1>2. e.to \in Nat /\ b.to \in Nat /\ det.end \in Nat
  BY Fields DEF Events, HeardBlocks
<1>3. BlocksOf(e)' = BlocksOf(e)
  BY <1>1, <1>2 DEF BlocksOf
<1>4. BlocksOf(e) \subseteq 1 .. n
  BY <1>1 DEF BlocksOf
<1>5. AllTones(e)'
  <2> SUFFICES ASSUME NEW i \in BlocksOf(e)
               PROVE  /\ heard'[i].tone
                      /\ i + 1 \in BlocksOf(e) => Chained(i)'
                      /\ i + 1 \notin BlocksOf(e) =>
                           e.symbol = findSymbolFromFrequencies(heard'[i].freqs[1],
                                                                heard'[i].freqs[2])
    BY <1>3 DEF AllTones
  <2>1. heard'[i] = heard[i] /\ i \in 1 .. n
    BY <1>1, <1>4
  <2>2. i + 1 \in BlocksOf(e) => i \in 1 .. n - 1
    BY <1>1, <1>4
  <2> QED
    BY <1>1, <2>1, <2>2 DEF AllTones
<1>6. Whole(e)'
  <2>0. Len(heard') - 1 = n
    BY <1>1
  <2> SUFFICES ASSUME NEW i, i \in 1 .. n, Chained(i)'
               PROVE  i \in BlocksOf(e) <=> i + 1 \in BlocksOf(e)
    BY <1>3, <2>0 DEF Whole
  <2>1. CASE i = n
    <3>1. n + 1 \notin BlocksOf(e)
      BY <1>1, <1>4
    <3> QED
      BY <2>1, <3>1
  <2>2. CASE i # n
    <3>1. i \in 1 .. n - 1
      BY <1>1, <2>2
    <3> QED
      BY <1>1, <3>1 DEF Whole
  <2> QED
    BY <2>1, <2>2
<1> QED
  BY <1>3, <1>5, <1>6

(* The tone that is being heard makes an event.                            *)
LEMMA CurrentEvent ==
    ASSUME Types, InOrder, NEW s \in 1 .. Len(heard) + 1, RunFrom(s), NEW e \in Events,
           e.from = det.start, e.to >= det.end,
           heard # <<>> =>
             e.symbol = findSymbolFromFrequencies(heard[Len(heard)].freqs[1],
                                                  heard[Len(heard)].freqs[2])
    PROVE  /\ AllTones(e) /\ Whole(e)
           /\ \A i \in DOMAIN heard : i \in BlocksOf(e) <=> i >= s
<1> PICK n : n = Len(heard)
  OBVIOUS
<1>1. /\ n \in Nat /\ DOMAIN heard = 1 .. n /\ det.start \in Nat /\ det.end \in Nat
      /\ \A i \in DOMAIN heard : heard[i].from \in Nat /\ heard[i].to \in Nat
      /\ e.to \in Nat /\ s \in Nat
  BY Fields DEF Events
<1>2. ASSUME NEW i \in DOMAIN heard PROVE i \in BlocksOf(e) <=> i >= s
  <2>1. heard[i].from < heard[i].to /\ heard[i].to <= det.end
    BY DEF InOrder
  <2>2. CASE i >= s
    <3>1. heard[i].from >= det.start
      BY <2>2 DEF RunFrom
    <3> QED
      BY <1>1, <2>1, <2>2, <3>1 DEF BlocksOf
  <2>3. CASE ~(i >= s)
    <3>1. heard[i].to <= det.start
      BY <1>1, <2>3 DEF RunFrom
    <3>2. ~(det.start <= heard[i].from)
      BY <1>1, <2>1, <3>1
    <3> QED
      BY <2>3, <3>2 DEF BlocksOf
  <2> QED
    BY <2>2, <2>3
<1>3. BlocksOf(e) \subseteq DOMAIN heard
  BY DEF BlocksOf
<1>4. AllTones(e)
  <2> SUFFICES ASSUME NEW i, i \in BlocksOf(e)
               PROVE  /\ heard[i].tone
                      /\ i + 1 \in BlocksOf(e) => Chained(i)
                      /\ i + 1 \notin BlocksOf(e) =>
                           e.symbol = findSymbolFromFrequencies(heard[i].freqs[1],
                                                                heard[i].freqs[2])
    BY DEF AllTones
  <2>1. i \in 1 .. n /\ i >= s
    BY <1>1, <1>2, <1>3
  <2>2. heard[i].tone /\ (i < n => Chained(i))
    BY <1>1, <2>1 DEF RunFrom
  <2>3. CASE i < n
    <3>1. i + 1 \in DOMAIN heard /\ i + 1 >= s
      BY <1>1, <2>1, <2>3
    <3> QED
      BY <1>2, <2>2, <2>3, <3>1
  <2>4. CASE i = n
    <3>1. i + 1 \notin BlocksOf(e) /\ heard # <<>>
      BY <1>1, <1>3, <2>1, <2>4
    <3> QED
      BY <2>2, <2>4, <3>1
  <2> QED
    BY <1>1, <2>1, <2>3, <2>4
<1>5. Whole(e)
  <2> SUFFICES ASSUME NEW i \in 1 .. n - 1, Chained(i)
               PROVE  i \in BlocksOf(e) <=> i + 1 \in BlocksOf(e)
    BY DEF Whole
  <2>1. i \in DOMAIN heard /\ i + 1 \in DOMAIN heard /\ i \in Nat
    BY <1>1
  <2>2. s = i + 1 => ~Chained(i)
    BY <1>1, <2>1 DEF RunFrom
  <2>3. i >= s <=> i + 1 >= s
    BY <1>1, <2>1, <2>2
  <2> QED
    BY <1>2, <2>1, <2>3
<1> QED
  BY <1>2, <1>4, <1>5

(* The tone that is being heard is reported, or nothing is.                *)
IsCurrent(e) == e.from = det.start /\ e.from <= e.to /\ AllTones(e)' /\ Whole(e)'

ReportsAtMost(e) == out' = out \/ (out' = Append(out, e) /\ IsCurrent(e))

EventsKept == \A x \in Range(out) : AllTones(x)' /\ Whole(x)'

(* An event added behind the others keeps the reports apart and tones      *)
(* only.                                                                   *)
LEMMA EventsAfter ==
    ASSUME Types, EventsWhole, EventsKept, \A k \in DOMAIN out : out[k].to <= det.start,
           NEW e \in Events, ReportsAtMost(e)
    PROVE  EventsAreTones' /\ EventsWhole'
<1>1. PICK m : m = Len(out)
  OBVIOUS
<1>2. m \in Nat /\ DOMAIN out = 1 .. m /\ det.start \in Nat
  BY <1>1, Fields
<1>3. ASSUME NEW k \in DOMAIN out, NEW x, x = out[k] PROVE AllTones(x)' /\ Whole(x)'
  BY <1>3 DEF EventsKept, Range
<1>4. /\ \A k \in 1 .. m : out[k].from <= out[k].to
      /\ \A k \in 1 .. m - 1 : out[k].to <= out[k + 1].from
  BY <1>1, <1>2 DEF EventsWhole
<1>5. CASE out' = out
  <2>1. \A k \in DOMAIN out' : \A x : x = out'[k] => AllTones(x)' /\ Whole(x)'
    BY <1>3, <1>5
  <2> QED
    BY <1>1, <1>2, <1>4, <1>5, <2>1, ByEventAfter
<1>6. CASE out' = Append(out, e) /\ IsCurrent(e)
  <2>1. /\ DOMAIN out' = 1 .. m + 1 /\ Len(out') = m + 1
        /\ \A k \in 1 .. m : out'[k] = out[k]
        /\ out'[m + 1] = e
    BY <1>1, <1>2, <1>6 DEF Types
  <2>2. \A k \in DOMAIN out' : \A x : x = out'[k] => AllTones(x)' /\ Whole(x)'
    <3> SUFFICES ASSUME NEW k, k \in 1 .. m + 1, NEW x, x = out'[k]
                 PROVE  AllTones(x)' /\ Whole(x)'
      BY <2>1
    <3>1. CASE k = m + 1
      BY <1>6, <2>1, <3>1 DEF IsCurrent
    <3>2. CASE k # m + 1
      <4>1. k \in 1 .. m
        BY <1>2, <3>2
      <4> QED
        BY <1>2, <1>3, <2>1, <4>1
    <3> QED
      BY <3>1, <3>2
  <2>3. \A k \in 1 .. m + 1 : out'[k].from <= out'[k].to
    BY <1>2, <1>4, <1>6, <2>1 DEF IsCurrent
  <2>4. \A k \in 1 .. m : out'[k].to <= out'[k + 1].from
    <3> SUFFICES ASSUME NEW k, k \in 1 .. m PROVE out'[k].to <= out'[k + 1].from
      OBVIOUS
    <3>1. CASE k = m
      BY <1>2, <1>6, <2>1, <3>1 DEF IsCurrent
    <3>2. CASE k # m
      <4>1. k \in 1 .. m - 1 /\ k + 1 \in 1 .. m
        BY <1>2, <3>2
      <4> QED
        BY <1>4, <2>1, <4>1
    <3> QED
      BY <3>1, <3>2
  <2>5. Len(out') - 1 = m
    BY <1>2, <2>1
  <2> QED
    BY <2>1, <2>2, <2>3, <2>4, <2>5, ByEventAfter
<1> QED
  BY <1>5, <1>6 DEF ReportsAtMost

(* A long tone is over, or all of it belongs to the tone being heard.      *)
LEMMA RunOrPast ==
    ASSUME Types, InOrder, NEW s \in 1 .. Len(heard) + 1, RunFrom(s),
           NEW i \in DOMAIN heard, NEW j \in DOMAIN heard, Long(i, j)
    PROVE  heard[j].to <= det.start \/ (i >= s /\ j >= s)
<1>1. PICK n : n = Len(heard)
  OBVIOUS
<1>2. n \in Nat /\ DOMAIN heard = 1 .. n /\ i \in 1 .. n /\ j \in 1 .. n /\ s \in 1 .. n + 1
  BY <1>1, Fields
<1>3. j < s => heard[j].to <= det.start
  BY DEF RunFrom
<1>4. CASE s <= j /\ i < s
  <2>1. s - 1 \in i .. j - 1 /\ s > 1 /\ s <= n
    BY <1>2, <1>4
  <2>2. Chained(s - 1)
    BY <2>1 DEF Long
  <2>3. ~Chained(s - 1)
    BY <1>1, <2>1 DEF RunFrom
  <2> QED
    BY <2>2, <2>3
<1> QED
  BY <1>2, <1>3, <1>4

-----------------------------------------------------------------------------
(* One block of dtmf_detect.                                               *)

(* The tone of the block before, and the event that ends with it.          *)
Before(b) == IF heard = <<>> THEN b.freqs ELSE heard[Len(heard)].freqs

EventOf(b) == [from |-> det.start, to |-> det.end,
               symbol |-> findSymbolFromFrequencies(Before(b)[1], Before(b)[2])]

Ends(b) == ~b.tone \/ Different(Before(b), b.freqs)

Takes(b) ==
    /\ Hears(b) /\ b.from = det.end /\ b.to > det.end
    /\ det'.end = b.to /\ det'.prev = b.freqs /\ det'.curr = b.freqs
    /\ det'.duration = b.to - det.start
    /\ det'.start = IF ~b.tone THEN b.to
                    ELSE IF Ends(b) THEN det.end ELSE det.start
    /\ out' = IF Ends(b) /\ b.to - det.start >= MIN_DTMF_DURATION
              THEN Append(out, EventOf(b)) ELSE out
    /\ det' \in DetLocals
    /\ ~det'.end_file => det'.end <= audio.length

(* What one turn of the loop of dtmf_detect does.                          *)
LEMMA BlockTaken ==
    ASSUME Types, Started, Position, DetBlock
    PROVE  \E b \in HeardBlocks : Takes(b)
<1>1. PICK size : size = Block
  OBVIOUS
<1>2. size \in 10 .. 1000 /\ size \in Nat
  <2>1. pc["det"] = "block"
    BY DEF DetBlock
  <2>2. size \in 10 .. 1000
    BY <1>1, <2>1 DEF Started
  <2> QED
    BY <2>2
<1>3. det.start \in Nat /\ det.end \in Nat /\ det.duration \in Int /\ audio.length \in Nat
  BY Fields DEF Types, IsAudio
<1>4. PICK s, curr, prev, tone, end :
        /\ s \in BlockSpectra(audio, det.end, det.end + Block)
        /\ curr = <<Strongest(s, Rows), Strongest(s, Cols)>>
        /\ prev = (IF det.prev = <<-1, -1>> THEN curr ELSE det.prev)
        /\ tone = TonePresent(s, curr[1], curr[2])
        /\ end = det.end + Block
        /\ IF ~tone \/ Different(prev, curr) THEN Report(end, prev) ELSE UNCHANGED out
        /\ det' = [start |-> NextStart(end, tone, Different(prev, curr)),
                    end |-> end, prev |-> curr, curr |-> curr,
                    duration |-> end - det.start, end_file |-> Left < Block]
        /\ heard' = Append(heard, [from |-> det.end, to |-> end, freqs |-> curr,
                                    tone |-> tone])
  BY DEF DetBlock
<1>5. s \in SpectrumType
  BY <1>4, BlockSpectraType DEF Types
<1>6. curr \in Rows \X Cols
  BY <1>4, <1>5, StrongestType
<1>7. tone \in BOOLEAN
  BY <1>4 DEF TonePresent
<1>8. PICK b : b = [from |-> det.end, to |-> end, freqs |-> curr, tone |-> tone]
  OBVIOUS
<1>9. b \in HeardBlocks /\ b.from = det.end /\ b.to = end /\ b.freqs = curr /\ b.tone = tone
  <2>1. end \in Nat
    BY <1>1, <1>2, <1>3, <1>4
  <2> QED
    BY <1>3, <1>6, <1>7, <1>8, <2>1 DEF HeardBlocks
<1>10. prev = Before(b)
  <2>1. CASE heard = <<>>
    BY <1>4, <1>9, <2>1 DEF Before, Position
  <2>2. CASE heard # <<>>
    <3>1. Len(heard) \in DOMAIN heard
      BY <2>2 DEF Types
    <3>2. heard[Len(heard)] \in HeardBlocks
      BY <3>1 DEF Types
    <3>3. heard[Len(heard)].freqs \in Rows \X Cols
      BY <3>2 DEF HeardBlocks
    <3>4. heard[Len(heard)].freqs # <<-1, -1>>
      BY <3>3 DEF Rows, Cols
    <3> QED
      BY <1>4, <2>2, <3>4 DEF Before, Position
  <2> QED
    BY <2>1, <2>2
<1>11. end = det.end + size /\ end > det.end /\ end - Block = det.end
  <2>1. end = det.end + size
    BY <1>1, <1>4
  <2>2. end > det.end /\ end - size = det.end
    BY <1>2, <1>3, <2>1
  <2> QED
    BY <1>1, <2>1, <2>2
<1>12. out' = IF Ends(b) /\ b.to - det.start >= MIN_DTMF_DURATION
              THEN Append(out, EventOf(b)) ELSE out
  <2>1. Ends(b) <=> ~tone \/ Different(prev, curr)
    BY <1>9, <1>10 DEF Ends
  <2>2. CASE Ends(b)
    <3>1. Report(end, prev)
      BY <1>4, <2>1, <2>2
    <3> QED
      BY <1>9, <1>10, <1>11, <2>2, <3>1 DEF Report, write_to_detect_output, EventOf
  <2>3. CASE ~Ends(b)
    BY <1>4, <2>1, <2>3
  <2> QED
    BY <2>2, <2>3
<1>13. NextStart(end, tone, Different(prev, curr))
         = IF ~b.tone THEN b.to ELSE IF Ends(b) THEN det.end ELSE det.start
  BY <1>9, <1>10, <1>11 DEF NextStart, Ends
<1>14. PICK st : st = NextStart(end, tone, Different(prev, curr))
  OBVIOUS
<1>15. PICK last : last = (Left < Block)
  OBVIOUS
<1>16. det' = [start |-> st, end |-> end, prev |-> curr, curr |-> curr,
               duration |-> end - det.start, end_file |-> last]
  BY <1>4, <1>14, <1>15
<1>17. st \in Nat /\ last \in BOOLEAN /\ end \in Nat /\ end - det.start \in Int /\ curr \in FreqPairs
  BY <1>2, <1>3, <1>6, <1>9, <1>11, <1>13, <1>14, <1>15 DEF FreqPairs
<1>18. ~last => end <= audio.length
  <2>1. last = (audio.length - det.end < size)
    BY <1>1, <1>15 DEF Left
  <2>2. ~(audio.length - det.end < size) => end <= audio.length
    BY <1>2, <1>3, <1>11
  <2> QED
    BY <2>1, <2>2
<1> QED
  <2>1. Hears(b)
    BY <1>4, <1>8 DEF Hears
  <2>2. Takes(b)
    BY <1>9, <1>11, <1>12, <1>13, <1>14, <1>16, <1>17, <1>18, <2>1 DEF Takes, DetLocals
  <2> QED
    BY <1>9, <2>2

(* The new block goes on the tone of the last one unless it ends it.       *)
LEMMA Link ==
    ASSUME heard \in Seq(HeardBlocks), NEW b \in HeardBlocks, Hears(b),
           NEW n, n = Len(heard), n >= 1
    PROVE  Chained(n)' <=> heard[n].tone /\ ~Ends(b)
<1>1. n \in Nat /\ n \in 1 .. n
  OBVIOUS
<1>2. heard'[n] = heard[n] /\ heard'[n + 1] = b
  BY <1>1, HeardGrows
<1>3. heard # <<>>
  OBVIOUS
<1> QED
  BY <1>2, <1>3 DEF Chained, Alike, Ends, Different, Before

(* The blocks heard follow each other without a gap.                       *)
LEMMA OrderKept ==
    ASSUME Types, InOrder, NEW b \in HeardBlocks, Takes(b)
    PROVE  InOrder'
<1>1. PICK n : n = Len(heard)
  OBVIOUS
<1>2. /\ n \in Nat /\ DOMAIN heard = 1 .. n /\ DOMAIN heard' = 1 .. n + 1
      /\ \A i \in 1 .. n : heard'[i] = heard[i]
      /\ heard'[n + 1] = b
  BY <1>1, HeardGrows DEF Types, Takes
<1>3. /\ b.from = det.end /\ b.to > det.end /\ det'.end = b.to
      /\ b.to \in Nat /\ det.end \in Nat
      /\ \A i \in 1 .. n : heard[i].from \in Nat /\ heard[i].to \in Nat
  BY <1>2, Fields DEF Takes, HeardBlocks
<1>4. /\ \A i \in 1 .. n : heard[i].from < heard[i].to /\ heard[i].to <= det.end
      /\ \A i, j \in 1 .. n : i < j => heard[i].to <= heard[j].from
  BY <1>2 DEF InOrder
<1>5. \A i \in 1 .. n + 1 : heard'[i].from < heard'[i].to /\ heard'[i].to <= det'.end
  <2> SUFFICES ASSUME NEW i, i \in 1 .. n + 1
               PROVE  heard'[i].from < heard'[i].to /\ heard'[i].to <= det'.end
    OBVIOUS
  <2>1. CASE i = n + 1
    BY <1>2, <1>3, <2>1
  <2>2. CASE i # n + 1
    <3>1. i \in 1 .. n
      BY <1>2, <2>2
    <3>2. heard'[i] = heard[i] /\ heard[i].from < heard[i].to /\ heard[i].to <= det.end
      BY <1>2, <1>4, <3>1
    <3> QED
      BY <1>3, <3>1, <3>2
  <2> QED
    BY <2>1, <2>2
<1>6. \A i, j \in 1 .. n + 1 : i < j => heard'[i].to <= heard'[j].from
  <2> SUFFICES ASSUME NEW i, NEW j, i \in 1 .. n + 1, j \in 1 .. n + 1, i < j
               PROVE  heard'[i].to <= heard'[j].from
    OBVIOUS
  <2>1. i \in 1 .. n
    BY <1>2
  <2>2. CASE j = n + 1
    BY <1>2, <1>3, <1>4, <2>1, <2>2
  <2>3. CASE j # n + 1
    <3>1. j \in 1 .. n
      BY <1>2, <2>3
    <3> QED
      BY <1>2, <1>4, <2>1, <3>1
  <2> QED
    BY <2>2, <2>3
<1> QED
  BY <1>2, <1>5, <1>6 DEF InOrder

(* A tone goes on, gives way to another one, or falls silent.              *)
LEMMA RunGoesOn ==
    ASSUME Types, InOrder, Position, NEW s \in 1 .. Len(heard) + 1, RunFrom(s),
           NEW b \in HeardBlocks, Takes(b)
    PROVE  \E t \in 1 .. Len(heard') + 1 : RunFrom(t)'
<1>1. PICK n : n = Len(heard)
  OBVIOUS
<1>2. /\ n \in Nat /\ DOMAIN heard = 1 .. n /\ DOMAIN heard' = 1 .. n + 1
      /\ Len(heard') = n + 1
      /\ \A i \in 1 .. n : heard'[i] = heard[i]
      /\ heard'[n + 1] = b
      /\ \A i \in 1 .. n - 1 : Chained(i)' <=> Chained(i)
  BY <1>1, HeardGrows DEF Types, Takes
<1>3. /\ b.from = det.end /\ b.to > det.end /\ det.start <= det.end
      /\ b.to \in Nat /\ det.end \in Nat /\ det.start \in Nat /\ s \in 1 .. n + 1
      /\ \A i \in 1 .. n : /\ heard[i].from \in Nat /\ heard[i].to \in Nat
                           /\ heard[i].to <= det.end
  BY <1>1, <1>2, Fields DEF Takes, HeardBlocks, Position, InOrder
<1>4. n >= 1 => (Chained(n)' <=> heard[n].tone /\ ~Ends(b))
  BY <1>1, Link DEF Types, Takes
<1>5. PICK st : st = det'.start
  OBVIOUS
<1>6. CASE ~Ends(b)
  <2>1. b.tone /\ st = det.start
    BY <1>5, <1>6 DEF Ends, Takes
  <2>2. ASSUME NEW i, i \in 1 .. n + 1
        PROVE  /\ i < s => heard'[i].to <= st
               /\ i >= s => /\ heard'[i].from >= st /\ heard'[i].tone
                            /\ i < n + 1 => Chained(i)'
    <3>1. CASE i = n + 1
      BY <1>2, <1>3, <2>1, <3>1
    <3>2. CASE i # n + 1
      <4>1. i \in 1 .. n
        BY <1>2, <2>2, <3>2
      <4>2. /\ i < s => heard[i].to <= det.start
            /\ i >= s => heard[i].from >= det.start /\ heard[i].tone
            /\ i >= s /\ i < n => Chained(i)
        BY <1>1, <1>2, <4>1 DEF RunFrom
      <4>3. CASE i = n
        BY <1>2, <1>4, <1>6, <2>1, <4>1, <4>2, <4>3
      <4>4. CASE i # n
        <5>1. i \in 1 .. n - 1
          BY <1>2, <4>1, <4>4
        <5> QED
          BY <1>2, <2>1, <4>1, <4>2, <5>1
      <4> QED
        BY <4>3, <4>4
    <3> QED
      BY <3>1, <3>2
  <2>3. s > 1 => (~Chained(s - 1))'
    <3> SUFFICES ASSUME s > 1, NEW k, k = s - 1 PROVE ~Chained(k)'
      OBVIOUS
    <3>1. CASE s = n + 1
      <4>1. ~heard[n].tone /\ k = n /\ n >= 1
        BY <1>1, <1>2, <3>1 DEF RunFrom
      <4> QED
        BY <1>4, <4>1
    <3>2. CASE s # n + 1
      <4>1. ~Chained(k) /\ k \in 1 .. n - 1
        BY <1>1, <1>2, <1>3, <3>2 DEF RunFrom
      <4> QED
        BY <1>2, <4>1
    <3> QED
      BY <3>1, <3>2
  <2>4. RunFrom(s)'
    BY <1>2, <1>3, <1>5, <2>2, <2>3 DEF RunFrom
  <2> QED
    BY <1>2, <1>3, <2>4
<1>7. CASE Ends(b) /\ b.tone
  <2>1. st = det.end
    BY <1>5, <1>7 DEF Takes
  <2>2. PICK t : t = n + 1
    OBVIOUS
  <2>3. ASSUME NEW i, i \in 1 .. n + 1
        PROVE  /\ i < t => heard'[i].to <= st
               /\ i >= t => heard'[i].from >= st /\ heard'[i].tone /\ ~(i < n + 1)
    <3>1. CASE i = n + 1
      BY <1>2, <1>3, <1>7, <2>1, <2>2, <3>1
    <3>2. CASE i # n + 1
      <4>1. i \in 1 .. n /\ ~(i >= t)
        BY <1>2, <2>2, <2>3, <3>2
      <4> QED
        BY <1>2, <1>3, <2>1, <4>1
    <3> QED
      BY <3>1, <3>2
  <2>4. t > 1 => (~Chained(t - 1))'
    <3>1. t - 1 = n /\ (t > 1 => n >= 1)
      BY <1>2, <2>2
    <3> QED
      BY <1>4, <1>7, <3>1
  <2>5. RunFrom(t)'
    BY <1>2, <1>5, <2>2, <2>3, <2>4 DEF RunFrom
  <2> QED
    BY <1>2, <2>2, <2>5
<1>8. CASE ~b.tone
  <2>1. st = b.to
    BY <1>5, <1>8 DEF Takes
  <2>2. PICK t : t = n + 2
    OBVIOUS
  <2>3. ASSUME NEW i, i \in 1 .. n + 1 PROVE i < t /\ heard'[i].to <= st
    <3>1. CASE i = n + 1
      BY <1>2, <1>3, <2>1, <2>2, <3>1
    <3>2. CASE i # n + 1
      <4>1. i \in 1 .. n /\ i < t
        BY <1>2, <2>2, <2>3, <3>2
      <4> QED
        BY <1>2, <1>3, <2>1, <4>1
    <3> QED
      BY <3>1, <3>2
  <2>4. ~heard'[t - 1].tone /\ ~(t <= n + 1)
    BY <1>2, <1>8, <2>2
  <2>5. RunFrom(t)'
    BY <1>2, <1>5, <2>2, <2>3, <2>4 DEF RunFrom
  <2> QED
    BY <1>2, <2>2, <2>5
<1> QED
  BY <1>6, <1>7, <1>8

(* What a turn of the loop may report is an event.                         *)
LEMMA EventOfType ==
    ASSUME Types, NEW b \in HeardBlocks
    PROVE  EventOf(b) \in Events
<1>1. Before(b) \in FreqPairs
  <2>1. b.freqs \in FreqPairs
    BY DEF HeardBlocks, FreqPairs
  <2>2. ASSUME heard # <<>> PROVE heard[Len(heard)].freqs \in FreqPairs
    <3>1. heard[Len(heard)] \in HeardBlocks
      BY <2>2 DEF Types
    <3> QED
      BY <3>1 DEF HeardBlocks, FreqPairs
  <2> QED
    BY <2>1, <2>2 DEF Before
<1>2. PICK sym : sym = findSymbolFromFrequencies(Before(b)[1], Before(b)[2])
  OBVIOUS
<1>3. sym \in {findSymbolFromFrequencies(f[1], f[2]) : f \in FreqPairs}
  BY <1>1, <1>2
<1> QED
  BY <1>2, <1>3, Fields DEF EventOf, Events

(* What was reported stays right, and so is what the block reports.        *)
LEMMA BlockReports ==
    ASSUME Types, InOrder, Position, EventsAreTones, EventsWhole,
           NEW s \in 1 .. Len(heard) + 1, RunFrom(s), NEW b \in HeardBlocks, Takes(b)
    PROVE  EventsAreTones' /\ EventsWhole'
<1>1. PICK n : n = Len(heard)
  OBVIOUS
<1>2. n \in Nat /\ DOMAIN heard = 1 .. n /\ s \in 1 .. n + 1 /\ det.start \in Nat /\ det.end \in Nat
  BY <1>1, Fields
<1>3. n >= 1 => (Chained(n)' <=> heard[n].tone /\ ~Ends(b))
  BY <1>1, Link DEF Types, Takes
<1>4. Hears(b) /\ b.to > det.end /\ det.start <= det.end
  BY DEF Takes, Position
<1>5. EventsKept
  <2> SUFFICES ASSUME NEW k \in DOMAIN out, NEW x, x = out[k] PROVE AllTones(x)' /\ Whole(x)'
    BY DEF EventsKept, Range
  <2>1. x \in Events /\ x.to \in Nat /\ x.to <= det.start /\ AllTones(x) /\ Whole(x)
    BY Fields, ByEvent DEF Position
  <2>2. x.to <= det.end
    BY <1>2, <1>4, <2>1
  <2>3. n \in BlocksOf(x) => ~Chained(n)'
    <3> SUFFICES ASSUME n \in BlocksOf(x) PROVE ~Chained(n)'
      OBVIOUS
    <3>1. n \in DOMAIN heard /\ heard[n].to <= x.to
      BY DEF BlocksOf
    <3>2. /\ heard[n].from < heard[n].to /\ heard[n].from \in Nat /\ heard[n].to \in Nat
          /\ n >= 1
      BY <1>2, <3>1, Fields DEF InOrder
    <3>3. ~(heard[n].from >= det.start)
      BY <1>2, <2>1, <3>1, <3>2
    <3>4. ~(n >= s)
      BY <3>1, <3>3 DEF RunFrom
    <3>5. s = n + 1 /\ s > 1 /\ s - 1 = n
      BY <1>2, <3>2, <3>4
    <3>6. ~heard[n].tone
      BY <1>1, <3>5 DEF RunFrom
    <3> QED
      BY <1>3, <3>2, <3>6
  <2> QED
    BY <1>1, <1>4, <2>1, <2>2, <2>3, EventKept
<1>6. PICK e : e = EventOf(b)
  OBVIOUS
<1>7. e \in Events
  BY <1>6, EventOfType
<1>8. e.from = det.start /\ e.to = det.end
  BY <1>6 DEF EventOf
<1>9. ASSUME Ends(b) PROVE IsCurrent(e)
  <2>1. heard # <<>> => e.symbol = findSymbolFromFrequencies(heard[Len(heard)].freqs[1],
                                                            heard[Len(heard)].freqs[2])
    BY <1>6 DEF EventOf, Before
  <2>2. AllTones(e) /\ Whole(e)
    BY <1>2, <1>7, <1>8, <2>1, CurrentEvent
  <2>3. n \in BlocksOf(e) => n >= 1
    BY <1>2 DEF BlocksOf
  <2>4. n \in BlocksOf(e) => ~Chained(n)'
    BY <1>3, <1>9, <2>3
  <2>5. e.to <= det.end
    BY <1>2, <1>8
  <2>6. AllTones(e)' /\ Whole(e)'
    BY <1>1, <1>4, <1>7, <2>2, <2>4, <2>5, EventKept
  <2> QED
    BY <1>4, <1>8, <2>6 DEF IsCurrent
<1>10. ReportsAtMost(e)
  BY <1>6, <1>9 DEF ReportsAtMost, Takes
<1> QED
  BY <1>5, <1>7, <1>10, EventsAfter DEF Position

(* Events only gain blocks that are heard.                                 *)
LEMMA BlocksOfKept ==
    ASSUME Types, NEW b \in HeardBlocks, Hears(b), NEW e
    PROVE  BlocksOf(e) \subseteq BlocksOf(e)'
<1>1. heard \in Seq(HeardBlocks)
  BY DEF Types
<1>2. \A i \in DOMAIN heard : i \in DOMAIN heard' /\ heard'[i] = heard[i]
  BY <1>1, HeardGrows
<1> QED
  BY <1>2 DEF BlocksOf

(* A run of blocks that was reported stays reported.                       *)
LEMMA CoveredKept ==
    ASSUME Types, NEW b \in HeardBlocks, Hears(b), NEW e \in Events,
           out' = out \/ out' = Append(out, e), NEW i, NEW j, Covered(i, j)
    PROVE  Covered(i, j)'
<1>1. PICK k \in DOMAIN out : {i, j} \subseteq BlocksOf(out[k])
  BY DEF Covered
<1>2. PICK x : x = out[k]
  OBVIOUS
<1>3. k \in DOMAIN out' /\ out'[k] = x
  <2>1. out \in Seq(Events)
    BY DEF Types
  <2>2. CASE out' = out
    BY <1>2, <2>2
  <2>3. CASE out' = Append(out, e)
    BY <1>2, <2>1, <2>3
  <2> QED
    BY <2>2, <2>3
<1>4. {i, j} \subseteq BlocksOf(x)'
  BY <1>1, <1>2, BlocksOfKept
<1> QED
  BY <1>3, <1>4 DEF Covered, BlocksOf

(* A long tone that is over with this block was reported before or is now. *)
LEMMA PastStaysReported ==
    ASSUME Types, InOrder, Position, PastReported,
           NEW s \in 1 .. Len(heard) + 1, RunFrom(s), NEW b \in HeardBlocks, Takes(b)
    PROVE  PastReported'
<1>1. PICK n : n = Len(heard)
  OBVIOUS
<1>2. /\ n \in Nat /\ DOMAIN heard = 1 .. n /\ DOMAIN heard' = 1 .. n + 1
      /\ \A i \in 1 .. n : heard'[i] = heard[i]
      /\ heard'[n + 1] = b
      /\ \A i \in 1 .. n - 1 : Chained(i)' <=> Chained(i)
      /\ s \in 1 .. n + 1
  BY <1>1, HeardGrows DEF Types, Takes
<1>3. /\ b.from = det.end /\ b.to > det.end /\ det.start <= det.end /\ Hears(b)
      /\ b.to \in Nat /\ det.end \in Nat /\ det.start \in Nat
      /\ \A i \in 1 .. n : /\ heard[i].from \in Nat /\ heard[i].to \in Nat
                           /\ heard[i].to <= det.end
  BY <1>1, <1>2, Fields DEF Takes, HeardBlocks, Position, InOrder
<1>4. n >= 1 => (Chained(n)' <=> heard[n].tone /\ ~Ends(b))
  BY <1>1, Link DEF Types, Takes
<1>5. PICK e : e = EventOf(b)
  OBVIOUS
<1>6. e \in Events /\ e.from = det.start /\ e.to = det.end
  BY <1>5, EventOfType DEF EventOf
<1>7. out' = out \/ out' = Append(out, e)
  BY <1>5 DEF Takes
<1> SUFFICES ASSUME NEW i, NEW j, i \in 1 .. n + 1, j \in 1 .. n + 1, Long(i, j)',
                    heard'[j].to <= det'.start
             PROVE  Covered(i, j)'
  BY <1>2 DEF PastReported
<1>8. i <= j /\ heard'[i].tone /\ heard'[j].to - heard'[i].from >= MIN_DTMF_DURATION
  BY DEF Long
<1>9. ASSUME NEW k, k \in i .. j - 1 PROVE Chained(k)'
  BY <1>9 DEF Long
<1>10. j # n + 1
  <2> SUFFICES ASSUME j = n + 1 PROVE FALSE
    OBVIOUS
  <2>1. ~b.tone
    BY <1>2, <1>3 DEF Takes, Ends
  <2>2. CASE i = n + 1
    BY <1>2, <1>8, <2>1, <2>2
  <2>3. CASE i # n + 1
    <3>1. n \in i .. j - 1 /\ n >= 1
      BY <1>2, <2>3
    <3>2. Chained(n)'
      BY <1>9, <3>1
    <3> QED
      BY <1>4, <2>1, <3>1, <3>2 DEF Ends
  <2> QED
    BY <2>2, <2>3
<1>11. i \in 1 .. n /\ j \in 1 .. n
  BY <1>2, <1>8, <1>10
<1>12. heard'[i] = heard[i] /\ heard'[j] = heard[j]
  BY <1>2, <1>11
<1>13. Long(i, j)
  <2>1. ASSUME NEW k, k \in i .. j - 1 PROVE Chained(k)
    <3>1. k \in 1 .. n - 1
      BY <1>2, <1>11, <2>1
    <3>2. Chained(k)'
      BY <1>9, <2>1
    <3> QED
      BY <1>2, <3>1, <3>2
  <2> QED
    BY <1>8, <1>12, <2>1 DEF Long
<1>14. CASE heard[j].to <= det.start
  <2>1. Covered(i, j)
    BY <1>2, <1>11, <1>13, <1>14 DEF PastReported
  <2> QED
    BY <1>3, <1>6, <1>7, <2>1, CoveredKept
<1>15. CASE ~(heard[j].to <= det.start)
  <2>1. i >= s /\ j >= s
    BY <1>2, <1>11, <1>13, <1>15, RunOrPast
  <2>2. Ends(b)
    BY <1>12, <1>15 DEF Takes, Ends
  <2>3. heard[i].from >= det.start
    BY <1>2, <1>11, <2>1 DEF RunFrom
  <2>4. MIN_DTMF_DURATION \in Nat
    BY DEF MIN_DTMF_DURATION
  <2>5. b.to - det.start >= MIN_DTMF_DURATION
    BY SMTT(30), <1>3, <1>8, <1>11, <1>12, <2>3, <2>4
  <2>6. out' = Append(out, e)
    BY <1>5, <2>2, <2>5 DEF Takes
  <2>7. heard # <<>> => e.symbol = findSymbolFromFrequencies(heard[Len(heard)].freqs[1],
                                                            heard[Len(heard)].freqs[2])
    BY <1>5 DEF EventOf, Before
  <2>8. i \in BlocksOf(e) /\ j \in BlocksOf(e)
    <3>1. e.to >= det.end
      BY <1>3, <1>6
    <3>2. \A l \in DOMAIN heard : l \in BlocksOf(e) <=> l >= s
      BY <1>6, <2>7, <3>1, CurrentEvent
    <3> QED
      BY <1>2, <1>11, <2>1, <3>2
  <2>9. i \in BlocksOf(e)' /\ j \in BlocksOf(e)'
    BY <1>3, <2>8, BlocksOfKept
  <2>10. PICK m : m = Len(out) + 1
    OBVIOUS
  <2>11. m \in DOMAIN out' /\ out'[m] = e
    BY <2>6, <2>10 DEF Types
  <2> QED
    BY <2>9, <2>11 DEF Covered, BlocksOf
<1> QED
  BY <1>14, <1>15

(* The turn of the loop keeps the invariant.                               *)
LEMMA BlockKeeps ==
    ASSUME IInv, DetBlock
    PROVE  IInv'
<1>1. Types /\ Started /\ EventsAreTones /\ EventsWhole /\ pc["det"] = "block" /\ Between
  BY DEF IInv, DetBlock
<1>2. InOrder /\ Position /\ PastReported
  BY <1>1 DEF Between
<1>3. PICK s \in 1 .. Len(heard) + 1 : RunFrom(s)
  BY <1>1 DEF Between
<1>4. PICK b \in HeardBlocks : Takes(b)
  BY <1>1, <1>2, BlockTaken
<1>5. UNCHANGED <<argv, glob, pc, text, audio>>
  BY DEF DetBlock
<1>6. PICK e \in Events : e = EventOf(b)
  BY <1>1, EventOfType
<1>7. out' = out \/ out' = Append(out, e)
  BY <1>4, <1>6 DEF Takes
<1>8. /\ heard' \in Seq(HeardBlocks) /\ heard' # <<>> /\ heard'[Len(heard')] = b
  BY <1>1, <1>4, HeardGrows DEF Types, Takes
<1>9. Types'
  <2>1. out' \in Seq(Events)
    <3>1. out \in Seq(Events)
      BY <1>1 DEF Types
    <3> QED
      BY <1>7, <3>1
  <2>2. det' \in DetLocals
    BY <1>4 DEF Takes
  <2> QED
    BY <1>1, <1>5, <1>8, <2>1, <2>2 DEF Types, IsAudio
<1>10. Started'
  BY <1>1, <1>5 DEF Started, Block
<1>11. Position'
  <2>1. /\ det.start \in Nat /\ det.end \in Nat /\ b.to \in Nat
        /\ det.start <= det.end /\ b.to > det.end
        /\ \A k \in DOMAIN out : out[k].to <= det.start /\ out[k].to \in Nat
    BY <1>1, <1>2, <1>4, Fields DEF Takes, HeardBlocks, Position
  <2>2. PICK st : st = det'.start
    OBVIOUS
  <2>3. /\ st = IF ~b.tone THEN b.to ELSE IF Ends(b) THEN det.end ELSE det.start
        /\ det'.end = b.to /\ det'.duration = b.to - det.start
        /\ det'.prev = b.freqs /\ det'.curr = b.freqs
        /\ ~det'.end_file => det'.end <= audio.length
        /\ ~Ends(b) => out' = out
    BY <1>4, <2>2 DEF Takes
  <2>4. st \in Nat /\ st <= b.to /\ det.start <= st /\ b.to - det.start >= b.to - st
    BY <2>1, <2>3
  <2>5. Ends(b) => det.end <= st
    BY <2>1, <2>3 DEF Ends
  <2>6. \A k \in DOMAIN out' : out'[k].to <= st
    <3>1. CASE out' = out
      BY <2>1, <2>4, <3>1
    <3>2. CASE out' = Append(out, e) /\ Ends(b)
      <4> SUFFICES ASSUME NEW k, k \in DOMAIN out' PROVE out'[k].to <= st
        OBVIOUS
      <4>1. e.to = det.end
        BY <1>6 DEF EventOf
      <4>2. out'[k] = e \/ (k \in DOMAIN out /\ out'[k] = out[k])
        <5>1. out \in Seq(Events) /\ Len(out) \in Nat
          BY <1>1 DEF Types
        <5>2. k \in 1 .. Len(out) + 1
          BY <3>2, <5>1
        <5>3. CASE k = Len(out) + 1
          BY <3>2, <5>1, <5>3
        <5>4. CASE k # Len(out) + 1
          BY <3>2, <5>1, <5>2, <5>4
        <5> QED
          BY <5>3, <5>4
      <4> QED
        BY <2>1, <2>4, <2>5, <3>2, <4>1, <4>2
    <3> QED
      BY <1>7, <2>3, <3>1, <3>2
  <2> QED
    BY <1>5, <1>8, <2>2, <2>3, <2>4, <2>6 DEF Position
<1>12. Between'
  BY <1>1, <1>2, <1>3, <1>4, <1>11, OrderKept, PastStaysReported, RunGoesOn DEF Between
<1>13. EventsAreTones' /\ EventsWhole'
  BY <1>1, <1>2, <1>3, <1>4, BlockReports
<1>14. ChainsReported'
  BY <1>1, <1>5 DEF ChainsReported
<1> QED
  BY <1>9, <1>10, <1>12, <1>13, <1>14 DEF IInv

-----------------------------------------------------------------------------
(* The end of the audio.                                                   *)
LEMMA EndKeeps ==
    ASSUME IInv, DetEnd
    PROVE  IInv'
<1>1. Types /\ Started /\ EventsAreTones /\ EventsWhole /\ pc["det"] = "block" /\ Between
  BY DEF IInv, DetEnd
<1>2. InOrder /\ Position /\ PastReported
  BY <1>1 DEF Between
<1>3. PICK s \in 1 .. Len(heard) + 1 : RunFrom(s)
  BY <1>1 DEF Between
<1>4. UNCHANGED <<argv, glob, text, audio, heard>> /\ pc' = [pc EXCEPT !["det"] = "exit"]
  BY DEF DetEnd, Goto
<1>5. PICK end : /\ end = IF det.end_file THEN det.end ELSE audio.length
                 /\ det' = [det EXCEPT !.end = end]
                 /\ IF det.duration >= MIN_DTMF_DURATION
                    THEN write_to_detect_output(det.start, end, det.curr)
                    ELSE UNCHANGED out
  BY DEF DetEnd
<1>6. /\ det.start \in Nat /\ det.end \in Nat /\ det.start <= det.end
      /\ audio.length \in Nat /\ det.duration \in Int
      /\ ~det.end_file => det.end <= audio.length
      /\ \A k \in DOMAIN out : out[k].to <= det.start
  BY <1>1, <1>2, Fields DEF Position, Types, IsAudio
<1>7. end \in Nat /\ end >= det.end /\ end >= det.start
  BY <1>5, <1>6
<1>8. PICK e : e = [from |-> det.start, to |-> end,
                    symbol |-> findSymbolFromFrequencies(det.curr[1], det.curr[2])]
  OBVIOUS
<1>9. e \in Events /\ e.from = det.start /\ e.to = end
  <2>1. det.curr \in FreqPairs
    BY <1>1 DEF Types, DetLocals
  <2>2. PICK sym : sym = findSymbolFromFrequencies(det.curr[1], det.curr[2])
    OBVIOUS
  <2>3. sym \in {findSymbolFromFrequencies(f[1], f[2]) : f \in FreqPairs}
    BY <2>1, <2>2
  <2> QED
    BY <1>6, <1>7, <1>8, <2>2, <2>3 DEF Events
<1>10. out' = IF det.duration >= MIN_DTMF_DURATION THEN Append(out, e) ELSE out
  BY <1>5, <1>8 DEF write_to_detect_output
<1>11. Types'
  <2>1. out' \in Seq(Events)
    BY <1>1, <1>9, <1>10 DEF Types
  <2>2. det' \in DetLocals
    BY <1>1, <1>5, <1>7 DEF Types, DetLocals
  <2>3. pc' \in [{"gen", "det"} -> Labels]
    <3>1. pc \in [{"gen", "det"} -> Labels]
      BY <1>1 DEF Types
    <3> QED
      BY <1>4, <3>1 DEF Labels
  <2> QED
    BY <1>1, <1>4, <2>1, <2>2, <2>3 DEF Types, IsAudio
<1>12. pc'["det"] = "exit"
  BY <1>1, <1>4 DEF Types
<1>13. Started' /\ (pc["det"] = "block" => Between)'
  BY <1>12 DEF Started
<1>14. /\ AllTones(e) /\ Whole(e)
       /\ \A i \in DOMAIN heard : i \in BlocksOf(e) <=> i >= s
  <2>1. heard # <<>> => e.symbol = findSymbolFromFrequencies(heard[Len(heard)].freqs[1],
                                                            heard[Len(heard)].freqs[2])
    BY <1>2, <1>8 DEF Position
  <2> QED
    BY <1>1, <1>2, <1>3, <1>7, <1>9, <2>1, CurrentEvent
<1>15. EventsAreTones' /\ EventsWhole'
  <2>1. ASSUME NEW x, AllTones(x), Whole(x) PROVE AllTones(x)' /\ Whole(x)'
    BY <1>4, <2>1 DEF AllTones, Whole, BlocksOf, Chained, Alike
  <2>2. EventsKept
    BY <1>1, <2>1, ByEvent DEF EventsKept, Range
  <2>3. IsCurrent(e)
    BY <1>7, <1>9, <1>14, <2>1 DEF IsCurrent
  <2>4. ReportsAtMost(e)
    BY <1>10, <2>3 DEF ReportsAtMost
  <2> QED
    BY <1>1, <1>6, <1>9, <2>2, <2>4, EventsAfter
<1>16. ChainsReported'
  <2>o. /\ \A i \in DOMAIN heard : heard[i].from < heard[i].to
        /\ \A i, j \in DOMAIN heard : i < j => heard[i].to <= heard[j].from
    BY <1>2 DEF InOrder
  <2> SUFFICES ASSUME NEW i \in DOMAIN heard, NEW j \in DOMAIN heard, Long(i, j)
               PROVE  \E x \in Range(out') : {i, j} \subseteq BlocksOf(x)
    BY <1>4, <2>o DEF ChainsReported, Long, Chained, Alike, BlocksOf
  <2>1. CASE heard[j].to <= det.start
    <3>1. PICK k \in DOMAIN out : {i, j} \subseteq BlocksOf(out[k])
      BY <1>2, <2>1 DEF PastReported, Covered
    <3>2. k \in DOMAIN out' /\ out'[k] = out[k]
      BY <1>1, <1>10 DEF Types
    <3> QED
      BY <3>1, <3>2 DEF Range
  <2>2. CASE ~(heard[j].to <= det.start)
    <3>1. i >= s /\ j >= s
      BY <1>1, <1>2, <1>3, <2>2, RunOrPast
    <3>2. heard # <<>>
      OBVIOUS
    <3>3. det.duration >= det.end - det.start
      BY <1>2, <3>2 DEF Position
    <3>4. /\ heard[i].from >= det.start /\ heard[j].to <= det.end
          /\ heard[i].from \in Nat /\ heard[j].to \in Nat
      BY <1>1, <1>2, <1>3, <3>1, Fields DEF RunFrom, InOrder
    <3>5. heard[j].to - heard[i].from >= MIN_DTMF_DURATION /\ MIN_DTMF_DURATION \in Nat
      BY DEF Long, MIN_DTMF_DURATION
    <3>6. det.duration >= MIN_DTMF_DURATION
      BY <1>6, <3>3, <3>4, <3>5
    <3>7. PICK m : m = Len(out) + 1
      OBVIOUS
    <3>8. m \in DOMAIN out' /\ out'[m] = e
      BY <1>1, <1>10, <3>6, <3>7 DEF Types
    <3> QED
      BY <1>14, <3>1, <3>8 DEF Range
  <2> QED
    BY <2>1, <2>2
<1> QED
  BY <1>11, <1>13, <1>15, <1>16 DEF IInv

-----------------------------------------------------------------------------
(* The steps that leave the detector's findings alone.                     *)

Listens == UNCHANGED <<det, out, heard>>

(* While the detector hears and reports nothing, its findings stand.       *)
LEMMA SameFindings ==
    ASSUME Listens
    PROVE  /\ EventsAreTones' <=> EventsAreTones
           /\ EventsWhole' <=> EventsWhole
           /\ InOrder' <=> InOrder
           /\ PastReported' <=> PastReported
           /\ \A s : RunFrom(s)' <=> RunFrom(s)
BY DEF Listens, EventsAreTones, EventsWhole, InOrder, PastReported, RunFrom, Long, Covered,
       BlocksOf, Chained, Alike

(* Steps of the generator, which only lets the audio grow.                 *)
LEMMA OthersKeep ==
    ASSUME IInv, Types', Listens, pc'["det"] = pc["det"], Block' = Block,
           audio.length <= audio'.length
    PROVE  IInv'
<1>1. Types /\ Started /\ EventsAreTones /\ EventsWhole /\ ChainsReported
  BY DEF IInv
<1>2. Started'
  BY <1>1 DEF Started, Listens
<1>3. pc'["det"] = "block" => Between'
  <2> SUFFICES ASSUME pc["det"] = "block" PROVE Between'
    OBVIOUS
  <2>1. Between
    BY DEF IInv
  <2>2. audio.length \in Nat /\ audio'.length \in Nat /\ det.end \in Nat
    BY <1>1, Fields DEF Types, IsAudio
  <2>3. Position'
    BY <2>1, <2>2 DEF Between, Position, Listens
  <2>4. PICK s \in 1 .. Len(heard) + 1 : RunFrom(s)
    BY <2>1 DEF Between
  <2>5. s \in 1 .. Len(heard') + 1 /\ RunFrom(s)'
    BY <2>4, SameFindings DEF Listens
  <2> QED
    BY <2>1, <2>3, <2>5, SameFindings DEF Between
<1>4. ChainsReported'
  BY <1>1 DEF ChainsReported, Long, Listens, BlocksOf, Chained, Alike
<1> QED
  BY <1>1, <1>2, <1>3, <1>4, SameFindings DEF IInv

(* Parts of the audio file.                                                *)
LEMMA HeaderSet ==
    ASSUME NEW f, IsAudio(f), NEW h
    PROVE  IsAudio([f EXCEPT !.header = h]) /\ [f EXCEPT !.header = h].length = f.length
<1>1. PICK h0, g, m, x : f = [header |-> h0, segs |-> g, length |-> m, closed |-> x]
  BY DEF IsAudio
<1>2. [f EXCEPT !.header = h] = [header |-> h, segs |-> g, length |-> m, closed |-> x]
  BY <1>1
<1> QED
  BY <1>1, <1>2 DEF IsAudio

LEMMA ClosedSet ==
    ASSUME NEW f, IsAudio(f), NEW c
    PROVE  IsAudio([f EXCEPT !.closed = c]) /\ [f EXCEPT !.closed = c].length = f.length
<1>1. PICK h, g, m, x : f = [header |-> h, segs |-> g, length |-> m, closed |-> x]
  BY DEF IsAudio
<1>2. [f EXCEPT !.closed = c] = [header |-> h, segs |-> g, length |-> m, closed |-> c]
  BY <1>1
<1> QED
  BY <1>1, <1>2 DEF IsAudio

(* One process moves, the other does not.                                  *)
LEMMA PcSet ==
    ASSUME pc \in [{"gen", "det"} -> Labels], NEW p \in {"gen", "det"}, NEW l \in Labels, Goto(p, l)
    PROVE  /\ pc' \in [{"gen", "det"} -> Labels] /\ pc'[p] = l
           /\ \A q \in {"gen", "det"} \ {p} : pc'[q] = pc[q]
BY DEF Goto

(* What a step must do with the rest to keep the types.                    *)
LEMMA TypesKept ==
    ASSUME Types, Listens, UNCHANGED <<argv, text>>, IsAudio(audio'),
           pc' \in [{"gen", "det"} -> Labels],
           glob' = [gen |-> glob'.gen, det |-> glob'.det]
    PROVE  Types'
BY DEF Types, Listens

(* main and validargs, of either process.                                  *)
LEMMA MainKeeps ==
    ASSUME IInv, NEW p \in {"gen", "det"}, Main(p)
    PROVE  IInv'
<1>1. Types /\ Started /\ EventsAreTones /\ EventsWhole
  BY DEF IInv
<1>2. PICK o : /\ o = validargs(argv[p])
               /\ glob' = [glob EXCEPT ![p] = o]
               /\ CASE o.ok /\ argv[p].mode = "-g" ->
                        /\ Goto(p, "generate")
                        /\ audio' = [audio EXCEPT !.header = audio_write_header(GenHeader)]
                    [] o.ok /\ argv[p].mode = "-d" ->
                        /\ Goto(p, "header")
                        /\ UNCHANGED audio
                    [] OTHER ->
                        /\ Goto(p, "exit")
                        /\ audio' = [audio EXCEPT !.closed = @ \/ p = "gen"]
  BY DEF Main
<1>3. Listens /\ UNCHANGED <<argv, text>> /\ pc[p] = "main"
  BY DEF Main, Listens
<1>4. \/ Goto(p, "generate") /\ audio' = [audio EXCEPT !.header = audio_write_header(GenHeader)]
      \/ Goto(p, "header") /\ audio' = audio /\ o.ok /\ argv[p].mode = "-d"
      \/ Goto(p, "exit") /\ audio' = [audio EXCEPT !.closed = audio.closed \/ p = "gen"]
  <2>1. CASE o.ok /\ argv[p].mode = "-g"
    BY <1>2, <2>1
  <2>2. CASE o.ok /\ argv[p].mode = "-d"
    BY <1>2, <2>2
  <2>3. CASE ~(o.ok /\ argv[p].mode = "-g") /\ ~(o.ok /\ argv[p].mode = "-d")
    BY <1>2, <2>3
  <2> QED
    BY <2>1, <2>2, <2>3
<1>5. IsAudio(audio') /\ audio'.length = audio.length /\ audio.length \in Nat
  BY <1>1, <1>4, HeaderSet, ClosedSet DEF Types, IsAudio
<1>6. PICK l \in Labels : Goto(p, l) /\ l \in {"generate", "header", "exit"}
                          /\ (l = "header" => o.ok /\ argv[p].mode = "-d")
  BY <1>4 DEF Labels
<1>7. /\ pc' \in [{"gen", "det"} -> Labels] /\ pc'[p] = l
      /\ \A q \in {"gen", "det"} \ {p} : pc'[q] = pc[q]
  BY <1>1, <1>6, PcSet DEF Types
<1>8. glob' = [gen |-> glob'.gen, det |-> glob'.det]
      /\ glob'[p] = o /\ \A q \in {"gen", "det"} \ {p} : glob'[q] = glob[q]
  <2>1. PICK g, d : glob = [gen |-> g, det |-> d]
    BY <1>1 DEF Types
  <2>2. CASE p = "gen"
    <3>1. glob' = [gen |-> o, det |-> d]
      BY <1>2, <2>1, <2>2
    <3> QED
      BY <2>1, <2>2, <3>1
  <2>3. CASE p = "det"
    <3>1. glob' = [gen |-> g, det |-> o]
      BY <1>2, <2>1, <2>3
    <3> QED
      BY <2>1, <2>3, <3>1
  <2> QED
    BY <2>2, <2>3
<1>9. Types'
  BY <1>1, <1>3, <1>5, <1>7, <1>8, TypesKept
<1>10. CASE p = "gen"
  <2>1. pc'["det"] = pc["det"] /\ Block' = Block
    BY <1>7, <1>8, <1>10 DEF Block
  <2>2. audio.length <= audio'.length
    BY <1>5
  <2> QED
    BY <1>3, <1>9, <2>1, <2>2, OthersKeep
<1>11. CASE p = "det"
  <2>1. pc'["det"] = l /\ glob'["det"] = o /\ pc["det"] = "main"
    BY <1>3, <1>7, <1>8, <1>11
  <2>2. /\ heard = <<>> /\ out = <<>>
        /\ det.start = 0 /\ det.end = 0 /\ det.prev = <<-1, -1>> /\ ~det.end_file
    BY <1>1, <2>1 DEF Started
  <2>3. l = "header" => glob'["det"].block_size \in 10 .. 1000
    <3>1. PICK line : line = argv[p]
      OBVIOUS
    <3>2. l = "header" => o = validargs(line) /\ o.ok /\ line.mode = "-d"
      BY <1>2, <1>6, <3>1
    <3>3. ASSUME l = "header" PROVE validargs(line).block_size \in 10 .. 1000
      BY ONLY <3>2, <3>3, OptionsInRange
    <3> QED
      BY <2>1, <3>2, <3>3
  <2>4. Started'
    BY <1>3, <1>6, <2>1, <2>2, <2>3 DEF Started, Block, Listens
  <2>5. ChainsReported'
    BY <1>3, <2>2 DEF ChainsReported, Listens
  <2>6. pc'["det"] # "block"
    BY <1>6, <2>1
  <2> QED
    BY <1>1, <1>3, <1>9, <2>4, <2>5, <2>6, SameFindings DEF IInv
<1> QED
  BY <1>10, <1>11

(* A recording that is played.                                             *)
LEMMA PlayKeeps ==
    ASSUME IInv, Play
    PROVE  IInv'
<1>1. Types
  BY DEF IInv
<1>2. PICK r \in argv.recordings :
        audio' = [Write(audio, r.length, "recorded", 0) EXCEPT !.header = r.header, !.closed = TRUE]
  BY DEF Play
<1>3. Listens /\ UNCHANGED <<argv, text, glob>> /\ Goto("gen", "absent")
  BY DEF Play, Listens
<1>4. PICK n : n = r.length
  OBVIOUS
<1>5. n \in Nat /\ 0 \in Nat /\ IsAudio(audio)
  BY <1>1, <1>4 DEF Types
<1>6. PICK f : f = Write(audio, n, "recorded", 0)
  OBVIOUS
<1>7. PICK tone \in {"silence", "recorded"} \cup Symbols : tone = "recorded"
  OBVIOUS
<1>8. PICK z \in Nat : z = 0
  OBVIOUS
<1>9. Grown(audio, f)
  <2>1. f = Write(audio, n, tone, z)
    BY <1>6, <1>7, <1>8
  <2> QED
    BY <1>5, <2>1, WriteGrows
<1>10. PICK g : g = [f EXCEPT !.header = r.header]
  OBVIOUS
<1>11. IsAudio(g) /\ g.length = f.length
  BY <1>9, <1>10, HeaderSet DEF Grown
<1>12. audio' = [g EXCEPT !.closed = TRUE]
  BY <1>2, <1>4, <1>6, <1>10
<1>13. IsAudio(audio') /\ audio.length <= audio'.length
  BY <1>9, <1>11, <1>12, ClosedSet DEF Grown
<1>14. pc' \in [{"gen", "det"} -> Labels] /\ pc'["det"] = pc["det"]
  <2>1. PICK p \in {"gen", "det"}, l \in Labels : p = "gen" /\ l = "absent"
    BY DEF Labels
  <2> QED
    BY <1>1, <1>3, <2>1, PcSet DEF Types
<1>15. Types'
  BY <1>1, <1>3, <1>13, <1>14, TypesKept DEF Types
<1> QED
  BY <1>3, <1>13, <1>14, <1>15, OthersKeep DEF Block

(* The arithmetic of dtmf_generate.                                        *)
LEMMA StrengthType ==
    ASSUME NEW g
    PROVE  Strength(g) \in Nat
<1>1. /\ 125 \div 4 \in Nat /\ (125 * 100) \div 121 \in Nat
      /\ 123 \in Nat /\ 125 \div 121 \in Nat /\ 0 \in Nat /\ 125 \in Nat
  OBVIOUS
<1>2. ASSUME NEW x PROVE Scaled(x) \in Nat
  BY <1>1 DEF Scaled
<1> QED
  BY <1>1, <1>2 DEF Strength

LEMMA DropsToNat ==
    ASSUME NEW n \in Nat
    PROVE  DropFirstDigit(n) \in Nat
BY DEF DropFirstDigit

(* dtmf_generate: a line of the text, its end.                             *)
LEMMA GenLineKeeps ==
    ASSUME IInv, GenLine
    PROVE  IInv'
<1>1. Types
  BY DEF IInv
<1>2. Listens /\ UNCHANGED <<argv, glob>> /\ text.next <= Len(text.lines)
  BY DEF GenLine, Listens
<1>3. PICK e, n1 :
        /\ e = text.lines[text.next] /\ n1 = getNumFromText(text)
        /\ IF n1 > e.n2 \/ ~checkSymbolIsCorrect(e.symbol)
           THEN /\ audio' = [audio EXCEPT !.closed = TRUE]
                /\ Goto("gen", "failed")
                /\ UNCHANGED text
           ELSE /\ \E silence \in {Write(audio, n1, "silence", 0)} :
                   \E tone \in {Write(silence, e.n2, e.symbol, Strength(glob["gen"]))} :
                      audio' = Pad(tone, glob["gen"])
                /\ text' = [text EXCEPT !.next = @ + 1]
                /\ UNCHANGED pc
  BY DEF GenLine
<1>4. /\ text.lines \in Seq([n1 : Nat, n2 : Nat, symbol : STRING])
      /\ text.next \in Nat \ {0} /\ IsAudio(audio) /\ pc \in [{"gen", "det"} -> Labels]
  BY <1>1 DEF Types
<1>5. e.n2 \in Nat /\ n1 \in Nat
  <2>1. \A k \in DOMAIN text.lines : text.lines[k] \in [n1 : Nat, n2 : Nat, symbol : STRING]
    <3>1. PICK L : L = [n1 : Nat, n2 : Nat, symbol : STRING]
      OBVIOUS
    <3>2. text.lines \in Seq(L)
      BY <1>4, <3>1
    <3>3. \A k \in DOMAIN text.lines : text.lines[k] \in L
      BY <3>2
    <3> QED
      BY <3>1, <3>3
  <2>2. text.next \in DOMAIN text.lines /\ 1 \in DOMAIN text.lines
    BY <1>2, <1>4
  <2>3. text.lines[text.next].n1 \in Nat /\ text.lines[text.next].n2 \in Nat /\ text.lines[1].n1 \in Nat
    BY <2>1, <2>2
  <2> QED
    BY <1>3, <2>3, DropsToNat DEF getNumFromText
<1>6. CASE n1 > e.n2 \/ ~checkSymbolIsCorrect(e.symbol)
  <2>1. audio' = [audio EXCEPT !.closed = TRUE] /\ Goto("gen", "failed") /\ UNCHANGED text
    BY <1>3, <1>6
  <2>2. IsAudio(audio') /\ audio.length <= audio'.length
    <3>1. audio.length \in Nat
      BY <1>4 DEF IsAudio
    <3>2. IsAudio(audio') /\ audio'.length = audio.length
      BY <1>4, <2>1, ClosedSet
    <3> QED
      BY <3>1, <3>2
  <2>3. pc' \in [{"gen", "det"} -> Labels] /\ pc'["det"] = pc["det"]
    <3>1. PICK p \in {"gen", "det"}, l \in Labels : p = "gen" /\ l = "failed"
      BY DEF Labels
    <3> QED
      BY <1>4, <2>1, <3>1, PcSet
  <2>4. Types'
    BY <1>1, <1>2, <2>1, <2>2, <2>3, TypesKept DEF Types
  <2> QED
    BY <1>2, <2>2, <2>3, <2>4, OthersKeep DEF Block
<1>7. CASE ~(n1 > e.n2) /\ checkSymbolIsCorrect(e.symbol)
  <2>1. PICK f1 : f1 = Write(audio, n1, "silence", 0)
    OBVIOUS
  <2>2. PICK f2 : f2 = Write(f1, e.n2, e.symbol, Strength(glob["gen"]))
    OBVIOUS
  <2>3. audio' = Pad(f2, glob["gen"]) /\ text' = [text EXCEPT !.next = @ + 1] /\ UNCHANGED pc
    BY <1>3, <1>7, <2>1, <2>2
  <2>4. PICK tone \in {"silence", "recorded"} \cup Symbols, z \in Nat : tone = "silence" /\ z = 0
    OBVIOUS
  <2>5. Grown(audio, f1)
    <3>1. f1 = Write(audio, n1, tone, z)
      BY <2>1, <2>4
    <3> QED
      BY <1>4, <1>5, <3>1, WriteGrows
  <2>6. PICK symbol \in {"silence", "recorded"} \cup Symbols : symbol = e.symbol
    <3>1. PICK row \in 1 .. 4, col \in 1 .. 4 : dtmf_symbol_names[row][col] = e.symbol
      BY <1>7 DEF checkSymbolIsCorrect
    <3>2. e.symbol \in {dtmf_symbol_names[row][c] : c \in 1 .. 4}
      BY <3>1
    <3>3. e.symbol \in Symbols
      BY <3>2 DEF Symbols
    <3> QED
      BY <3>3
  <2>7. PICK strength \in Nat : strength = Strength(glob["gen"])
    BY StrengthType
  <2>8. PICK n2 \in Nat : n2 = e.n2
    BY <1>5
  <2>9. Grown(f1, f2)
    <3>1. f2 = Write(f1, n2, symbol, strength)
      BY <2>2, <2>6, <2>7, <2>8
    <3> QED
      BY <2>5, <3>1, WriteGrows DEF Grown
  <2>10. PICK len \in Nat : len = LENGTH
    BY DtmfAssumption
  <2>11. audio' = f2 \/ audio' = Write(f2, len, tone, z)
    BY <2>3, <2>4, <2>10 DEF Pad
  <2>12. Grown(f2, Write(f2, len, tone, z))
    BY <2>9, WriteGrows DEF Grown
  <2>13. IsAudio(audio') /\ audio.length <= audio'.length
    <3>1. audio.length <= f1.length /\ f1.length <= f2.length
          /\ f2.length <= audio'.length /\ IsAudio(audio')
      BY <2>5, <2>9, <2>11, <2>12 DEF Grown, IsAudio
    <3>2. audio.length \in Nat /\ f1.length \in Nat /\ f2.length \in Nat /\ audio'.length \in Nat
      BY <1>4, <2>5, <2>9, <3>1 DEF Grown, IsAudio
    <3> QED
      BY <3>1, <3>2
  <2>14. /\ text' = [lines |-> text'.lines, ending |-> text'.ending, next |-> text'.next]
         /\ text'.lines = text.lines /\ text'.next \in Nat \ {0}
    <3>1. PICK a, b, c : text = [lines |-> a, ending |-> b, next |-> c]
      BY <1>1 DEF Types
    <3>2. text' = [lines |-> a, ending |-> b, next |-> c + 1]
      BY <2>3, <3>1
    <3>3. c \in Nat \ {0}
      BY <1>4, <3>1
    <3> QED
      BY <3>1, <3>2, <3>3
  <2>15. Types'
    BY <1>1, <1>2, <2>3, <2>13, <2>14 DEF Types, Listens
  <2> QED
    BY <1>2, <2>3, <2>13, <2>15, OthersKeep DEF Block
<1> QED
  BY <1>6, <1>7

LEMMA GenEndKeeps ==
    ASSUME IInv, GenEnd \/ GenHang
    PROVE  IInv'
<1>1. Types
  BY DEF IInv
<1>2. Listens /\ UNCHANGED <<argv, glob, text>>
  BY DEF GenEnd, GenHang, Listens
<1>3. audio' = audio \/ audio' = [audio EXCEPT !.closed = TRUE]
  BY DEF GenEnd, GenHang
<1>4. IsAudio(audio') /\ audio.length <= audio'.length
  <2>1. IsAudio(audio)
    BY <1>1 DEF Types
  <2>2. audio.length \in Nat
    BY <2>1 DEF IsAudio
  <2>3. IsAudio(audio') /\ audio'.length = audio.length
    BY <1>3, <2>1, ClosedSet
  <2> QED
    BY <2>2, <2>3
<1>5. PICK p \in {"gen", "det"}, l \in Labels : p = "gen" /\ Goto(p, l)
  BY DEF GenEnd, GenHang, Labels
<1>6. pc' \in [{"gen", "det"} -> Labels] /\ pc'["det"] = pc["det"]
  BY <1>1, <1>5, PcSet DEF Types
<1>7. Types'
  BY <1>1, <1>2, <1>4, <1>6, TypesKept DEF Types
<1> QED
  BY <1>2, <1>4, <1>6, <1>7, OthersKeep DEF Block

Sets(d, e, x, c) == e = [d EXCEPT !.duration = x, !.curr = c]

(* The locals of dtmf_detect as its loop starts, not all initialized.      *)
LEMMA LocalsSet ==
    ASSUME NEW d \in DetLocals, NEW x \in Int, NEW c \in FreqPairs, NEW e, Sets(d, e, x, c)
    PROVE  /\ e \in DetLocals /\ e.start = d.start /\ e.end = d.end /\ e.prev = d.prev
           /\ e.end_file = d.end_file
BY DEF Sets, DetLocals

(* The locals that dtmf_detect does not initialize are set by every block  *)
(* before they are used.                                                   *)
LEMMA HeaderKeeps ==
    ASSUME IInv, DetHeader
    PROVE  IInv'
<1>1. Types /\ Started /\ EventsAreTones /\ EventsWhole /\ pc["det"] = "header"
  BY DEF IInv, DetHeader
<1>2. UNCHANGED <<argv, glob, text, audio, out, heard>>
  BY DEF DetHeader
<1>3. PICK l \in Labels : Goto("det", l) /\ l \in {"block", "failed"}
  BY DEF DetHeader, Labels
<1>4. det \in DetLocals
  BY <1>1 DEF Types
<1>5. /\ det' \in DetLocals
      /\ det'.start = det.start /\ det'.end = det.end /\ det'.prev = det.prev
      /\ det'.end_file = det.end_file
  <2>1. CASE det' = det
    BY <1>4, <2>1
  <2>2. CASE det' # det
    <3>1. PICK duration \in {0, MIN_DTMF_DURATION}, curr \in {<<0, 0>>, <<697, 1209>>} :
            Sets(det, det', duration, curr)
      BY <2>2 DEF DetHeader, Sets
    <3>2. duration \in Int
      BY DEF MIN_DTMF_DURATION
    <3>3. curr \in FreqPairs
      BY DEF FreqPairs, Rows, Cols
    <3> QED
      BY <1>4, <3>1, <3>2, <3>3, LocalsSet
  <2> QED
    BY <2>1, <2>2
<1>6. pc' \in [{"gen", "det"} -> Labels] /\ pc'["det"] = l
  <2>1. PICK p \in {"gen", "det"} : p = "det"
    OBVIOUS
  <2> QED
    BY <1>1, <1>3, <2>1, PcSet DEF Types
<1>7. Types'
  BY <1>1, <1>2, <1>5, <1>6 DEF Types, IsAudio
<1>8. /\ heard = <<>> /\ out = <<>> /\ det.start = 0 /\ det.end = 0
      /\ det.prev = <<-1, -1>> /\ ~det.end_file
  BY <1>1 DEF Started
<1>9. Block' = Block /\ Block \in 10 .. 1000
  BY <1>1, <1>2 DEF Started, Block
<1>10. Started'
  BY <1>2, <1>3, <1>5, <1>6, <1>8, <1>9 DEF Started
<1>11. Between'
  <2>1. heard' = <<>> /\ out' = <<>> /\ DOMAIN heard' = {} /\ DOMAIN out' = {} /\ Len(heard') = 0
    BY <1>2, <1>8
  <2>2. audio'.length \in Nat
    BY <1>7 DEF Types, IsAudio
  <2>3. InOrder' /\ PastReported'
    BY <2>1 DEF InOrder, PastReported
  <2>4. Position'
    BY <1>5, <1>8, <2>1, <2>2 DEF Position
  <2>5. RunFrom(1)'
    BY <2>1 DEF RunFrom
  <2>6. 1 \in 1 .. Len(heard') + 1
    BY <2>1
  <2> QED
    BY <2>3, <2>4, <2>5, <2>6 DEF Between
<1>12. EventsAreTones' /\ EventsWhole' /\ ChainsReported'
  <2>1. heard' = <<>> /\ out' = <<>> /\ DOMAIN heard' = {} /\ DOMAIN out' = {} /\ Len(out') = 0
    BY <1>2, <1>8
  <2>2. EventsAreTones' /\ ChainsReported'
    BY <2>1 DEF EventsAreTones, ChainsReported
  <2>3. EventsWhole'
    BY <2>1 DEF EventsWhole
  <2> QED
    BY <2>2, <2>3
<1> QED
  BY <1>7, <1>10, <1>11, <1>12 DEF IInv

-----------------------------------------------------------------------------
LEMMA InitHolds ==
    ASSUME Init
    PROVE  IInv
<1>1. PICK s \in Scenarios :
        /\ argv = [gen |-> s.gen, det |-> s.det, recordings |-> s.recordings]
        /\ text = [lines |-> s.text.lines, ending |-> s.text.ending, next |-> 1]
  BY DEF Init
<1>2. /\ glob = [gen |-> NoGlobals, det |-> NoGlobals]
      /\ pc = [gen |-> "main", det |-> "main"]
      /\ audio = [header |-> NoHeader, segs |-> <<>>, length |-> 0, closed |-> FALSE]
      /\ det = [start |-> 0, end |-> 0, prev |-> <<-1, -1>>, curr |-> <<0, 0>>,
                duration |-> 0, end_file |-> FALSE]
      /\ out = <<>> /\ heard = <<>>
  BY DEF Init
<1>3. Types
  <2>1. /\ s.text.lines \in Seq([n1 : Nat, n2 : Nat, symbol : STRING])
        /\ \A r \in s.recordings : r.length \in Nat
    BY DtmfAssumption
  <2>2. pc \in [{"gen", "det"} -> Labels]
    BY <1>2 DEF Labels
  <2>3. IsAudio(audio)
    BY <1>2 DEF IsAudio
  <2>4. <<0, 0>> \in FreqPairs /\ <<-1, -1>> \in FreqPairs
    BY DEF FreqPairs
  <2>5. det \in DetLocals
    BY <1>2, <2>4 DEF DetLocals
  <2>6. out \in Seq(Events) /\ heard \in Seq(HeardBlocks)
    BY <1>2
  <2> QED
    BY <1>1, <1>2, <2>1, <2>2, <2>3, <2>5, <2>6 DEF Types
<1>4. pc["det"] = "main"
  BY <1>2
<1>5. Started
  BY <1>2, <1>4 DEF Started
<1>6. DOMAIN heard = {} /\ DOMAIN out = {} /\ Len(out) = 0
  BY <1>2
<1>7. EventsAreTones /\ EventsWhole /\ ChainsReported
  BY <1>6 DEF EventsAreTones, EventsWhole, ChainsReported
<1> QED
  BY <1>3, <1>4, <1>5, <1>7 DEF IInv

LEMMA StutterKeeps ==
    ASSUME IInv, UNCHANGED vars
    PROVE  IInv'
<1>1. Types'
  BY DEF IInv, vars, Types, IsAudio
<1>2. Listens /\ UNCHANGED <<pc, glob, audio>>
  BY DEF vars, Listens
<1>3. audio.length \in Nat
  BY DEF IInv, Types, IsAudio
<1>4. audio.length <= audio'.length
  BY <1>2, <1>3
<1> QED
  BY <1>1, <1>2, <1>4, OthersKeep DEF Block

(* The inductive invariant holds whatever the command lines, the text, the *)
(* recordings and the spectra of the blocks are.                           *)
THEOREM Invariance == Spec => []IInv
<1>1. IInv /\ [Next]_vars => IInv'
  <2> SUFFICES ASSUME IInv, [Next]_vars PROVE IInv'
    OBVIOUS
  <2>1. CASE \E p \in {"gen", "det"} : Main(p)
    BY <2>1, MainKeeps
  <2>2. CASE Play
    BY <2>2, PlayKeeps
  <2>3. CASE GenLine
    BY <2>3, GenLineKeeps
  <2>4. CASE GenEnd \/ GenHang
    BY <2>4, GenEndKeeps
  <2>5. CASE DetHeader
    BY <2>5, HeaderKeeps
  <2>6. CASE DetBlock
    BY <2>6, BlockKeeps
  <2>7. CASE DetEnd
    BY <2>7, EndKeeps
  <2>8. CASE UNCHANGED vars
    BY <2>8, StutterKeeps
  <2> QED
    BY <2>1, <2>2, <2>3, <2>4, <2>5, <2>6, <2>7, <2>8 DEF Next
<1> QED
  BY <1>1, InitHolds, PTL DEF Spec

(* dtmf_detect reports only tones: every block of an event was a tone that *)
(* went on from the block before it, and the symbol is that of the last    *)
(* one, in all the ways the blocks of a recording can follow each other.   *)
THEOREM ReportsTones == Spec => []EventsAreTones
<1>1. IInv => EventsAreTones
  BY DEF IInv
<1> QED
  BY <1>1, Invariance, PTL

(* The events dtmf_detect writes are in order and do not overlap, and none *)
(* begins or ends inside a tone.                                           *)
THEOREM ReportsApart == Spec => []EventsSeparate
<1>1. IInv => EventsSeparate
  <2> SUFFICES ASSUME IInv PROVE EventsSeparate
    OBVIOUS
  <2>1. ASSUME NEW i \in 1 .. Len(heard) - 1, SameTone(i) PROVE Chained(i)
    BY <2>1 DEF SameTone, Chained, Alike
  <2> QED
    BY <2>1 DEF IInv, EventsWhole, EventsSeparate
<1> QED
  BY <1>1, Invariance, PTL

(* When dtmf_detect returns, a tone of MIN_DTMF_DURATION or more that is   *)
(* not next to another one with a common frequency has been reported, with *)
(* its symbol and by an event of its blocks and no others.                 *)
THEOREM NoLoneToneMissed == Spec => []LoneTonesReported
<1>1. IInv => LoneTonesReported
  <2> SUFFICES ASSUME IInv, pc["det"] = "exit",
                      NEW i \in DOMAIN heard, NEW j \in DOMAIN heard, LongTone(i, j),
                      i > 1 => ~Chained(i - 1), j < Len(heard) => ~Chained(j)
               PROVE  \E e \in Range(out) : BlocksOf(e) = i .. j /\ Names(e, i)
    BY DEF LoneTonesReported
  <2>1. /\ Len(heard) \in Nat /\ DOMAIN heard = 1 .. Len(heard)
        /\ \A m \in DOMAIN heard : heard[m].from \in Nat /\ heard[m].to \in Nat
        /\ \A k \in DOMAIN out : out[k].from \in Nat /\ out[k].to \in Nat
    BY Fields DEF IInv
  <2>2. /\ \A m \in DOMAIN heard : heard[m].from < heard[m].to
        /\ \A m, n \in DOMAIN heard : m < n => heard[m].to <= heard[n].from
    BY DEF IInv, ChainsReported
  <2>3. Long(i, j)
    <3>1. ASSUME NEW k \in i .. j - 1 PROVE Chained(k)
      BY DEF LongTone, SameTone, Chained, Alike
    <3> QED
      BY <3>1 DEF LongTone, Long
  <2>4. PICK e \in Range(out) : {i, j} \subseteq BlocksOf(e)
    BY <2>3 DEF IInv, ChainsReported, Long
  <2>5. PICK k \in DOMAIN out : e = out[k]
    BY <2>4 DEF Range
  <2>6. AllTones(e)
    BY <2>5 DEF IInv, EventsAreTones, AllTones
  <2>7. \A l, m, n \in DOMAIN heard :
          l \in BlocksOf(e) /\ n \in BlocksOf(e) /\ l <= m /\ m <= n => m \in BlocksOf(e)
    <3> SUFFICES ASSUME NEW l \in DOMAIN heard, NEW m \in DOMAIN heard, NEW n \in DOMAIN heard,
                        l \in BlocksOf(e), n \in BlocksOf(e), l <= m, m <= n
                 PROVE  m \in BlocksOf(e)
      OBVIOUS
    <3>1. e.from <= heard[l].from /\ heard[n].to <= e.to /\ e.from \in Nat /\ e.to \in Nat
      BY <2>1, <2>5 DEF BlocksOf
    <3>2. heard[l].from <= heard[m].from
      <4>1. CASE l = m
        BY <2>1, <4>1
      <4>2. CASE l < m
        <5>1. heard[l].from < heard[l].to /\ heard[l].to <= heard[m].from
          BY <2>2, <4>2
        <5> QED
          BY <2>1, <5>1
      <4> QED
        BY <2>1, <4>1, <4>2
    <3>3. heard[m].to <= heard[n].to
      <4>1. CASE m = n
        BY <2>1, <4>1
      <4>2. CASE m < n
        <5>1. heard[n].from < heard[n].to /\ heard[m].to <= heard[n].from
          BY <2>2, <4>2
        <5> QED
          BY <2>1, <5>1
      <4> QED
        BY <2>1, <4>1, <4>2
    <3>4. e.from <= heard[m].from /\ heard[m].to <= e.to
      BY <2>1, <3>1, <3>2, <3>3
    <3> QED
      BY <3>4 DEF BlocksOf
  <2>8. i - 1 \notin BlocksOf(e) /\ j + 1 \notin BlocksOf(e)
    <3>1. ASSUME i - 1 \in BlocksOf(e) PROVE FALSE
      <4>1. i - 1 \in DOMAIN heard /\ i > 1 /\ (i - 1) + 1 = i
        BY <2>1, <3>1 DEF BlocksOf
      <4>2. Chained(i - 1)
        BY <2>4, <2>6, <3>1, <4>1 DEF AllTones
      <4> QED
        BY <4>1, <4>2
    <3>2. ASSUME j + 1 \in BlocksOf(e) PROVE FALSE
      <4>1. j < Len(heard)
        BY <2>1, <3>2 DEF BlocksOf
      <4>2. Chained(j)
        BY <2>4, <2>6, <3>2 DEF AllTones
      <4> QED
        BY <4>1, <4>2
    <3> QED
      BY <3>1, <3>2
  <2>9. BlocksOf(e) = i .. j
    <3>1. ASSUME NEW m \in i .. j PROVE m \in BlocksOf(e)
      <4>1. m \in DOMAIN heard /\ i <= m /\ m <= j
        BY <2>1
      <4> QED
        BY <2>4, <2>7, <4>1
    <3>2. ASSUME NEW m \in BlocksOf(e) PROVE m \in i .. j
      <4>1. m \in DOMAIN heard /\ m \in Nat /\ i \in Nat /\ j \in Nat
        BY <2>1 DEF BlocksOf
      <4>2. ASSUME m < i PROVE FALSE
        <5>1. i - 1 \in DOMAIN heard /\ m <= i - 1 /\ i - 1 <= i
          BY <2>1, <4>1, <4>2
        <5> QED
          BY <2>4, <2>7, <2>8, <4>1, <5>1
      <4>3. ASSUME j < m PROVE FALSE
        <5>1. j + 1 \in DOMAIN heard /\ j <= j + 1 /\ j + 1 <= m
          BY <2>1, <4>1, <4>3
        <5> QED
          BY <2>4, <2>7, <2>8, <4>1, <5>1
      <4> QED
        BY <4>1, <4>2, <4>3
    <3> QED
      BY <3>1, <3>2
  <2>10. heard[j].freqs = heard[i].freqs
    <3> DEFINE S == {n \in Nat : heard[i + n].freqs = heard[i].freqs}
    <3>1. i \in Nat /\ j \in Nat /\ j - i \in Nat /\ i + (j - i) = j
      BY <2>1 DEF LongTone
    <3>2. 0 \in S
      <4>1. i + 0 = i
        BY <3>1
      <4> QED
        BY <4>1
    <3>3. ASSUME NEW n \in 0 .. (j - i) - 1, n \in S PROVE n + 1 \in S
      <4>1. i + n \in i .. j - 1 /\ (i + n) + 1 = i + (n + 1) /\ n + 1 \in Nat
        <5>1. \A a, b, m \in Nat : m \in 0 .. (b - a) - 1 =>
                a + m \in a .. b - 1 /\ (a + m) + 1 = a + (m + 1) /\ m + 1 \in Nat
          OBVIOUS
        <5>2. n \in Nat
          BY <3>1
        <5> QED
          BY <3>1, <5>1, <5>2
      <4>2. SameTone(i + n)
        BY <4>1 DEF LongTone
      <4>3. heard[i + n].freqs = heard[i + (n + 1)].freqs
        BY <4>1, <4>2 DEF SameTone
      <4> QED
        BY <3>3, <4>1, <4>3
    <3>4. \A n \in 0 .. (j - i) : n \in S
      <4> HIDE DEF S
      <4> QED
        BY <3>1, <3>2, <3>3, UpTo
    <3>5. j - i \in S
      <4> HIDE DEF S
      <4>1. j - i \in 0 .. (j - i)
        BY <3>1
      <4> QED
        BY <3>4, <4>1
    <3> QED
      BY <3>1, <3>5
  <2>11. Names(e, i)
    <3>1. e.symbol = findSymbolFromFrequencies(heard[j].freqs[1], heard[j].freqs[2])
      BY <2>4, <2>6, <2>8 DEF AllTones
    <3> QED
      BY <2>10, <3>1 DEF Names
  <2> QED
    BY <2>4, <2>9, <2>11
<1> QED
  BY <1>1, Invariance, PTL

-----------------------------------------------------------------------------
(* validargs.                                                              *)

(* What is read after each character of an argument: with int arithmetic   *)
(* (w = 1) or without a bound.                                             *)
Read(w, n, d) == IF w = 1 THEN Wrap(10 * n + d) ELSE 10 * n + d
IsReading(w, a, g, k) ==
    g = [i \in 0 .. k |-> IF i = 0 THEN 0 ELSE Read(w, g[i - 1], a[i])]

(* The recursive functions of Number and Decimal exist.                    *)
LEMMA ReadingExists ==
    ASSUME NEW a \in Seq(Int), NEW w
    PROVE  \E g : IsReading(w, a, g, Len(a))
<1> DEFINE S == {k \in Nat : \E g : IsReading(w, a, g, k)}
<1>1. 0 \in S
  <2> DEFINE z == [i \in 0 .. 0 |-> 0]
  <2>1. IsReading(w, a, z, 0)
    BY DEF IsReading
  <2> QED
    BY <2>1
<1>2. \A k \in 0 .. Len(a) - 1 : k \in S => k + 1 \in S
  <2> SUFFICES ASSUME NEW k \in 0 .. Len(a) - 1, k \in S PROVE k + 1 \in S
    OBVIOUS
  <2>1. PICK g : IsReading(w, a, g, k)
    OBVIOUS
  <2> DEFINE h == [i \in 0 .. k + 1 |-> IF i = k + 1 THEN Read(w, g[k], a[k + 1]) ELSE g[i]]
  <2>2. \A i \in 0 .. k + 1 : h[i] = IF i = 0 THEN 0 ELSE Read(w, h[i - 1], a[i])
    BY <2>1 DEF IsReading
  <2>3. IsReading(w, a, h, k + 1)
    BY <2>2 DEF IsReading
  <2> QED
    BY <2>3
<1>3. Len(a) \in Nat /\ Len(a) \in 0 .. Len(a)
  OBVIOUS
<1>4. Len(a) \in S
  <2> HIDE DEF S
  <2> QED
    BY <1>1, <1>2, <1>3, UpTo
<1> QED
  BY <1>4

(* What validargs computes from the digits of an argument, one by one.     *)
LEMMA NumberReads ==
    ASSUME NEW a \in Seq(Int)
    PROVE  \E g : IsReading(1, a, g, Len(a)) /\ Number(a) = g[Len(a)]
<1>1. PICK h : IsReading(1, a, h, Len(a))
  BY ReadingExists
<1>2. h = [i \in 0 .. Len(a) |-> IF i = 0 THEN 0 ELSE Wrap(10 * h[i - 1] + a[i])]
  BY <1>1 DEF IsReading, Read
<1>3. PICK f : f = CHOOSE g : g = [i \in 0 .. Len(a) |-> IF i = 0 THEN 0 ELSE Wrap(10 * g[i - 1] + a[i])]
  OBVIOUS
<1>4. f = [i \in 0 .. Len(a) |-> IF i = 0 THEN 0 ELSE Wrap(10 * f[i - 1] + a[i])]
  BY <1>2, <1>3
<1>5. Number(a) = f[Len(a)]
  BY <1>3 DEF Number
<1> QED
  BY <1>4, <1>5 DEF IsReading, Read

(* The number spelled, digit by digit.                                     *)
LEMMA DecimalReads ==
    ASSUME NEW a \in Seq(Int)
    PROVE  \E g : IsReading(0, a, g, Len(a)) /\ Decimal(a) = g[Len(a)]
<1>0. \A n, d : Read(0, n, d) = 10 * n + d
  BY DEF Read
<1>1. PICK h : IsReading(0, a, h, Len(a))
  BY ReadingExists
<1>2. h = [i \in 0 .. Len(a) |-> IF i = 0 THEN 0 ELSE 10 * h[i - 1] + a[i]]
  BY <1>0, <1>1 DEF IsReading
<1>3. PICK f : f = CHOOSE g : g = [i \in 0 .. Len(a) |-> IF i = 0 THEN 0 ELSE 10 * g[i - 1] + a[i]]
  OBVIOUS
<1>4. f = [i \in 0 .. Len(a) |-> IF i = 0 THEN 0 ELSE 10 * f[i - 1] + a[i]]
  BY <1>2, <1>3
<1>5. Decimal(a) = f[Len(a)]
  BY <1>3 DEF Decimal
<1>6. f = [i \in 0 .. Len(a) |-> IF i = 0 THEN 0 ELSE Read(0, f[i - 1], a[i])]
  <2>1. \A i \in 0 .. Len(a) : f[i] = IF i = 0 THEN 0 ELSE 10 * f[i - 1] + a[i]
    BY <1>4
  <2>2. \A i \in 0 .. Len(a) : f[i] = IF i = 0 THEN 0 ELSE Read(0, f[i - 1], a[i])
    BY <1>0, <2>1
  <2>3. f = [i \in 0 .. Len(a) |-> f[i]]
    BY <1>4
  <2> QED
    BY Zenon, <2>2, <2>3
<1>7. IsReading(0, a, f, Len(a))
  BY Zenon, <1>6 DEF IsReading
<1> QED
  BY <1>5, <1>7

(* The largest int is a number.                                            *)
LEMMA IntMaxNat == INT_MAX \in Nat
<1>1. INT_MAX \in Nat \ {0}
  BY Zenon, DtmfAssumption
<1> QED
  BY <1>1

(* An int that fits does not wrap.                                         *)
LEMMA WrapFits ==
    ASSUME NEW n \in Nat, n <= INT_MAX
    PROVE  Wrap(n) = n
<1>1. INT_MAX \in Nat /\ 2 * INT_MAX + 2 > 0 /\ n + INT_MAX + 1 < 2 * INT_MAX + 2
  BY IntMaxNat
<1>2. (n + INT_MAX + 1) % (2 * INT_MAX + 2) = n + INT_MAX + 1
  BY <1>1
<1> QED
  BY <1>1, <1>2 DEF Wrap

(* A number without a sign that fits an int is read as it is spelled.      *)
LEMMA DigitsRead ==
    ASSUME NEW a \in Seq(Int), AllDigits(a)
    PROVE  /\ Decimal(a) \in Nat
           /\ Decimal(a) <= INT_MAX => Number(a) = Decimal(a)
<1>1. PICK d : IsReading(0, a, d, Len(a)) /\ Decimal(a) = d[Len(a)]
  BY DecimalReads
<1>2. PICK n : IsReading(1, a, n, Len(a)) /\ Number(a) = n[Len(a)]
  BY NumberReads
<1>3. Len(a) \in Nat
  OBVIOUS
<1>4. ASSUME NEW k \in 0 .. Len(a) - 1
      PROVE  a[k + 1] \in 0 .. 9 /\ k + 1 \in 0 .. Len(a) /\ k + 1 # 0 /\ k + 1 - 1 = k
  BY <1>3 DEF AllDigits
<1>5. \A k \in 0 .. Len(a) - 1 :
        d[k + 1] = 10 * d[k] + a[k + 1] /\ n[k + 1] = Wrap(10 * n[k] + a[k + 1])
  BY <1>1, <1>2, <1>4 DEF IsReading, Read
<1>6. d[0] = 0 /\ n[0] = 0
  BY <1>1, <1>2, <1>3 DEF IsReading
<1> DEFINE S == {k \in 0 .. Len(a) : d[k] \in Nat /\ (d[k] <= INT_MAX => n[k] = d[k])}
<1>7. 0 \in S
  BY <1>3, <1>6
<1>8. \A k \in 0 .. Len(a) - 1 : k \in S => k + 1 \in S
  <2> SUFFICES ASSUME NEW k \in 0 .. Len(a) - 1, k \in S PROVE k + 1 \in S
    OBVIOUS
  <2>1. PICK x, y, c : x = d[k] /\ y = n[k] /\ c = a[k + 1]
    OBVIOUS
  <2>2. c \in 0 .. 9 /\ x \in Nat /\ (x <= INT_MAX => y = x)
    BY <1>4, <2>1
  <2>3. 10 * x + c \in Nat /\ x <= 10 * x + c
    BY <2>2
  <2>4. 10 * x + c <= INT_MAX => y = x
    BY <2>2, <2>3, IntMaxNat
  <2>5. 10 * x + c <= INT_MAX => Wrap(10 * x + c) = 10 * x + c
    BY <2>3, WrapFits
  <2>6. d[k + 1] = 10 * x + c /\ n[k + 1] = Wrap(10 * y + c)
    BY <1>5, <2>1
  <2> QED
    BY <1>4, <2>3, <2>4, <2>5, <2>6
<1>9. Len(a) \in S
  <2>1. Len(a) \in 0 .. Len(a)
    BY <1>3
  <2> HIDE DEF S
  <2> QED
    BY <1>3, <1>7, <1>8, <2>1, UpTo
<1> QED
  BY <1>1, <1>2, <1>9

(* The defaults of the usage text.                                         *)
LEMMA Defaults ==
    /\ Spelled(<<1, 0, 0, 0>>) = 1000
    /\ Spelled(<<1, 0, 0>>) = 100
    /\ Spelled(<<0>>) = 0
<1>1. Decimal(<<1, 0, 0, 0>>) = 1000
  <2> DEFINE a == <<1, 0, 0, 0>>
  <2>1. a \in Seq(Int) /\ Len(a) = 4 /\ a[1] = 1 /\ a[2] = 0 /\ a[3] = 0 /\ a[4] = 0
    OBVIOUS
  <2> HIDE DEF a
  <2>2. PICK d : IsReading(0, a, d, 4) /\ Decimal(a) = d[4]
    BY <2>1, DecimalReads
  <2>3. d[0] = 0 /\ d[1] = 10 * d[0] + a[1] /\ d[2] = 10 * d[1] + a[2]
        /\ d[3] = 10 * d[2] + a[3] /\ d[4] = 10 * d[3] + a[4]
    BY <2>2 DEF IsReading, Read
  <2> QED
    BY <2>1, <2>2, <2>3 DEF a
<1>2. Decimal(<<1, 0, 0>>) = 100
  <2> DEFINE a == <<1, 0, 0>>
  <2>1. a \in Seq(Int) /\ Len(a) = 3 /\ a[1] = 1 /\ a[2] = 0 /\ a[3] = 0
    OBVIOUS
  <2> HIDE DEF a
  <2>2. PICK d : IsReading(0, a, d, 3) /\ Decimal(a) = d[3]
    BY <2>1, DecimalReads
  <2>3. d[0] = 0 /\ d[1] = 10 * d[0] + a[1] /\ d[2] = 10 * d[1] + a[2]
        /\ d[3] = 10 * d[2] + a[3]
    BY <2>2 DEF IsReading, Read
  <2> QED
    BY <2>1, <2>2, <2>3 DEF a
<1>3. Decimal(<<0>>) = 0
  <2> DEFINE a == <<0>>
  <2>1. a \in Seq(Int) /\ Len(a) = 1 /\ a[1] = 0
    OBVIOUS
  <2> HIDE DEF a
  <2>2. PICK d : IsReading(0, a, d, 1) /\ Decimal(a) = d[1]
    BY <2>1, DecimalReads
  <2>3. d[0] = 0 /\ d[1] = 10 * d[0] + a[1]
    BY <2>2 DEF IsReading, Read
  <2> QED
    BY <2>1, <2>2, <2>3 DEF a
<1>4. <<1, 0, 0, 0>>[1] # Minus /\ <<1, 0, 0>>[1] # Minus /\ <<0>>[1] # Minus
  BY DEF Minus
<1> QED
  BY <1>1, <1>2, <1>3, <1>4 DEF Spelled

(* What the usage text permits of one option of -g.                        *)
GoodOption(pair) ==
    CASE pair[1] = "-t" -> IsInt(pair[2]) /\ pair[2][1] # Minus
      [] pair[1] = "-n" -> TRUE
      [] pair[1] = "-l" -> IsInt(pair[2]) /\ Spelled(pair[2]) \in -30..30
      [] OTHER -> FALSE

Options == Seq(STRING \X Seq(Int))

Once(opts, k) == \A i, j \in 1 .. k : opts[i][1] = opts[j][1] => i = j

(* The parser's state after k options of -g, option by option.             *)
TimeStored(opts, k, st) ==
    IF "-t" \in st.seen
    THEN \A i \in 1 .. k : opts[i][1] = "-t" => st.audio_samples = 8 * Spelled(opts[i][2])
    ELSE st.audio_samples = 8000
LevelStored(opts, k, st) ==
    IF "-l" \in st.seen
    THEN \A i \in 1 .. k : opts[i][1] = "-l" => st.noise_level = Spelled(opts[i][2])
    ELSE st.noise_level = 0
FileStored(opts, k, st) ==
    IF "-n" \in st.seen
    THEN \A i \in 1 .. k : opts[i][1] = "-n" => st.noise_file = opts[i][2]
    ELSE st.noise_file = NULL
FlagsSeen(opts, k, st) ==
    /\ st.seen = {opts[i][1] : i \in 1 .. k}
    /\ st.seen \subseteq {"-t", "-n", "-l"}
Complete(st) ==
    st = [ok |-> TRUE, seen |-> st.seen, audio_samples |-> st.audio_samples,
          noise_file |-> st.noise_file, noise_level |-> st.noise_level]
Stored(opts, k, st) ==
    /\ Complete(st)
    /\ FlagsSeen(opts, k, st)
    /\ TimeStored(opts, k, st) /\ LevelStored(opts, k, st) /\ FileStored(opts, k, st)

After(opts, k, st) ==
    \/ (\A i \in 1 .. k : GoodOption(opts[i])) /\ Once(opts, k) /\ Stored(opts, k, st)
    \/ ~((\A i \in 1 .. k : GoodOption(opts[i])) /\ Once(opts, k)) /\ st = Fail

(* -t: a time in milliseconds is stored as samples, or refused.            *)
LEMMA TimeParsed ==
    ASSUME NEW a \in Seq(Int), Proper(a), NEW st
    PROVE  IF IsInt(a) /\ a[1] # Minus
           THEN ParseTime(st, a) = [st EXCEPT !.seen = @ \cup {"-t"}, !.audio_samples = 8 * Spelled(a)]
           ELSE ParseTime(st, a) = Fail
<1>1. CASE a # <<>> /\ AllDigits(a)
  <2>1. 1 \in DOMAIN a /\ a[1] \in 0 .. 9 /\ a[1] # Minus
    BY <1>1 DEF AllDigits, Minus
  <2>2. IsInt(a) /\ Spelled(a) = Decimal(a)
    BY <1>1, <2>1 DEF IsInt, Spelled
  <2>3. 8 * Decimal(a) <= INT_MAX
    BY <1>1, <2>1 DEF Proper
  <2>4. PICK n : n = Decimal(a)
    OBVIOUS
  <2>5. n \in Nat /\ 8 * n <= INT_MAX /\ n <= INT_MAX /\ 8 * n \in Nat
    BY <1>1, <2>3, <2>4, DigitsRead, IntMaxNat
  <2>6. Number(a) = n
    BY <1>1, <2>4, <2>5, DigitsRead
  <2>7. Wrap(8 * n) = 8 * n
    BY <2>5, WrapFits
  <2>8. ParseTime(st, a) = [st EXCEPT !.seen = @ \cup {"-t"}, !.audio_samples = Wrap(8 * n)]
    BY <1>1, <2>5, <2>6 DEF ParseTime
  <2> QED
    BY <2>1, <2>2, <2>4, <2>7, <2>8
<1>2. CASE ~(a # <<>> /\ AllDigits(a))
  BY <1>2 DEF IsInt, ParseTime
<1> QED
  BY <1>1, <1>2

(* -l: a level of -30..30 is stored, anything else refused.                *)
LEMMA LevelParsed ==
    ASSUME NEW a \in Seq(Int), Proper(a), NEW st
    PROVE  IF IsInt(a) /\ Spelled(a) \in -30..30
           THEN ParseLevel(st, a) = [st EXCEPT !.seen = @ \cup {"-l"}, !.noise_level = Spelled(a)]
           ELSE ParseLevel(st, a) = Fail
<1> DEFINE negative == a # <<>> /\ a[1] = Minus
           digits == IF negative THEN Tail(a) ELSE a
           level == IF negative THEN -Number(digits) ELSE Number(digits)
           taken == /\ digits # <<>> /\ AllDigits(Tail(digits))
                    /\ negative \/ digits[1] \in 0..9
                    /\ level \in -30..30
<1>1. ParseLevel(st, a) =
        IF taken THEN [st EXCEPT !.seen = @ \cup {"-l"}, !.noise_level = level] ELSE Fail
  BY DEF ParseLevel
<1>2. digits \in Seq(Int)
  OBVIOUS
<1>3. digits # <<>> =>
        /\ Len(digits) >= 1
        /\ Tail(digits) \in Seq(Int) /\ Len(Tail(digits)) = Len(digits) - 1
        /\ \A i \in 1 .. Len(digits) - 1 : Tail(digits)[i] = digits[i + 1]
  <2> HIDE DEF digits
  <2> QED
    BY <1>2
<1>4. negative /\ digits # <<>> => Len(a) > 1 /\ digits[1] = a[2]
  BY DEF Minus
<1>5. digits # <<>> /\ AllDigits(Tail(digits)) /\ (negative \/ digits[1] \in 0 .. 9)
      <=> digits # <<>> /\ AllDigits(digits)
  <2>1. ASSUME digits # <<>>, AllDigits(Tail(digits)), negative \/ digits[1] \in 0 .. 9
        PROVE  AllDigits(digits)
    <3>1. digits[1] \in 0 .. 9
      BY <1>4, <2>1 DEF Proper
    <3> HIDE DEF digits, negative
    <3>2. ASSUME NEW i \in 1 .. Len(digits) PROVE digits[i] \in 0 .. 9
      <4>1. CASE i = 1
        BY <3>1, <4>1
      <4>2. CASE i # 1
        <5>1. i - 1 \in 1 .. Len(digits) - 1 /\ i - 1 + 1 = i
          BY <1>2, <4>2
        <5>2. PICK t : t = Tail(digits)
          OBVIOUS
        <5>3. t \in Seq(Int) /\ Len(t) = Len(digits) - 1 /\ AllDigits(t)
          BY <1>3, <2>1, <5>2
        <5>4. DOMAIN t = 1 .. Len(digits) - 1
          BY <5>3
        <5>5. t[i - 1] \in 0 .. 9
          BY <5>1, <5>3, <5>4 DEF AllDigits
        <5> QED
          BY <1>3, <2>1, <5>1, <5>2, <5>5
      <4> QED
        BY <4>1, <4>2
    <3> QED
      BY <1>2, <3>2 DEF AllDigits
  <2>2. ASSUME digits # <<>>, AllDigits(digits)
        PROVE  AllDigits(Tail(digits)) /\ digits[1] \in 0 .. 9
    <3> HIDE DEF digits, negative
    <3>1. ASSUME NEW i \in 1 .. Len(digits) - 1 PROVE Tail(digits)[i] \in 0 .. 9
      BY <1>2, <1>3, <2>2 DEF AllDigits
    <3> QED
      BY <1>2, <1>3, <2>2, <3>1 DEF AllDigits
  <2> HIDE DEF digits, negative
  <2> QED
    BY <2>1, <2>2
<1>6. IsInt(a) <=> digits # <<>> /\ AllDigits(digits)
  <2>1. CASE negative
    <3>1. ~AllDigits(a) /\ a # <<>> /\ a[1] = Minus /\ digits = Tail(a)
      BY <2>1 DEF AllDigits, Minus
    <3>2. Len(a) > 1 <=> Tail(a) # <<>>
      <4>1. Tail(a) \in Seq(Int) /\ Len(Tail(a)) = Len(a) - 1 /\ Len(a) \in Nat
        BY <3>1
      <4>2. \A s \in Seq(Int) : s = <<>> <=> Len(s) = 0
        OBVIOUS
      <4>3. Tail(a) = <<>> <=> Len(Tail(a)) = 0
        BY <4>1, <4>2
      <4>4. Len(a) # 0
        BY <3>1, <4>2
      <4> QED
        BY <4>1, <4>3, <4>4
    <3> QED
      BY <3>1, <3>2 DEF IsInt
  <2>2. CASE ~negative
    BY <2>2 DEF IsInt
  <2> QED
    BY <2>1, <2>2
<1>7. AllDigits(digits) => 8 * Decimal(digits) <= INT_MAX
  BY DEF Proper
<1>8. Spelled(a) = IF negative THEN -Decimal(digits) ELSE Decimal(digits)
  BY DEF Spelled
<1>9. AllDigits(digits) => Number(digits) = Decimal(digits)
  <2> HIDE DEF digits
  <2>1. PICK n : n = Decimal(digits)
    OBVIOUS
  <2>2. AllDigits(digits) => n \in Nat /\ 8 * n <= INT_MAX
    BY <1>2, <1>7, <2>1, DigitsRead
  <2>3. AllDigits(digits) => n <= INT_MAX
    BY <2>2, IntMaxNat
  <2> QED
    BY <1>2, <2>1, <2>3, DigitsRead
<1>10. AllDigits(digits) => level = Spelled(a)
  <2> HIDE DEF digits, negative
  <2> QED
    BY <1>8, <1>9
<1> HIDE DEF digits, negative, level
<1> QED
  BY <1>1, <1>5, <1>6, <1>10

(* A state with the next option stored.                                    *)
LEMMA OptionStored ==
    ASSUME NEW opts \in Options, NEW k \in 0 .. Len(opts) - 1, NEW st, NEW new,
           NEW f, NEW a, f = opts[k + 1][1], a = opts[k + 1][2],
           Stored(opts, k, st), f \in {"-t", "-n", "-l"}, f \notin st.seen,
           new = [ok |-> TRUE, seen |-> st.seen \cup {f},
                  audio_samples |-> IF f = "-t" THEN 8 * Spelled(a) ELSE st.audio_samples,
                  noise_file |-> IF f = "-n" THEN a ELSE st.noise_file,
                  noise_level |-> IF f = "-l" THEN Spelled(a) ELSE st.noise_level]
    PROVE  Stored(opts, k + 1, new)
<1>1. k \in Nat /\ 1 .. k + 1 = (1 .. k) \cup {k + 1} /\ k + 1 \notin 1 .. k
  OBVIOUS
<1>2. PICK seen, audio_samples, noise_file, noise_level :
        /\ seen = st.seen \cup {f}
        /\ audio_samples = IF f = "-t" THEN 8 * Spelled(a) ELSE st.audio_samples
        /\ noise_file = IF f = "-n" THEN a ELSE st.noise_file
        /\ noise_level = IF f = "-l" THEN Spelled(a) ELSE st.noise_level
  OBVIOUS
<1>3. new = [ok |-> TRUE, seen |-> seen, audio_samples |-> audio_samples,
             noise_file |-> noise_file, noise_level |-> noise_level]
  BY <1>2
<1>4. /\ new.ok = TRUE /\ new.seen = seen /\ new.audio_samples = audio_samples
      /\ new.noise_file = noise_file /\ new.noise_level = noise_level
  BY <1>3
<1>5. st.seen = {opts[i][1] : i \in 1 .. k} /\ st.seen \subseteq {"-t", "-n", "-l"}
  BY DEF Stored, FlagsSeen
<1>6. FlagsSeen(opts, k + 1, new)
  <2>1. seen = {opts[i][1] : i \in 1 .. k + 1}
    BY <1>1, <1>2, <1>5
  <2> QED
    BY <1>2, <1>4, <1>5, <2>1 DEF FlagsSeen
<1>7. \A i \in 1 .. k : opts[i][1] # f
  BY <1>5
<1>8. TimeStored(opts, k + 1, new)
  BY <1>1, <1>2, <1>4, <1>7 DEF Stored, TimeStored
<1>9. LevelStored(opts, k + 1, new)
  BY <1>1, <1>2, <1>4, <1>7 DEF Stored, LevelStored
<1>10. FileStored(opts, k + 1, new)
  BY <1>1, <1>2, <1>4, <1>7 DEF Stored, FileStored
<1>11. Complete(new)
  BY <1>3, <1>4 DEF Complete
<1> QED
  BY <1>6, <1>8, <1>9, <1>10, <1>11 DEF Stored

(* One more option: the parser's state stays that of the options read.     *)
LEMMA FlagTaken ==
    ASSUME NEW opts \in Options, NEW k \in 0 .. Len(opts) - 1, NEW st,
           opts[k + 1][1] # "-n" => Proper(opts[k + 1][2]),
           After(opts, k, st)
    PROVE  After(opts, k + 1, TakeFlag(st, opts[k + 1]))
<1>1. PICK f, a : f = opts[k + 1][1] /\ a = opts[k + 1][2]
  OBVIOUS
<1>2. k \in Nat /\ 1 .. k + 1 = (1 .. k) \cup {k + 1} /\ k + 1 \notin 1 .. k /\ k + 1 \in 1 .. Len(opts)
  OBVIOUS
<1>3. opts[k + 1] \in STRING \X Seq(Int) /\ f \in STRING /\ a \in Seq(Int)
  BY <1>1, <1>2 DEF Options
<1> DEFINE all == (\A i \in 1 .. k : GoodOption(opts[i])) /\ Once(opts, k)
           all1 == (\A i \in 1 .. k + 1 : GoodOption(opts[i])) /\ Once(opts, k + 1)
           new == TakeFlag(st, opts[k + 1])
<1>4. all1 <=> all /\ GoodOption(opts[k + 1]) /\ \A i \in 1 .. k : opts[i][1] # f
  BY <1>1, <1>2 DEF Once
<1>5. GoodOption(opts[k + 1]) => f \in {"-t", "-n", "-l"}
  BY <1>1 DEF GoodOption
<1>6. Fail.ok = FALSE
  BY DEF Fail
<1>7. CASE ~all
  <2>1. st = Fail /\ ~st.ok
    BY <1>6, <1>7 DEF After
  <2>2. new = Fail
    BY <2>1 DEF TakeFlag
  <2> QED
    BY <1>4, <1>7, <2>2 DEF After
<1>8. CASE all
  <2>1. Stored(opts, k, st)
    BY <1>8 DEF After
  <2>2. st.ok = TRUE
    BY <2>1 DEF Stored, Complete
  <2>3. f \in st.seen <=> \E i \in 1 .. k : opts[i][1] = f
    BY <2>1 DEF Stored, FlagsSeen
  <2>31. PICK sn, au, nf, nl :
           /\ st = [ok |-> TRUE, seen |-> sn, audio_samples |-> au, noise_file |-> nf, noise_level |-> nl]
           /\ sn = st.seen /\ au = st.audio_samples /\ nf = st.noise_file /\ nl = st.noise_level
    BY <2>1 DEF Stored, Complete
  <2>4. CASE f \notin {"-t", "-n", "-l"}
    <3>1. new = Fail
      BY <1>1, <2>4 DEF TakeFlag
    <3> QED
      BY <1>4, <1>5, <2>4, <3>1 DEF After
  <2>5. CASE f \in st.seen
    <3>1. new = Fail
      BY <1>1, <2>2, <2>5 DEF TakeFlag
    <3> QED
      BY <1>4, <2>3, <2>5, <3>1 DEF After
  <2>6. CASE f = "-t" /\ f \notin st.seen
    <3>1. new = ParseTime(st, a)
      BY <1>1, <2>2, <2>6 DEF TakeFlag
    <3>2. GoodOption(opts[k + 1]) <=> IsInt(a) /\ a[1] # Minus
      BY <1>1, <2>6 DEF GoodOption
    <3>3. Proper(a)
      BY <1>1, <2>6
    <3>4. CASE ~(IsInt(a) /\ a[1] # Minus)
      BY <1>3, <1>4, <3>1, <3>2, <3>3, <3>4, TimeParsed DEF After
    <3>5. CASE IsInt(a) /\ a[1] # Minus
      <4>1. new = [st EXCEPT !.seen = @ \cup {"-t"}, !.audio_samples = 8 * Spelled(a)]
        BY <1>3, <3>1, <3>3, <3>5, TimeParsed
      <4>2. new = [ok |-> TRUE, seen |-> st.seen \cup {"-t"}, audio_samples |-> 8 * Spelled(a),
                   noise_file |-> st.noise_file, noise_level |-> st.noise_level]
        BY <2>31, <4>1
      <4> HIDE DEF new
      <4>3. Stored(opts, k + 1, new)
        BY <1>1, <2>1, <2>6, <4>2, OptionStored
      <4> QED
        BY <1>4, <1>8, <2>3, <2>6, <3>2, <3>5, <4>3 DEF After, new
    <3> QED
      BY <3>4, <3>5
  <2>7. CASE f = "-l" /\ f \notin st.seen
    <3>1. new = ParseLevel(st, a)
      BY <1>1, <2>2, <2>7 DEF TakeFlag
    <3>2. GoodOption(opts[k + 1]) <=> IsInt(a) /\ Spelled(a) \in -30..30
      BY <1>1, <2>7 DEF GoodOption
    <3>3. Proper(a)
      BY <1>1, <2>7
    <3>4. CASE ~(IsInt(a) /\ Spelled(a) \in -30..30)
      BY <1>3, <1>4, <3>1, <3>2, <3>3, <3>4, LevelParsed DEF After
    <3>5. CASE IsInt(a) /\ Spelled(a) \in -30..30
      <4>1. new = [st EXCEPT !.seen = @ \cup {"-l"}, !.noise_level = Spelled(a)]
        BY <1>3, <3>1, <3>3, <3>5, LevelParsed
      <4>2. new = [ok |-> TRUE, seen |-> st.seen \cup {"-l"}, audio_samples |-> st.audio_samples,
                   noise_file |-> st.noise_file, noise_level |-> Spelled(a)]
        BY <2>31, <4>1
      <4> HIDE DEF new
      <4>3. Stored(opts, k + 1, new)
        BY <1>1, <2>1, <2>7, <4>2, OptionStored
      <4> QED
        BY <1>4, <1>8, <2>3, <2>7, <3>2, <3>5, <4>3 DEF After, new
    <3> QED
      BY <3>4, <3>5
  <2>8. CASE f = "-n" /\ f \notin st.seen
    <3>1. new = [st EXCEPT !.seen = @ \cup {"-n"}, !.noise_file = a]
      BY <1>1, <2>2, <2>8 DEF TakeFlag
    <3>2. GoodOption(opts[k + 1])
      BY <1>1, <2>8 DEF GoodOption
    <3>3. new = [ok |-> TRUE, seen |-> st.seen \cup {"-n"}, audio_samples |-> st.audio_samples,
                 noise_file |-> a, noise_level |-> st.noise_level]
      BY <2>31, <3>1
    <3> HIDE DEF new
    <3>4. Stored(opts, k + 1, new)
      BY <1>1, <2>1, <2>8, <3>3, OptionStored
    <3> QED
      BY <1>4, <1>8, <2>3, <2>8, <3>2, <3>4 DEF After, new
  <2> QED
    BY <2>4, <2>5, <2>6, <2>7, <2>8
<1> QED
  BY <1>7, <1>8

(* All the options of -g: at most three can each be given once.            *)
LEMMA GenerateRead ==
    ASSUME NEW opts \in Options,
           \A i \in 1 .. Len(opts) : opts[i][1] # "-n" => Proper(opts[i][2])
    PROVE  After(opts, Len(opts), GenerateOptions(opts))
<1>0. Len(opts) \in Nat
  BY DEF Options
<1>1. After(opts, 0, NoFlags)
  BY DEF After, Stored, Complete, FlagsSeen, TimeStored, LevelStored, FileStored, Once, NoFlags
<1>2. ASSUME NEW k \in Nat, NEW n, n = k + 1, n <= Len(opts), NEW st, After(opts, k, st)
       PROVE  After(opts, n, TakeFlag(st, opts[n]))
  <2>1. k \in 0 .. Len(opts) - 1 /\ k + 1 \in 1 .. Len(opts)
    BY <1>0, <1>2
  <2>2. opts[k + 1][1] # "-n" => Proper(opts[k + 1][2])
    BY <2>1
  <2> QED
    BY <1>2, <2>1, <2>2, FlagTaken
<1>3. Len(opts) >= 1 => After(opts, 1, OneFlag(opts))
  BY <1>0, <1>1, <1>2 DEF OneFlag
<1>4. Len(opts) >= 2 => After(opts, 2, TwoFlags(opts))
  BY <1>0, <1>3, <1>2 DEF TwoFlags
<1>5. Len(opts) >= 3 => After(opts, 3, ThreeFlags(opts))
  BY <1>0, <1>4, <1>2 DEF ThreeFlags
<1>6. CASE Len(opts) \in 0 .. 3
  <2>1. CASE Len(opts) = 0
    BY <1>1, <2>1 DEF GenerateOptions
  <2>2. CASE Len(opts) = 1
    BY <1>3, <2>2 DEF GenerateOptions
  <2>3. CASE Len(opts) = 2
    BY <1>4, <2>3 DEF GenerateOptions
  <2>4. CASE Len(opts) = 3
    BY <1>5, <2>4 DEF GenerateOptions
  <2> QED
    BY <1>6, <2>1, <2>2, <2>3, <2>4
<1>7. CASE Len(opts) > 3
  <2>1. GenerateOptions(opts) = Fail
    <3>1. Len(opts) # 0 /\ Len(opts) # 1 /\ Len(opts) # 2 /\ Len(opts) # 3
      BY <1>0, <1>7
    <3> QED
      BY Zenon, <3>1 DEF GenerateOptions
  <2>2. 1 \in 1 .. Len(opts) /\ 2 \in 1 .. Len(opts) /\ 3 \in 1 .. Len(opts) /\ 4 \in 1 .. Len(opts)
    BY <1>0, <1>7
  <2>3. \A i \in 1 .. Len(opts) : GoodOption(opts[i]) => opts[i][1] \in {"-t", "-n", "-l"}
    BY DEF GoodOption
  <2>4. ASSUME \A i \in 1 .. Len(opts) : GoodOption(opts[i]), Once(opts, Len(opts)) PROVE FALSE
    <3>1. PICK w, x, y, z : w = opts[1][1] /\ x = opts[2][1] /\ y = opts[3][1] /\ z = opts[4][1]
      OBVIOUS
    <3>2. {w, x, y, z} \subseteq {"-t", "-n", "-l"}
      BY <2>2, <2>3, <2>4, <3>1
    <3>3. w # x /\ w # y /\ w # z /\ x # y /\ x # z /\ y # z
      BY <2>2, <2>4, <3>1 DEF Once
    <3> QED
      BY <3>2, <3>3
  <2> QED
    BY <2>1, <2>4 DEF After
<1>8. Len(opts) \in 0 .. 3 \/ Len(opts) > 3
  <2>1. \A n \in Nat : n \in 0 .. 3 \/ n > 3
    OBVIOUS
  <2> QED
    BY Zenon, <1>0, <2>1
<1> QED
  BY <1>6, <1>7, <1>8

(* A command line of numbers that fit, as OptionsAsGiven supposes, and     *)
(* what it says of the globals set for it.                                 *)
ProperLine(line) ==
    \A i \in DOMAIN line.opts : line.opts[i][1] # "-n" => Proper(line.opts[i][2])

AsGiven(line, o) ==
    /\ o.ok <=> Permitted(line)
    /\ (o.ok /\ line.mode = "-g") =>
         /\ o.audio_samples = 8 * Spelled(Given(line, "-t", <<1, 0, 0, 0>>))
         /\ o.noise_level = Spelled(Given(line, "-l", <<0>>))
         /\ o.noise_file = Given(line, "-n", NULL)
    /\ (o.ok /\ line.mode = "-d") =>
         o.block_size = Spelled(Given(line, "-b", <<1, 0, 0>>))

(* The argument of a flag that is given once is that of its option.        *)
LEMMA GivenOption ==
    ASSUME NEW line, NEW flag, NEW default
    PROVE  IF \E i \in DOMAIN line.opts : line.opts[i][1] = flag
           THEN \E i \in DOMAIN line.opts :
                  line.opts[i][1] = flag /\ Given(line, flag, default) = line.opts[i][2]
           ELSE Given(line, flag, default) = default
<1> DEFINE at == {i \in DOMAIN line.opts : line.opts[i][1] = flag}
<1>1. Given(line, flag, default) =
        IF at = {} THEN default ELSE line.opts[CHOOSE i \in at : TRUE][2]
  BY DEF Given
<1>2. at # {} => (CHOOSE i \in at : TRUE) \in at
  OBVIOUS
<1> QED
  BY <1>1, <1>2

(* What the usage text permits, option by option.                          *)
OptionOf(mode, f, a) ==
    CASE mode = "-g" /\ f = "-t" -> IsInt(a) /\ a[1] # Minus
      [] mode = "-g" /\ f = "-n" -> TRUE
      [] mode = "-g" /\ f = "-l" -> IsInt(a) /\ Spelled(a) \in -30..30
      [] mode = "-d" /\ f = "-b" -> IsInt(a) /\ Spelled(a) \in 10..1000
      [] OTHER -> FALSE

(* Permitted is OptionOf for each option.                                  *)
LEMMA PermittedOptions ==
    ASSUME NEW line
    PROVE  Permitted(line) <=>
             \/ line.mode = "-h"
             \/ /\ line.mode \in {"-g", "-d"} /\ ~line.odd
                /\ \A i, j \in DOMAIN line.opts : line.opts[i][1] = line.opts[j][1] => i = j
                /\ \A i \in DOMAIN line.opts :
                     OptionOf(line.mode, line.opts[i][1], line.opts[i][2])
BY DEF Permitted, OptionOf

(* The options of -g, given and stored.                                    *)
LEMMA GenerateAsGiven ==
    ASSUME NEW line \in CommandLines, ProperLine(line), line.mode = "-g", ~line.odd
    PROVE  AsGiven(line, GenerateOptions(line.opts))
<1>1. PICK opts : opts = line.opts
  OBVIOUS
<1>2. opts \in Options
  BY <1>1 DEF CommandLines, Options
<1>3. Len(opts) \in Nat /\ DOMAIN opts = 1 .. Len(opts)
  BY <1>2 DEF Options
<1>4. PICK o : o = GenerateOptions(opts)
  OBVIOUS
<1>5. After(opts, Len(opts), o)
  <2>1. \A i \in 1 .. Len(opts) : opts[i][1] # "-n" => Proper(opts[i][2])
    BY <1>1, <1>3 DEF ProperLine
  <2> QED
    BY <1>2, <1>4, <2>1, GenerateRead
<1>6. Permitted(line) <=> (\A i \in 1 .. Len(opts) : GoodOption(opts[i])) /\ Once(opts, Len(opts))
  <2>1. ASSUME NEW i \in DOMAIN opts
        PROVE  GoodOption(opts[i]) <=> OptionOf(line.mode, line.opts[i][1], line.opts[i][2])
    BY <1>1 DEF GoodOption, OptionOf
  <2> QED
    BY <1>1, <1>3, <2>1, PermittedOptions DEF Once
<1>7. CASE ~Permitted(line)
  <2>1. o.ok = FALSE
    BY <1>5, <1>6, <1>7 DEF After, Fail
  <2> QED
    BY <1>1, <1>4, <1>7, <2>1 DEF AsGiven
<1>8. CASE Permitted(line)
  <2>1. Complete(o) /\ FlagsSeen(opts, Len(opts), o) /\ TimeStored(opts, Len(opts), o)
        /\ LevelStored(opts, Len(opts), o) /\ FileStored(opts, Len(opts), o)
    BY <1>5, <1>6, <1>8 DEF After, Stored
  <2>2. o.ok = TRUE
    BY <2>1 DEF Complete
  <2>3. \A flag : flag \in o.seen <=> \E i \in DOMAIN line.opts : line.opts[i][1] = flag
    BY <1>1, <1>3, <2>1 DEF FlagsSeen
  <2>4. o.audio_samples = 8 * Spelled(Given(line, "-t", <<1, 0, 0, 0>>))
    <3>1. CASE "-t" \in o.seen
      <4>1. PICK i \in DOMAIN line.opts :
              line.opts[i][1] = "-t" /\ Given(line, "-t", <<1, 0, 0, 0>>) = line.opts[i][2]
        BY <2>3, <3>1, GivenOption
      <4> QED
        BY <1>1, <1>3, <2>1, <3>1, <4>1 DEF TimeStored
    <3>2. CASE "-t" \notin o.seen
      <4>1. Given(line, "-t", <<1, 0, 0, 0>>) = <<1, 0, 0, 0>>
        BY <2>3, <3>2, GivenOption
      <4>2. o.audio_samples = 8000
        BY <2>1, <3>2 DEF TimeStored
      <4> QED
        BY <4>1, <4>2, Defaults
    <3> QED
      BY <3>1, <3>2
  <2>5. o.noise_level = Spelled(Given(line, "-l", <<0>>))
    <3>1. CASE "-l" \in o.seen
      <4>1. PICK i \in DOMAIN line.opts :
              line.opts[i][1] = "-l" /\ Given(line, "-l", <<0>>) = line.opts[i][2]
        BY <2>3, <3>1, GivenOption
      <4> QED
        BY <1>1, <1>3, <2>1, <3>1, <4>1 DEF LevelStored
    <3>2. CASE "-l" \notin o.seen
      <4>1. Given(line, "-l", <<0>>) = <<0>>
        BY <2>3, <3>2, GivenOption
      <4>2. o.noise_level = 0
        BY <2>1, <3>2 DEF LevelStored
      <4> QED
        BY <4>1, <4>2, Defaults
    <3> QED
      BY <3>1, <3>2
  <2>6. o.noise_file = Given(line, "-n", NULL)
    <3>1. CASE "-n" \in o.seen
      <4>1. PICK i \in DOMAIN line.opts :
              line.opts[i][1] = "-n" /\ Given(line, "-n", NULL) = line.opts[i][2]
        BY <2>3, <3>1, GivenOption
      <4> QED
        BY <1>1, <1>3, <2>1, <3>1, <4>1 DEF FileStored
    <3>2. CASE "-n" \notin o.seen
      BY <2>1, <2>3, <3>2, GivenOption DEF FileStored
    <3> QED
      BY <3>1, <3>2
  <2> QED
    BY <1>1, <1>4, <1>8, <2>2, <2>4, <2>5, <2>6 DEF AsGiven
<1> QED
  BY <1>7, <1>8

(* -b is the only option of -d.                                            *)
LEMMA DetectAsGiven ==
    ASSUME NEW line \in CommandLines, ProperLine(line), line.mode = "-d", ~line.odd
    PROVE  AsGiven(line, DetectOptions(line.opts))
<1>1. PICK opts : opts = line.opts
  OBVIOUS
<1>2. opts \in Seq(STRING \X Seq(Int)) /\ Len(opts) \in Nat /\ DOMAIN opts = 1 .. Len(opts)
  BY <1>1 DEF CommandLines
<1>3. Fail.ok = FALSE
  BY DEF Fail
<1>4. \A i \in DOMAIN opts : Permitted(line) => opts[i][1] = "-b"
  BY <1>1 DEF Permitted
<1>5. CASE Len(opts) = 0
  <2>1. Permitted(line)
    BY <1>1, <1>2, <1>5 DEF Permitted
  <2>2. Given(line, "-b", <<1, 0, 0>>) = <<1, 0, 0>>
    BY <1>1, <1>2, <1>5, GivenOption
  <2>3. DetectOptions(opts) = [ok |-> TRUE, block_size |-> 100]
    BY <1>5 DEF DetectOptions
  <2> QED
    BY <1>1, <2>1, <2>2, <2>3, Defaults DEF AsGiven
<1>6. CASE Len(opts) = 1
  <2>1. PICK f, a : f = opts[1][1] /\ a = opts[1][2]
    OBVIOUS
  <2>2. 1 \in DOMAIN opts /\ DOMAIN opts = {1} /\ opts[1] \in STRING \X Seq(Int) /\ a \in Seq(Int)
    <3>1. DOMAIN opts = {1}
      BY <1>2, <1>6
    <3>2. \A i \in DOMAIN opts : opts[i] \in STRING \X Seq(Int)
      BY <1>2
    <3>3. opts[1] \in STRING \X Seq(Int)
      BY Zenon, <3>1, <3>2
    <3> QED
      BY <2>1, <3>1, <3>3
  <2>3. CASE f # "-b"
    <3>1. DetectOptions(opts) = Fail
      BY <1>6, <2>1, <2>3 DEF DetectOptions
    <3>2. ~Permitted(line)
      BY <1>4, <2>1, <2>2, <2>3
    <3> QED
      BY <1>1, <1>3, <3>1, <3>2 DEF AsGiven
  <2>4. CASE f = "-b"
    <3>1. Permitted(line) <=> IsInt(a) /\ Spelled(a) \in 10..1000
      <4>1. line.opts[1][1] = "-b" /\ line.opts[1][2] = a /\ DOMAIN line.opts = {1}
        BY <1>1, <2>1, <2>2, <2>4
      <4>2. OptionOf("-d", "-b", a) <=> IsInt(a) /\ Spelled(a) \in 10..1000
        BY DEF OptionOf
      <4>3. \A i, j \in DOMAIN line.opts : line.opts[i][1] = line.opts[j][1] => i = j
        BY <4>1
      <4>4. (\A i \in DOMAIN line.opts : OptionOf(line.mode, line.opts[i][1], line.opts[i][2]))
            <=> OptionOf("-d", "-b", a)
        BY Zenon, <4>1
      <4> QED
        BY <4>2, <4>3, <4>4, PermittedOptions
    <3>2. Proper(a)
      BY <1>1, <2>1, <2>2, <2>4 DEF ProperLine
    <3>3. Given(line, "-b", <<1, 0, 0>>) = a
      <4>1. 1 \in DOMAIN line.opts /\ line.opts[1][1] = "-b"
        BY <1>1, <2>1, <2>2, <2>4
      <4>2. PICK i \in DOMAIN line.opts : Given(line, "-b", <<1, 0, 0>>) = line.opts[i][2]
        BY <4>1, GivenOption
      <4>3. i = 1
        BY <1>1, <2>2, <4>2
      <4> QED
        BY <1>1, <2>1, <4>2, <4>3
    <3>4. CASE a # <<>> /\ AllDigits(a)
      <4>1. 1 \in DOMAIN a /\ a[1] \in 0 .. 9 /\ a[1] # Minus
        BY <2>2, <3>4 DEF AllDigits, Minus
      <4>2. IsInt(a) /\ Spelled(a) = Decimal(a) /\ 8 * Decimal(a) <= INT_MAX
        BY <3>2, <3>4, <4>1 DEF IsInt, Spelled, Proper
      <4>3. PICK n : n = Decimal(a)
        OBVIOUS
      <4>4. n \in Nat /\ n <= INT_MAX
        BY <2>2, <3>4, <4>2, <4>3, DigitsRead, IntMaxNat
      <4>5. Number(a) = n
        BY <2>2, <3>4, <4>3, <4>4, DigitsRead
      <4>6. DetectOptions(opts) =
              IF n \in 10..1000 THEN [ok |-> TRUE, block_size |-> n] ELSE Fail
        BY <1>6, <2>1, <2>4, <3>4, <4>5 DEF DetectOptions
      <4>7. CASE n \in 10 .. 1000
        <5>1. DetectOptions(opts).ok = TRUE /\ DetectOptions(opts).block_size = n
          BY <4>6, <4>7
        <5> QED
          BY <1>1, <3>1, <3>3, <4>2, <4>3, <4>7, <5>1 DEF AsGiven
      <4>8. CASE n \notin 10 .. 1000
        BY <1>1, <1>3, <3>1, <4>2, <4>3, <4>6, <4>8 DEF AsGiven
      <4> QED
        BY <4>7, <4>8
    <3>5. CASE ~(a # <<>> /\ AllDigits(a))
      <4>1. DetectOptions(opts) = Fail
        BY <1>6, <2>1, <2>4, <3>5 DEF DetectOptions
      <4>2. ~(IsInt(a) /\ Spelled(a) \in 10..1000)
        <5> SUFFICES ASSUME IsInt(a), Spelled(a) \in 10..1000 PROVE FALSE
          OBVIOUS
        <5>1. a # <<>> /\ a[1] = Minus /\ Len(a) > 1 /\ AllDigits(Tail(a))
          BY <3>5 DEF IsInt
        <5>2. Spelled(a) = -Decimal(Tail(a)) /\ Tail(a) \in Seq(Int)
          BY <2>2, <5>1 DEF Spelled
        <5>3. Decimal(Tail(a)) \in Nat
          BY <5>1, <5>2, DigitsRead
        <5>4. PICK m : m = Decimal(Tail(a))
          OBVIOUS
        <5>5. m \in Nat /\ Spelled(a) = -m
          BY <5>2, <5>3, <5>4
        <5>6. PICK z : z = Spelled(a)
          OBVIOUS
        <5>7. z = -m /\ z \in 10 .. 1000
          BY Zenon, <5>5, <5>6
        <5> QED
          BY <5>5, <5>7
      <4> QED
        BY <1>1, <1>3, <3>1, <4>1, <4>2 DEF AsGiven
    <3> QED
      BY <3>4, <3>5
  <2> QED
    BY <2>3, <2>4
<1>7. CASE Len(opts) > 1
  <2>1. DetectOptions(opts) = Fail
    <3>1. \A n : n > 1 => n # 0 /\ n # 1
      OBVIOUS
    <3>2. Len(opts) # 0 /\ Len(opts) # 1
      BY Zenon, <1>7, <3>1
    <3> QED
      BY Zenon, <3>2 DEF DetectOptions
  <2>2. 1 \in DOMAIN opts /\ 2 \in DOMAIN opts
    BY <1>2, <1>7
  <2>3. ~Permitted(line)
    <3> SUFFICES ASSUME Permitted(line) PROVE FALSE
      OBVIOUS
    <3>1. opts[1][1] = opts[2][1]
      BY <1>4, <2>2
    <3>2. \A i, j \in DOMAIN opts : opts[i][1] = opts[j][1] => i = j
      BY <1>1 DEF Permitted
    <3> QED
      BY <2>2, <3>1, <3>2
  <2> QED
    BY <1>1, <1>3, <2>1, <2>3 DEF AsGiven
<1>8. Len(opts) = 0 \/ Len(opts) = 1 \/ Len(opts) > 1
  BY <1>2
<1> QED
  BY <1>5, <1>6, <1>7, <1>8

(* validargs stores what the command line says and refuses what the usage  *)
(* text does not permit.                                                   *)
LEMMA ArgumentsAsGiven ==
    ASSUME NEW line \in CommandLines, ProperLine(line)
    PROVE  AsGiven(line, validargs(line))
<1>1. line.odd \in BOOLEAN
  BY DEF CommandLines
<1>2. CASE line.mode = "-h"
  BY <1>2 DEF validargs, AsGiven, Permitted
<1>3. CASE line.mode = "-g" /\ ~line.odd
  BY <1>3, GenerateAsGiven DEF validargs
<1>4. CASE line.mode = "-d" /\ ~line.odd
  BY <1>4, DetectAsGiven DEF validargs
<1>5. CASE line.mode # "-h" /\ ~(line.mode \in {"-g", "-d"} /\ ~line.odd)
  <2>1. validargs(line) = Fail
    BY <1>5 DEF validargs
  <2>2. ~Permitted(line)
    BY <1>5 DEF Permitted
  <2> QED
    BY <2>1, <2>2 DEF AsGiven, Fail
<1> QED
  BY <1>2, <1>3, <1>4, <1>5

(* The globals of a process that has left main are those validargs set.    *)
OptionsSet ==
    /\ argv["gen"] \in CommandLines /\ argv["det"] \in CommandLines
    /\ \A p \in {"gen", "det"} :
         pc[p] \notin {"main", "absent"} => glob[p] = validargs(argv[p])

(* At the start every process is in main.                                  *)
LEMMA OptionsSetAtInit == Init => OptionsSet
<1> SUFFICES ASSUME Init PROVE OptionsSet
  OBVIOUS
<1>1. PICK s \in Scenarios : argv = [gen |-> s.gen, det |-> s.det, recordings |-> s.recordings]
  BY DEF Init
<1>2. s.gen \in CommandLines /\ s.det \in CommandLines
  BY Zenon, DtmfAssumption
<1>3. argv["gen"] = s.gen /\ argv["det"] = s.det
  BY <1>1
<1>4. \A p \in {"gen", "det"} : pc[p] = "main"
  BY DEF Init
<1> QED
  BY <1>2, <1>3, <1>4 DEF OptionsSet

(* Only main sets the globals.                                             *)
LEMMA OptionsSetKept ==
    ASSUME IInv, OptionsSet, [Next]_vars
    PROVE  OptionsSet'
<1>1. Types
  BY DEF IInv
<1>2. pc \in [{"gen", "det"} -> Labels] /\ glob = [gen |-> glob.gen, det |-> glob.det]
  BY <1>1 DEF Types
<1>3. ASSUME NEW p \in {"gen", "det"}, Main(p) PROVE OptionsSet'
  <2>1. argv' = argv /\ glob' = [glob EXCEPT ![p] = validargs(argv[p])]
    BY <1>3 DEF Main
  <2>2. \E l : pc' = [pc EXCEPT ![p] = l]
    BY <1>3 DEF Main, Goto
  <2>3. \A q \in {"gen", "det"} : q # p => pc'[q] = pc[q] /\ glob'[q] = glob[q]
    BY <1>2, <2>1, <2>2
  <2>4. glob'[p] = validargs(argv[p])
    BY <1>2, <2>1
  <2> QED
    BY <2>1, <2>3, <2>4 DEF OptionsSet
<1>4. ASSUME NEW p \in {"gen", "det"}, NEW l, l \in {"absent"} \/ pc[p] \notin {"main", "absent"},
             UNCHANGED <<argv, glob>>, pc' = [pc EXCEPT ![p] = l]
      PROVE  OptionsSet'
  <2>1. \A q \in {"gen", "det"} : pc'[q] = IF q = p THEN l ELSE pc[q]
    BY <1>2, <1>4
  <2> QED
    BY <1>4, <2>1 DEF OptionsSet
<1>5. CASE UNCHANGED <<argv, glob, pc>>
  BY <1>5 DEF OptionsSet
<1>6. CASE Play
  BY <1>4, <1>6 DEF Play, Goto
<1>7. CASE GenLine
  <2>1. pc["gen"] = "generate" /\ UNCHANGED <<argv, glob>>
        /\ (UNCHANGED pc \/ pc' = [pc EXCEPT !["gen"] = "failed"])
    BY <1>7 DEF GenLine, Goto
  <2> QED
    BY <1>4, <1>5, <2>1
<1>8. CASE GenEnd \/ GenHang
  <2>1. pc["gen"] = "generate" /\ UNCHANGED <<argv, glob>>
        /\ \E l : pc' = [pc EXCEPT !["gen"] = l]
    BY <1>8 DEF GenEnd, GenHang, Goto
  <2> QED
    BY <1>4, <2>1
<1>9. CASE DetHeader
  <2>1. pc["det"] = "header" /\ UNCHANGED <<argv, glob>>
        /\ \E l : pc' = [pc EXCEPT !["det"] = l]
    BY <1>9 DEF DetHeader, Goto
  <2> QED
    BY <1>4, <2>1
<1>10. CASE DetBlock
  BY <1>5, <1>10 DEF DetBlock
<1>11. CASE DetEnd
  <2>1. pc["det"] = "block" /\ UNCHANGED <<argv, glob>>
        /\ \E l : pc' = [pc EXCEPT !["det"] = l]
    BY <1>11 DEF DetEnd, Goto
  <2> QED
    BY <1>4, <2>1
<1>12. CASE UNCHANGED vars
  BY <1>5, <1>12 DEF vars
<1> QED
  BY <1>3, <1>6, <1>7, <1>8, <1>9, <1>10, <1>11, <1>12 DEF Next

(* validargs accepts exactly the command lines of the usage text, with the *)
(* flags in any order, and stores what they say, the defaults for the      *)
(* flags left out: for every command line whose numbers fit an int.        *)
THEOREM ArgumentsStored == Spec => []OptionsAsGiven
<1>1. OptionsSet => OptionsAsGiven
  <2> SUFFICES ASSUME OptionsSet, NEW p \in {"gen", "det"},
                      pc[p] \notin {"main", "absent"}, ProperLine(argv[p])
               PROVE  AsGiven(argv[p], glob[p])
    BY DEF OptionsAsGiven, AsGiven, ProperLine
  <2>1. argv[p] \in CommandLines /\ glob[p] = validargs(argv[p])
    BY DEF OptionsSet
  <2> QED
    BY <2>1, ArgumentsAsGiven
<1>2. IInv /\ OptionsSet /\ [Next]_vars => OptionsSet'
  BY OptionsSetKept
<1> QED
  BY <1>1, <1>2, OptionsSetAtInit, Invariance, PTL DEF Spec
=============================================================================
