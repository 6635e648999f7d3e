# world4utau in TLA+

`world4utau` renders one note of a singing voice: it reads a recorded wav,
analyses it (pitch with DIO, envelope with STAR, residual with PLATINUM), maps
the frames of the note to frames of the recording, and synthesises the result.
An editor (UTAU, OpenUTAU) starts one process per note, often several at once on
the same wav. The analysis is kept in three files beside the wav, and a batch
tool fills them in advance. Nothing else is shared between processes.

This directory holds the specifications of that program, the TLC models that
check them, and the proofs that TLAPS checks. Line numbers are those of the
sources under `src/src/` (and `src/tool/`).

## The system

| part | code | state | operations | what is hard | what makes it right | module |
|---|---|---|---|---|---|---|
| analysis cache | world4utau.c 194-673, 844-914 | `.dio`, `.star`, `.platinum` | read and accept three headers; truncate, write, close three files | no lock, no temporary file, no check of the frames, results of `fwrite` and `fclose` unused | a closed file is whole; a hit that met no writer is whole; a file is of one version | AnalysisCache, VoiceCache |
| quantisation | the same, and 676-768 | a row of a spectrum, a residual | write, read back, stretch | `log(0)`, a logarithm that is steep near 0, shorts that wrap | a later note differs from the first by rounding | ParamCodec |
| batch tool | tool/main.c | the same files | `generateParams` for every wav of a directory | runs beside the editor, makes files where it walks | every wav is served from itself, what fits is kept | BatchTool |
| DIO events | dio.c 24-155, 327-517; matlab.c | decimated signal, band filters, crossings, candidates | decimate, filter, search, choose | bands without events, samples of 0, ends of buffers | a sample written before it is read; trains in order; the steadiest band | Decimate, DioFilter, ZeroCrossing, Interp1, DioBands |
| pitch track | dio.c 158-324 | `f0Step2..4`, island indices | cut islands, extend forward, extend backward | indices past the last island, arrays rewritten while read | stays in the map, ends, invents no pitch, head unvoiced | DioPostprocess |
| PLATINUM islands | platinum.c 165-215 | `stList`, `edList` | count, allocate, list | two passes that must agree | lists fit and tile the track | VoiceIslands |
| PLATINUM pulses | platinum.c 9-151, 217-265 | wedges, pulses, residual | wedge, phase, pulses, frames | windows past the signal, islands that meet | pulses in order, a cycle apart; a frame has its own residual, or the one before | Pulses |
| STAR envelope | star.c | segment, mirrored spectrum | segment, spectrum, smooth | FFT length against the floor pitch | indices in the buffers, no shift | Star |
| time map | world4utau.c 922-1007, 1091-1121 | the note's arguments | check, clamp, map frames | signs, divisions by zero | in order, no jump, up to the blank and not past it | TimeMap |
| pitch curve | world4utau.c 76-192, 1041-1069, 1123-1132 | `pit`, `f0out` | decode, interpolate | run lengths, the end of the curve | decoded as encoded; indices within the curve | Decpit, PitchBend |
| synthesis | synthesis.c | `currentTime`, `currentFrame`, `synthesisOut` | add one response per period | end conditions, pitches of 0 or NaN | frames exist, no gap but of too low a pitch, the loop ends | Synthesis |
| responses | synthesis.c 24-104, platinum.c 9-79, fft.c 1-129 | two spectra, packed rows, plans | pack, unpack, transform | counted from 0 on one side and from 1 on the other; arrays used again | the response is the segment PLATINUM took, or the one carried over | Spectra |
| level and header | world4utau.c 770-786, 1236-1290 | `output`, `header` | normalise, clip, write | header fields of 8 bytes | the file is read back as it was meant | Floats, WavOut, RoundTrip |
| wav reader | wavread.c, MemFile.c | a copy of the file, a cursor | open, read, seek | short reads that leave the buffer | every sample is of the file | MemFile, WavRead |
| resources | world4utau.c main | blocks of memory | allocate, free on each exit | half loaded caches | freed once; arrays of one origin | Resampler |

The parts form a pipeline within a process: cache or (wav reader, DIO, STAR,
PLATINUM) → time map and pitch curve → synthesis → header and file. A part
leans on what another establishes: PLATINUM's lists on the unvoiced head of the
track (`TrackKept`), STAR on DIO's floor (`NyquistAssumption`), PLATINUM's
pulses on its ceiling (`PeriodAssumption` of Pulses), `m_interp1` on sorted trains
(`TrainsSound`), the output header on `wavread` of the next note. Between
processes there are only the three files and the wavs.

`PROJECT.json` has the full list of hazards with their lines.

## The modules

**AnalysisCache** - the three files and the processes on one wav. A file is a
row of `Blocks` stdio buffers, the first with the header; a buffer holds the
version of the wav it was computed from. Actions: `Invoke`, `StatCache`
(`OpenMemFile` up to `ftell`), `ReadCache` (the `fread`, the header checks, and
the frames taken unchecked), `ReadWav`, `OpenCache` (`fopen "wb"` truncates),
`WriteBlock` (a buffer is flushed at the writer's own offset, with a hole before
it when another process has truncated the file), `SkipCache` (`fopen` fails),
`DiskFull`, `FailAnalysis` (out of memory), `Crash`, `EditWav`. The headers are
abstracted to what the readers compare: magic, length and rate (`Sig`), and the
frame count that is stored in 16 bits (`Long`). Specifications: `QuietSpec` (any
number of processes, nothing fails), `CleanSerialSpec` (one at a time, edits and
failing analyses), `SerialSpec` (also kills and full disks), `Spec` (all at
once).

**VoiceCache** - what that cache promises, without files: a store with the
analysis of one version, or nothing. `AnalysisCache` implements it
(`VC == INSTANCE VoiceCache WITH ...`): the store is the version of three whole
files, a job is what a process that misses analyses, a voice what it renders
from.

**ParamCodec** - one row of the spectrogram, as steps of its stored logarithm,
and one value of the residual: `Write`, `RenderFirst`, `Read` and `RenderLater`,
each rendering with the stretching of flag g. The file keeps log(s * 2^33 + 1), the
stretching takes log(s): `Ln` goes from the one to the other, and is given by its slope.

**BatchTool** - `readdir` over a directory to which the tool adds. A name is its
parts between dots, the first of them empty in a hidden name, which the tool
passes over. `NoWav`, `AlreadyProcessed` and `GenerateParams` are the
outcomes of the tests on it. Analysis files may be there before the walk: of some
earlier analysis (`Earlier`), of several, or such that no reader takes them
(`Unfit`); `madeFrom` tells them from those the walk makes. The tool does not look
at the wav when the three are there and fit each other, so that an analysis of what
the wav was once stays. Which of the new files `readdir` returns is open,
as in POSIX.

**Decimate** - the buffers of `m_decimateForF0` and the mean over its result: of
samples, only where they are read and written. **DioFilter** - one band: window,
spectrum, product, inverse transform, shift; an element is the set of samples it
is made of. **ZeroCrossing** - the four searches in one buffer, on integer
samples; `Search` keeps the floor of the product test, the fine place and the
intervals. **Interp1** - `m_histc` and `m_interp1` as the two-index walk they
are. **DioBands** - the candidates of a frame out of every band, with the two
arrays the bands share, and the choice.

**DioPostprocess** - `postprocessing()`. `CutIslands` (steps 1 and 2),
`DetectIslands`, and one action for each turn of the loops of steps 3 and 4,
with `EndForward` and `EndBackward` where a loop runs out. A frame has a column
of candidates, one of them the best. The read of `positiveIndex` past its last
entry is a choice, and the write `negativeIndex[j] = j` is there as in the code.

**VoiceIslands** - the head of `platinum()`: `Count`, `Allocate`, `List`. The
branch for a voiced first frame (187-200) is never taken, by `TrackKept`. The
history variable `changes` numbers the islands for the proof. **Pulses** - the
rest of it: the wedge of an island near any sample that may be the loudest, the
phase with its cycle, the pulses, and the residual of a frame, which a window
past the signal leaves as it was. **Star** - `starGeneralBody` for one frame:
which sample and which bin each element is made of.

**TimeMap** - argument checks (`Refuse`, `Accept`) and the source position of
each output frame (`MapFrame`). Times are integers, positions fractions, so that
nothing is rounded that the code does not round. **Decpit** - the two-character
steps, `#n#` runs, the steps back of `i`, and what `sscanf` leaves in `num`.
**PitchBend** - `name2freq` and, for each output frame, the index into the curve,
the pitch as a power of the modulation, and the rows it is taken from.

**Synthesis** - the loop of `synthesis()`: `AddResponse`, and `AddResponseNaN`
for a pitch that is not a number. Of the samples the model keeps which have been
added to. The pitch is what the note asks for, so that a period is as long as it
likes, and a response of three quarters of `Fftl` need not reach the next one;
the history variable `turns` has the times of the responses. **Spectra** - the way of a frame from `getOneFrameResidualSpec` to the
response, over arrays in which an element says of what frame and bin it is, and
with the plans that each transform needs. The array of the quotients is one for all
frames (`tmpResidualSpec`): a frame without a window (`NoWindow`) stores what it holds.

**WavOut** - level, clipping, `makeHeader` as a sequence of overlapping stores
of 4 or 8 bytes, and the bytes of the file. **Floats** gives the
doubles it needs as fractions with infinities and NaN. **MemFile** and
**WavRead** - `wavread()`, with every read through `ReadMemFile`, the chunk
skipping, and what the buffers keep when a read fails. **RoundTrip** is the
composition of the two: `Reader == INSTANCE WavRead`, started on the bytes that
`WavOut` has written, cut at any of them because no `fwrite` is checked, or on
a wav of somebody else.

**Resampler** - `main()` as the owner of its memory: `ReadDIO` and the rows of
two spectrograms, read or computed (`Array`, `Row`, `RowFails`, `RowCleared`,
`RowsDone`), `GiveUpLoad`, the arguments, the arrays of the output, and the frees
of every exit. A block is the call that made it and a row.

`MC*` modules give the constants their values. `*Proofs` modules hold the
proofs. Names that would clash when modules are put together carry the tag of
their module (`filterPc`, `BandsInit`, `tmi`).

## Runs

Each MC module holds the parts of one stage of the pipeline, in one run. What
one part hands to the next is abstracted in both, so they share no state: a
behaviour picks one (`stage`, `analysis`, `work`, `part`) and runs it on every
input, the others keep one value. Parts that do interact are composed:
processes over the files (`AnalysisCache`), writer and reader of a wav
(`RoundTrip`), allocation and cache state (`Resampler`), the walk and the files
it makes (`BatchTool`).

| run | specification and bounds | shows |
|---|---|---|
| cache_quiet | `QuietSpec`, 3 processes, 2 buffers | `SettledComplete`, `HitSound`, `FilledAtLast`: all end, with the cache whole |
| cache_serial | `SerialSpec`, 2 processes, 3 versions, 2 buffers | `PrefixOfOneVersion` after kills, full disks and edits |
| cache_implements | `CleanSerialSpec`, 3 processes, 3 versions | `ImplementsVoiceCache`, `StoreIsForever` |
| cache_wav_read | `QuietSpec` | the comment at 205 is not what the code does |
| dio | signals of 10 to 60 samples at 11 rates; 7 bands at 4 rates; all signals of 10 samples of 3 values; all sorted grids of 2 to 4 places; 4 bands at their limits; all tracks of 10 frames of 3 columns | `MeanOfWritten`, `BuffersFit`, `CentredOnSample`, `Apart`, `TrainsSound`, `Interpolated`, `BandChosen`, `TrackKept`, `IslandsFit`, `StagesEnd` |
| analysis | 7 rates around a change of the FFT length, 8 pitches, 6 times; all tracks of 2 to 10 frames; signals of 20 to 41 samples | `StarInside`, `StarSymmetric`, `IslandsTiled`, `PulsesSound` |
| note | names and curves of up to 3 elements, all strings of up to 5 characters; outputs of up to 24 samples; 61 lengths, 4 velocities, 2 × 3 × 4 × 7 other arguments | `PitchSound`, `CurveDecoded`, `PlayedInOrder`, `NoteEnds` |
| render | rows of 5 bins of 6 levels, 5 ratios; FFTs of 4, 8 and 16 over 3 frames; outputs of 1 to 13 samples, all tracks over 3 periods and unvoiced | `StoredSpectrum`, `ResponsesSound`, `FrameInRange`, `Covered`, `RenderEnds` |
| program | notes of up to 3 samples, cut at every byte; wavs of 6 widths and 4 lengths, cut or changed at every byte; every state of the cache, up to 2 failing allocations; 5 files and up to 3 analysis files there before, in every order | `NoteWell`, `ReadsWhatIsThere`, `MemorySound`, `BatchSound`, `ProgramEnds` |
| synthesis_unpitched | outputs as in render, every pitch NaN | the loop does not end |
| time_map_blank | arguments as in note | a fixed part reaching the blank is cut with the wrong sign |
| param_saturation | loud residuals | the saturation that a comment speaks of never happens |

`TypeOK` and the invariants `DioInv`, `AnalysisInv`, `NoteTypeOK`, `RenderInv`
and `ProgramTypeOK` are type correctness of the part at work and, where there is
a proof, its strengthening (`KeepInv`, `Interp1!IInv`, `VoiceIslands!IInv`,
`Synthesis!CoverInv`). The other properties are conjunctions of named parts;
each part is stated, with what it is for, in its module.

**Bounds.** Three processes are needed for a reader to meet a writer that has
been truncated by another writer; two buffers are a header and what is behind
it, and a hole appears before the second. The proofs are for any number of both.
Versions `a` and `b` share length and rate, so that the headers cannot tell them
apart, and `l` is too long for 16 bits. Ten samples are the shortest signal that
gives four usable trains. Grids of four places and three points put points
below, at, between and above all places. Rates of STAR are scaled down by ten
and more, which leaves its ratios as they are; 1491 and 1512 are on both sides
of a doubling of the FFT length. Ten frames make two islands with extensions
that run into each other; the write to `negativeIndex` only reaches a later
island from about 25 frames on, which is out of reach and noted at its hazard.
Strings of five characters hold every way `#` can be missing or doubled. An
output of 13 samples with `Fftl` = 8 takes several responses, and is shorter than
one when it is short; of the periods (0.3, 5 and 9 samples) the responses of two
overlap, the second just so, and those of the third leave gaps. An FFT of 16 has the packed
bins 0, 1, last and others; of three frames one is silent, and the second and third
have a window each, one or none. Levels of bins are no number, quantised to 0,
just above it, rounded up from 11 where the logarithm is steep, and on both sides of
where it is nearly the level itself. In the directory there are a wav and its
backup, one with `.wav` before another part, a hidden one and one that is none;
of the first two the three analysis files may each be there, of either of two
earlier analyses or unreadable. Two failing allocations make one fail on the way out
of another.

**Fairness.** `QuietSpec` has weak fairness of each process: the operating
system runs every process, and nothing in the code waits for another one, so
that no stronger assumption is made. The other parts are sequential: weak
fairness of their step says that the process runs. `SerialSpec` and
`CleanSerialSpec` have none, and no liveness is claimed of them.

**Deadlock** is checked in all runs: the final states have a stuttering step
(`Terminated`, `...Finished`).

## What the runs found

- `main` does not read the wav on a hit, against the comment at 205
  (`WavAlwaysRead`). With it goes `StoreIsForever`: after an edit, the old
  analysis is used until somebody removes the files.
- A source without a pitch never leaves `synthesis()` (`EndsUnpitched`), so that
  the test for NaN samples at 1276 comes too late.
- A fixed part that reaches the blank is replaced by
  `wavelength - offset + blank` (986); with a minus, `BeforeBlank` holds in the
  model, with the plus a short note reads `f0` past its end.
- A residual is cast to short before it is compared with the limits of a short
  (649), so that a loud one wraps (`Saturated`).

Some things follow from the models although no document speaks against them:

- a process killed while it writes leaves a prefix that later processes accept
  (`PrefixOfOneVersion` says no more than that it is a prefix), and a reader
  that does meet a writer may render from a mixture, which is why `HitSound`
  speaks of readers that did not;
- a note below about 38 Hz (34.5 Hz at a rate of 44100, and C1 is 32.7 Hz) has a
  period longer than responses overlap, and the output has gaps between them
  (`LeftOut`); no other sample is left out, whatever the pitch does (`Covered`);
- a frame whose window passes the end of the wav sounds with the residual of the last frame
  that had one, and when there is none with memory that was never written
  (`SegmentReproduced`);
- of a bin that is almost 0 a stored logarithm that moves by half a step moves the
  one that is stretched by many, so that `SoundsAsBefore` bounds the stretched bins
  of quiet spectra by what rounding has done to the stored ones, and by a step only
  where all are loud;
- a wav whose spectrum has a bin quantised to 0 renders with flag g on the first
  note and with NaN around that bin on every later one (`StoredSpectrum` bounds
  what is lost);
- a band without a zero crossing writes `eLocations[-1]` (dio.c 500); what is
  read from there is never used (`OutsideUnused`);
- no set of coefficients exists for a decimation ratio of 5 (22050 Hz), which a
  comment at matlab.c 100 names;
- three plans are left for every computed row and two for every response
  (`PlansLeft`);
- what a load that is given up has allocated is lost, which is why `NothingLeft`
  excepts it by name.

## What is proved

All proofs hold for every value of the constants that the `ASSUME`s admit. Eight
modules hold them, one for the cache, one for the wav files and one for each MC
module of a stage of the pipeline, over lemmas that several need (`CommonLemmas`).
Every invariant a passing run checks is stated by one of the theorems, as are the
action properties and the refinement.

| theorem | module | says |
|---|---|---|
| `TypeCorrect` | AnalysisCacheProofs | `Spec => []TypeOK` |
| `SettledIsComplete` | AnalysisCacheProofs | `QuietSpec => []SettledComplete` |
| `HitsAreSound` | AnalysisCacheProofs | `QuietSpec => []HitSound` |
| `FilesArePrefixes` | AnalysisCacheProofs | `SerialSpec => []PrefixOfOneVersion` |
| `StoreStays` | AnalysisCacheProofs | `CleanSerialSpec => StoreIsForever` |
| `CacheIsAStore` | AnalysisCacheProofs | `CleanSerialSpec => ImplementsVoiceCache` |
| `MeanDefined` | DioProofs | `DecimateSpec => []MeanOfWritten` |
| `BuffersAreFit` | DioProofs | `DecimateSpec => [](LengthIsInt => BuffersFit)` |
| `FilterIsCentred` | DioProofs | `FilterSpec => []CentredOnSample` |
| `CrossingsApart` | DioProofs | `CrossingSpec => []Apart` |
| `TrainsAreSound` | DioProofs | `CrossingSpec => []TrainsSound` |
| `Interpolates` | DioProofs | `Interp1Spec => []Interpolated` |
| `BandIsChosen` | DioProofs | `BandsSpec => []BandChosen` |
| `TrackIsKept` | DioProofs | `PostprocessSpec => []TrackKept` |
| `IslandsAreFit` | DioProofs | `PostprocessSpec => []IslandsFit` |
| `DioIsTyped` | DioProofs | `DioSpec => []DioInv` |
| `StarStaysInside` | AnalysisProofs | `StarSpec => []StarInside` |
| `StarIsSymmetric` | AnalysisProofs | `StarSpec => []StarSymmetric` |
| `PassesAgree` | AnalysisProofs | `IslandsSpec => []IslandsTiled` |
| `PulsesAreSound` | AnalysisProofs | `PulsesSpec => []PulsesSound` |
| `AnalysisIsTyped` | AnalysisProofs | `AnalysisSpec => []AnalysisInv` |
| `PitchIsSound` | NoteProofs | `BendSpec => []PitchSound` |
| `CurvesAreDecoded` | NoteProofs | `DecpitSpec => []CurveDecoded` |
| `NotesAreInOrder` | NoteProofs | `TimeMapSpec => PlayedInOrder` |
| `NoteIsTyped` | NoteProofs | `NoteSpec => []NoteTypeOK` |
| `StoredAsAnalysed` | RenderProofs | `CodecSpec => []StoredSpectrum` |
| `ResponsesAreSound` | RenderProofs | `SpectraSpec => []ResponsesSound` |
| `FramesExist` | RenderProofs | `SynthesisSpec => []FrameInRange` |
| `OutputIsCovered` | RenderProofs | `SynthesisSpec => []Covered` |
| `RenderIsTyped` | RenderProofs | `LevelsFit => (RenderSpec => []RenderInv)` |
| `MemoryStaysSound` | ProgramProofs | `ResamplerSpec => []MemorySound` |
| `BatchIsSound` | ProgramProofs | `BatchSpec => BatchSound` |
| `ProgramIsTyped` | ProgramProofs | `ProgramSpec => []ProgramTypeOK` |
| `OthersAreRead` | WavProofs | `Reader!Spec => []ReadsWhatIsThere` |
| `NotesAreRead` | WavProofs | `TripSpec => []ReadsWhatIsThere` |
| `NotesAreWell` | WavProofs | `VolumesAudible /\ NoteArguments => (TripSpec => []NoteWell)` |

**From which assumptions.** Most only say of what kind a constant is. Those that
say something of the program are: STAR's rates have their floor pitch below a
quarter of the rate (`NyquistAssumption`); a period of PLATINUM is more than four samples, where the phase
moves less than a quarter of a cycle, and divides the parts a cycle is counted in
(`PeriodAssumption` of Pulses: the highest F0 the tracker keeps is far below a quarter of any rate); half a frame of the synthesis is no longer than the `Margin` (`FrameAssumption` of
Synthesis: 2.9 ms against 256 samples at 44100 Hz), and its periods are above 0, which is all
`PeriodAssumption` asks of them (an infinite pitch is at its hazard); between levels
from `Loud` on, that of 2^-33, the logarithm that is stretched is at most twice as steep as the level
(`LnAssumption`: the slope is S + 1 over S for S = s * 2^33, which is at least 1 there), and below, nothing is asked of it; a frame of the time map is a sample or longer
(`FrameAssumption` of TimeMap: 5.8 ms, so any rate from 173 Hz on); the filter
begins at 4 kHz, as the decimation does (`FilterAssumption`); the upper halves of
neighbouring bands of DIO meet, which half-octave bands do
(`OverlapAssumption`); a note name has a letter, an optional accidental of
`Scale` and an octave (`NameAssumption`); of the names in a directory no wav or other file is
called like an analysis file, and the analysis files that are there before are
(`BatchAssumption`: `x.wav.dio` with samples in it is left out). The volume and the samples of a note are doubles,
which the model has as fractions (`VolumeAssumption`, `SignalAssumption`). `BuffersAreFit` has one hypothesis that is no constant:
`LengthIsInt`, the extended signal is shorter than 2^30 samples. Above it the
length of the FFT, the next power of two, is no `int`.

A pitch curve is a sequence of 12-bit values, each said once or repeated up to
nine times, written with the characters that the model's `get64` knows
(`CurveAssumption`); the strings that are no curves are arbitrary
(`StringAssumption`). Three hypotheses are about constants that no model needs
bounded, and the MC modules meet them with room to spare:
- `VolumesAudible`: the volume is a number that is not negative;
- `NoteArguments`: the rate and twice the length of a note are below 2^31, as the
  `int`s of its header have to be, the bits are 8 to 39, which is a sample of
  one to four bytes, and the samples fit into what `malloc` grants;
- `LevelsFit`: a stored logarithm is below 65535 steps, which is the room of an
  unsigned short; log(s * 2^33 + 1) of a wav of 16 bits is far below that.

### The arguments

*Cache.* `SettledComplete` is not inductive: while writers are at work a file
may have holes. `CoverInv` says who will fill them: every buffer is good, or
some writer that has the file open has not come to it yet. A truncation makes
all buffers bad and adds a writer at offset 0; a flush makes good what it takes
out of its writer's debt. When no writer is left, every buffer is good.
`HitInv` adds that a reader that has met no writer has whole files behind it and
has counted every buffer of the open one. The number of processes and of
buffers is arbitrary.

*Cache, one writer at a time.* `PrefixInv`: one process is active, the file it
has open is the first `pos` buffers of the version it has analysed, and every
other file is a prefix already. A kill or a full disk leaves that prefix. For the
refinement nothing fails, and `CleanInv` says what each process is at: a loader
has what the files before the one it reads hold, a filler has written the files
before the one it has open whole, and the last file is accepted only when all
three are of one version. The steps of the files that change no store are then
stutters of `VoiceCache`, the close of the last file is its `Keep`, and the
accepted third file is its hit.

*Decimation.* `KeepInv`: sample number `decimateCount` is kept at place
`nbeg + decimateCount * r`, and `nbeg` is the remainder of the length by `r`, so
that the loop, which ends past the signal, has passed at least `yLen` of them
(`MeanDefined`) and no more than y has room for. That windows of all bands fit
is an inequality between roundings: `fftl` is above the length plus four times the
longest half window, by the lemma that a power of two lies above every number below 2^30.

*Filter.* An element of a buffer is the set of samples it is made of. `FilterInv`
says for each step what the buffer holds: the samples padded, the product for all bins
of the first half, the sums around the bias, and those shifted. No wrap occurs as
the padding is longer than the window.

*Zero crossings.* A crossing downwards lies between a positive and a negative
sample, and the next one begins at another positive one, at least two samples
on; the fine places are inside their samples, from products of signs alone.
`CrossingInv` says which trains have been searched and that each holds exactly
the fine places of its own signal. The set of edges is finite as the image of a
finite set; that a train has enough elements is what `usable` tests.

*Interpolation.* `IInv`: the points before `i` have their interval, and the place
`count` stands at is not above the point `i`, nor below the one before it; the
step back of `i` when an interval is left keeps it. With the interval known, the
value at a point of the grid is that of the grid, because the slope is
multiplied by nothing or by the whole interval.

*Bands.* `BandsInv`: `tmp` and `bestF0` belong to the same band, and none of those
before `bandsI` is steadier. `Steadier` is not antisymmetric (a band refused has
the same deviation as another), but its negation is transitive, which is what
replacing the best needs.

*Post-processing.* `PostprocessInv`: the track has only candidates of its own
columns; before the lists are made every voiced frame is `voiceRangeMinimum` from both ends;
after that, the lists are equally long and `positiveIndex[k]` is at or before
`negativeIndex[k]`, also after the loop has written `negativeIndex[j] = j`. The model gives entry number k by
its rank among the starts and among the ends; that the two ranks agree is
an induction over frames: between two starts lies an end. `Induction` of
CommonLemmas does it, over a set of numbers and not an operator. The proof found that
`IslandsPaired` had to except the entries so overwritten, which takes seven
islands and lies beyond the bounds of the run.

*Islands of PLATINUM.* `IInv`: the number of voiced islands is half the number of changes of
voicing counted so far, rounded up; the arrays have one entry more than there are
changes; the islands listed so far are the runs of frames with the same number
of changes, and voicing is the parity of that number.

*Pulses.* The islands as a function of the track are the runs of equal voicing: the first frames
and the last frames, each in order of rank, interleave (`IslandsAreRuns`), so that no two
islands share a sample (`IslandsApart`). The phase since the wedge rises by less than a quarter of
a cycle with every sample. Its remainder jumps where it passes a whole
cycle and nowhere else, which has two forms: before the wedge the remainder is
negative (`JumpsBefore`, `JumpsAfter`). Two jumps in a row therefore lie one crossing apart, or two when the
wedge, at which the remainder passes 0 without a jump, is between them (`ApartInIsland`), and two periods hold a
jump wherever the wedge is (`PulseInStretch`). `PulsesInv` says which
islands are already in the list (`Located`) and which frames have their residual (`Own`): a
pulse that is nearer to the frame than one whose window fits is itself early enough (`NearerIsBefore`).

*STAR.* `fftl` is a power of two above three periods of the floor pitch, and any
other pitch is above the floor, so that its segment fits; the bins read half a pitch below and above a bin
are, by remainders of the pitch, `limit` or one less apart and centred on it,
so inside the mirrored spectrum. `StarInv` adds what segment and spectrum are made of:
the segment is cut around the sample of the frame (`Cut`) and rounding the time to a
sample shifts it by less than one; the continuation (`Mirrored`) counts the bins down
again from both ends.

*Pitch curve.* `BendInv`: once there is a step, a curve that was given has an entry for every step
to the end of the output, so that the index of a frame and the one after it are within it,
and one that was not given is flat. The pitch divides by the average
only where the average is not 0.

*Decoding.* `ScanInv`: `decpit()` is between two elements of the curve, or between the
value and the repetitions of one, and `dst` holds as much as it has place for of what the elements so
far stand for. The string of the first elements begins the whole string (`JoinsGrow`), so
that what is read at `i` are the characters of the next element: its first one is no `#`,
its two values make the 12 bits back (`WrappedIs`), the digit between the marks
is the number that `sscanf` finds (`DigitRead`), and the cut at `cnt` is the same whether made
step by step or at the end (`Filled`). Encoding, expansion and number are recursive
functions: that each exists follows from one lemma (`Recursion`), and only then does
its equation hold. `DecpitInv`, for any string at all, says that `i` is at most one past the end
and `dst` never longer than `cnt`.

*Time map.* The place of a frame is a broken line: half of the velocity before
the end of the consonant, then 1 or the stretched rate. `LineStep` says that a
frame later is no step back and no jump, whichever pieces the two frames lie on;
`LineWithin` and `LineEnds` that the line stays between
offset and blank and reaches the blank with the last frame. The map of every
accepted note is such a line. Positions are fractions and
stay so: the lemmas multiply out, with each product named.

*Stored spectra.* `CodecInv` says what file and memory hold in terms of the
spectrum analysed. A quantised bin is within half a step of its own (`RowsPositive`), a stretched one lies
between two of the row (`BinsInside`, `Between`), and two lines are nowhere farther
apart than at the one or the other of their ends (`LinesNear`, `BinsNear`). Where all bins are loud the ends are two
quarters of a step apart in level and so four at most in logarithm, by `LnAssumption`. A bin is nothing later and not at
first only next to one that was quantised to nothing.

*Responses.* `SpectraInv` has four parts. `PlacesInv` is where the loops are; `RowsInv`: a row that is stored, and the array the quotients are made in, has in place k what
`Packed` says of the last frame with a window (`LastWhole`), and row 0 nothing; `ArraysInv`: what each array holds between two transforms, in elements of
the frame at work and no other; `PlansInv`: plans are three for every whole row and two for every response
but for what the frame at work has still to make (`Pending`).

*Synthesis.* Up to a `Margin` behind the next response every sample is added to or
left out behind a response of too long a period (`CoverInv`). Where the period is at
most `Reach - Margin` (5/8 of fftl) the next response starts before the last one has
ended; where it is longer, what lies between is `LeftOut`, by definition of the
turn that has just been made, and what was left out before stays so as turns are only
added. For the end of the loop, half a frame is no longer than `Margin`
(`FrameAssumption`). The arithmetic of the two roundings is in lemmas of its own.

*Memory.* `MemoryInv` splits the blocks in two at every point of `main()`: those that are held and
will be freed on the way out, and those that a load that was given up has lost. A block that was made
is held, lost or freed once; each of the pointers in use holds a block of the origin that the
place in `main()` implies; an allocation that fails is on the path of a
load or leads to an exit. The number of rows is arbitrary.

*Batch tool.* `MadeInv`: every analysis file was there before or is made from a listed wav that it
belongs to; every listed wav that was returned has its files, each made or readable, apart from those that
could not be written; and of a wav that shares its name with no other, either no file was made
in this walk or all were (`Unmixed`), since no other wav writes them (`FilesApart`). Two wavs share a
file only when they share the name up to the last dot, which is an argument about
appending to sequences.

*Reading a wav.* `HeaderInv`: as long as the checks pass, the place in the file is the one the
header's layout gives and the tags so far are in the file, or the file is at its end but for
less than a tag. At the end, a tag can only be found as it was left by an
earlier read; the last byte of the buffer then is the last of that tag, and after the fourth check it is
0, which is not the last one of `data`. That closes the only way to accept a header that is not there. `SamplesInv`:
sample n + 1 is read at byte 44 + n times its width, or the file has ended; at the end the buffer keeps the
last sample without its sign, and is read as the same value again. With the sign cut off a sample of q bytes is
below `HalfRange(q)`, which is not above the zero line whatever the bits (`RangeOfBits`). For a
note of `main()`, `WavOutInv` adds that header and samples are bytes, cut anywhere.

*Writing a note and reading it back.* `LevelInv`: `maxAmp` is the magnitude of a sample passed and none of
those passed is louder, NaN apart, and a sample written is its own value scaled and
truncated, so that order, sign and the loudest level are those of
fractions multiplied by one factor (`Quotient` and the clipping are monotone). `StoresInv`: below the place of the
next store the header is already what it will be, and behind it nothing is touched unless a
`long` has eight bytes; a store of 8 bytes destroys only fields whose own
store is still to come. `NoteInv` follows the reader through the file so written: at each check the place is
that of the field, the values are those that were stored, and a refusal means that the file was
cut. A sample of two bytes, written low byte first, is the same short again.

*Types of what runs together.* The selector of an MC module keeps its value, only the part it names takes
steps, and that part has an inductive invariant of its own; the conjunction of "if it is
this part, then its invariant" is inductive (`DioStages`, `AnalysisParts`, `NoteParts`, `RenderParts`,
`ProgramParts`). The parts need more than kinds to keep them. The loop of `m_decimateForF0` is
at a multiple of the ratio, a band of DIO has only pitches of its own half octave, an element
of a transform is made of a bin of a frame that exists; a block of `main()` is not both returned and failed
because each is made by one call only (`Apart`); the source position is a fraction because a stretched part
of length 0 is told apart before the division.

**Only model-checked.**
- Liveness (`FilledAtLast`, `StagesEnd`, `NoteEnds`, `RenderEnds`,
  `ProgramEnds`): fairness needs `ENABLED`, which is out of the prover's reach.
- The four violation runs.

The inductive invariants of the proofs that no run names (`CoverInv` and `HitInv` of the cache,
`PostprocessInv`, `MemoryInv` and others) are defined in the proof modules; the
properties the runs check follow from them.

## Not modelled

- FFTW, which makes up nearly all of the repository's 309,000 lines: it is
  vendored and only used when the program is built with `-DFFTW3`. The program's
  own code is about 6,900 lines, of which Ooura's transform in fft.c is 2,500.
- Ooura's transform itself; windows, filter coefficients and every other purely
  numerical value. `Spectra`, `DioFilter` and `Star` say what elements are made
  of and not how large they are.
- The weights of `getFreqAvg`, and `m_inv`: numerical.
- `m_fftfilt`, `m_randn`, `m_std`, `m_fftshift` and the tool's frequency
  functions: not called.
- Logging and timing: output only.
- In `BatchTool`, directories and other entries that are no regular files, which
  the tool passes over, and wavs of more than 65535 frames, which never fit
  (`AnalysisCache` has them: `Long`).
- Notes whose volume has the default exponent 0.86: flag P is at both ends of its range.
- Reads of a cache file that end inside a frame: a file is a row of buffers in
  `AnalysisCache`.
- Files left open on exits of `main`; the system closes them.
