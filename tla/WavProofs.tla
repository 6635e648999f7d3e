----------------------------- MODULE WavProofs -----------------------------
(***************************************************************************)
(* The wav between main() and wavread(), at every step of writing one and  *)
(* reading one: what is read of any file is what is in it, and a note that *)
(* main() has written is opened again with its format, its length and its  *)
(* samples, or not at all.                                                 *)
(***************************************************************************)
EXTENDS RoundTrip, SequenceTheorems, TLAPS

-----------------------------------------------------------------------------
(* The wav that main() writes *)

WavOutInv ==
    /\ y \in Signals /\ volume \in Volumes /\ P \in {0, 1}
    /\ fs \in Rates /\ nbit \in Bits /\ longSize \in LongSizes
    /\ wavOutI \in Nat \ {0} /\ maxAmp \in Float /\ maxAmp.num >= 0
    /\ output \in Seq(Shorts) /\ header \in [0 .. 47 -> Byte]
    /\ wavOutPc \in {"max", "output", "header", "written", "died"}
    /\ wavOutPc = "max" => output = <<>>
    /\ wavOutPc = "output" => Len(output) = wavOutI - 1 /\ wavOutI <= outSamples + 1
    /\ wavOutPc \in {"header", "written", "died"} => Len(output) = outSamples

LEMMA FloatsAre ==
    /\ \A n \in Int, d \in Nat : Frac(n, d) \in Float
    /\ \A n \in Int : Whole(n) \in Float
    /\ \A p \in Float : p.num \in Int /\ p.den \in Nat /\ Magnitude(p) \in Float
    /\ \A p, q \in Float : Times(p, q) \in Float
<1>1. \A n \in Int, d \in Nat : Frac(n, d) \in Float
  BY DEF Frac, Float
<1>2. \A n \in Int : Whole(n) \in Float
  BY <1>1 DEF Whole
<1>3. \A p \in Float : p.num \in Int /\ p.den \in Nat
  BY DEF Float
<1>4. \A p \in Float : Magnitude(p) \in Float
  BY <1>1, <1>3 DEF Magnitude
<1>5. ASSUME NEW p \in Float, NEW q \in Float PROVE Times(p, q) \in Float
  <2>1. p.num * q.num \in Int /\ p.den * q.den \in Nat
    BY <1>3
  <2> QED BY <1>1, <2>1 DEF Times
<1> QED BY <1>1, <1>2, <1>3, <1>4, <1>5

LEMMA OverIs ==
    ASSUME NEW p \in Float, NEW q \in Float, q.num >= 0
    PROVE  Over(p, q) \in Float
<1>1. p.num \in Int /\ p.den \in Nat /\ q.num \in Nat /\ q.den \in Nat
  BY FloatsAre
<1>2. p.num * q.den \in Int /\ p.den * q.num \in Nat
  BY <1>1
<1> QED BY <1>2, FloatsAre DEF Over

LEMMA ShortsAre == \A x : x \in Shorts <=> x \in Int /\ x >= -32768 /\ x <= 32767
<1>1. PICK a \in Int, b \in Int : a = -32768 /\ b = 32767
  OBVIOUS
<1>2. Shorts = a .. b
  BY <1>1 DEF Shorts
<1>3. \A x : x \in Shorts <=> x \in Int /\ a <= x /\ x <= b
  BY <1>2
<1> QED BY <1>1, <1>3

\* What is clipped is a number between the two ends, or not a number at all.
LEMMA ClippedIs ==
    ASSUME NEW v \in Float, ~IsNaN(Clipped(v))
    PROVE  Truncate(Clipped(v)) \in Shorts
<1>1. PICK n \in Int, d \in Nat : n = v.num /\ d = v.den
  BY FloatsAre
<1>2. /\ Less(Whole(32767), v) <=> 32767 * d < n * 1
      /\ Less(v, Whole(-32767)) <=> n * 1 < (-32767) * d
  BY <1>1 DEF Less, Whole, Frac
<1>3. /\ Quotient(32767, 1) = 32767 /\ Quotient(-32767, 1) = -32767
      /\ Truncate(Whole(32767)) = Quotient(32767, 1)
      /\ Truncate(Whole(-32767)) = Quotient(-32767, 1)
  BY DEF Quotient, Truncate, Whole, Frac
<1>4. CASE Less(Whole(32767), v)
  <2>1. Clipped(v) = Whole(32767)
    BY <1>4 DEF Clipped
  <2>2. 32767 \in Shorts
    BY ShortsAre
  <2> QED BY <1>3, <2>1, <2>2
<1>5. CASE ~Less(Whole(32767), v) /\ Less(v, Whole(-32767))
  <2>1. Clipped(v) = Whole(-32767)
    BY <1>5 DEF Clipped
  <2>2. -32767 \in Shorts
    BY ShortsAre
  <2> QED BY <1>3, <2>1, <2>2
<1>6. CASE ~Less(Whole(32767), v) /\ ~Less(v, Whole(-32767))
  <2>1. Clipped(v) = v
    BY <1>6 DEF Clipped
  <2>2. ~(n = 0 /\ d = 0)
    BY <1>1, <2>1 DEF IsNaN
  <2>3. n <= 32767 * d /\ n >= -(32767 * d) /\ d > 0
    BY <1>1, <1>2, <1>6, <2>2
  <2>4. Quotient(n, d) \in Shorts
    <3>1. CASE n >= 0
      <4>1. PICK e \in Nat : e = n \div d /\ e <= 32767
        BY <2>3, <3>1
      <4>2. Quotient(n, d) = e
        BY <3>1, <4>1 DEF Quotient
      <4> QED BY <4>1, <4>2, ShortsAre
    <3>2. CASE ~(n >= 0)
      <4>1. PICK m \in Nat : m = -n /\ m <= 32767 * d
        BY <2>3, <3>2
      <4>2. PICK e \in Nat : e = m \div d /\ e <= 32767
        BY <2>3, <4>1
      <4>3. Quotient(n, d) = -e
        BY <3>2, <4>1, <4>2 DEF Quotient
      <4>4. -e \in Shorts
        BY <4>2, ShortsAre
      <4> QED BY <4>3, <4>4
    <3> QED BY <3>1, <3>2
  <2> QED BY <1>1, <2>1, <2>4 DEF Truncate
<1> QED BY <1>4, <1>5, <1>6

LEMMA LittleEndianIs ==
    ASSUME NEW n \in Int, NEW size \in Nat
    PROVE  /\ LittleEndian(n, size) \in Seq(Byte) /\ Len(LittleEndian(n, size)) = size
           /\ (\A k \in 1 .. size : LittleEndian(n, size)[k] =
                  (IF k > 4 THEN 0 ELSE (n \div 256 ^ (k - 1)) % 256))
<1>1. \A j \in 0 .. 3 : 256 ^ j \in Nat \ {0}
  <2>1. /\ 256 ^ 0 \in Nat \ {0} /\ 256 ^ 1 \in Nat \ {0}
        /\ 256 ^ 2 \in Nat \ {0} /\ 256 ^ 3 \in Nat \ {0}
    BY SMT
  <2>2. ASSUME NEW j \in 0 .. 3 PROVE j = 0 \/ j = 1 \/ j = 2 \/ j = 3
    OBVIOUS
  <2> QED BY Zenon, <2>1, <2>2
<1>2. \A x \in Int : x % 256 \in Byte
  BY DEF Byte
<1>3. ASSUME NEW k \in 1 .. size
      PROVE  (IF k > 4 THEN 0 ELSE (n \div 256 ^ (k - 1)) % 256) \in Byte
  <2>1. CASE k > 4
    <3>1. 0 \in Byte
      BY DEF Byte
    <3> QED BY Zenon, <2>1, <3>1
  <2>2. CASE ~(k > 4)
    <3>1. PICK d \in Nat \ {0} : d = 256 ^ (k - 1)
      <4>1. k - 1 \in 0 .. 3
        BY <2>2
      <4> QED BY Zenon, <1>1, <4>1
    <3>2. n \div d \in Int
      OBVIOUS
    <3> QED BY Zenon, <1>2, <2>2, <3>1, <3>2
  <2> QED BY Zenon, <2>1, <2>2
<1>4. LittleEndian(n, size) \in [1 .. size -> Byte]
  BY Zenon, <1>3 DEF LittleEndian
<1>5. LittleEndian(n, size) \in Seq(Byte) /\ Len(LittleEndian(n, size)) = size
  BY <1>4
<1>6. (\A k \in 1 .. size : LittleEndian(n, size)[k] =
                  (IF k > 4 THEN 0 ELSE (n \div 256 ^ (k - 1)) % 256))
  BY Zenon DEF LittleEndian
<1> QED BY <1>5, <1>6

LEMMA ShortIs ==
    ASSUME NEW n \in Int
    PROVE  Short(n) \in Seq(Byte) /\ Len(Short(n)) = 2
<1>1. PICK m \in Int : m = n % 65536
  OBVIOUS
<1>2. LittleEndian(m, 2) \in Seq(Byte) /\ Len(LittleEndian(m, 2)) = 2
  <2>1. PICK s \in Nat : s = 2
    OBVIOUS
  <2>2. LittleEndian(m, s) \in Seq(Byte) /\ Len(LittleEndian(m, s)) = s
    BY LittleEndianIs
  <2> QED BY <2>1, <2>2
<1>3. Short(n) = LittleEndian(m, 2)
  BY <1>1 DEF Short
<1> QED BY Zenon, <1>2, <1>3

\* What is stored one over the other: bytes, at places within the array and the
\* four bytes after it.
LEMMA StoresAre ==
    ASSUME WavOutInv
    PROVE  /\ Len(Stores) = 13
           /\ \A j \in 1 .. 13 :
                 /\ Stores[j][1] \in 0 .. 40 /\ Stores[j][2] \in Seq(Byte)
                 /\ Len(Stores[j][2]) <= 8
<1>1. /\ RIFF \in Seq(Byte) /\ Len(RIFF) = 4 /\ WAVE \in Seq(Byte) /\ Len(WAVE) = 4
      /\ fmt \in Seq(Byte) /\ Len(fmt) = 4 /\ Data \in Seq(Byte) /\ Len(Data) = 4
  BY DEF RIFF, WAVE, fmt, Data, Byte
<1>2. ASSUME NEW n \in Int
      PROVE  /\ Long(n) \in Seq(Byte) /\ Len(Long(n)) <= 8
             /\ Short(n) \in Seq(Byte) /\ Len(Short(n)) <= 8
  <2>1. longSize \in Nat /\ longSize <= 8
    <3>1. longSize = 4 \/ longSize = 8
      BY Zenon, LongAssumption DEF WavOutInv
    <3> QED BY <3>1
  <2>2. Long(n) \in Seq(Byte) /\ Len(Long(n)) = longSize
    BY <2>1, LittleEndianIs DEF Long
  <2>3. Short(n) \in Seq(Byte) /\ Len(Short(n)) = 2
    BY ShortIs
  <2> QED BY <2>1, <2>2, <2>3
<1>3. /\ outSamples * 2 + 36 \in Int /\ outSamples * 2 \in Int /\ fs \in Int
      /\ (fs * nbit) \div 8 \in Int /\ nbit \div 8 \in Int /\ nbit \in Int
  <2>1. outSamples \in Nat /\ fs \in Nat /\ nbit \in Nat
    <3>1. y \in Seq(Float) /\ fs \in Nat /\ nbit \in 0 .. 255
      BY Zenon, SignalAssumption, RateAssumption DEF WavOutInv
    <3> QED BY <3>1 DEF outSamples
  <2>2. fs * nbit \in Nat
    BY <2>1
  <2> QED BY <2>1, <2>2
<1>4. Len(Stores) = 13
  BY DEF Stores
<1>5. /\ Stores[1][1] = 0 /\ Stores[1][2] = RIFF
      /\ Stores[2][1] = 4 /\ Stores[2][2] = Long(outSamples * 2 + 36)
      /\ Stores[3][1] = 8 /\ Stores[3][2] = WAVE
      /\ Stores[4][1] = 12 /\ Stores[4][2] = fmt
      /\ Stores[5][1] = 16 /\ Stores[5][2] = Long(16)
      /\ Stores[6][1] = 20 /\ Stores[6][2] = Short(1)
      /\ Stores[7][1] = 22 /\ Stores[7][2] = Short(1)
      /\ Stores[8][1] = 24 /\ Stores[8][2] = Long(fs)
      /\ Stores[9][1] = 28 /\ Stores[9][2] = Long((fs * nbit) \div 8)
      /\ Stores[10][1] = 32 /\ Stores[10][2] = Short(nbit \div 8)
      /\ Stores[11][1] = 34 /\ Stores[11][2] = Short(nbit)
      /\ Stores[12][1] = 36 /\ Stores[12][2] = Data
      /\ Stores[13][1] = 40 /\ Stores[13][2] = Long(outSamples * 2)
  BY DEF Stores
<1>6. ASSUME NEW j \in 1 .. 13
      PROVE  /\ Stores[j][1] \in 0 .. 40 /\ Stores[j][2] \in Seq(Byte)
             /\ Len(Stores[j][2]) <= 8
  <2>1. \/ j = 1 \/ j = 2 \/ j = 3 \/ j = 4 \/ j = 5 \/ j = 6 \/ j = 7
        \/ j = 8 \/ j = 9 \/ j = 10 \/ j = 11 \/ j = 12 \/ j = 13
    OBVIOUS
  <2>2. Stores[j][1] \in 0 .. 40
    BY <1>5, <2>1
  <2>3. \/ Stores[j][2] \in {RIFF, WAVE, fmt, Data}
        \/ \E n \in Int : Stores[j][2] = Long(n) \/ Stores[j][2] = Short(n)
    BY <1>3, <1>5, <2>1
  <2>4. CASE Stores[j][2] \in {RIFF, WAVE, fmt, Data}
    <3>1. Stores[j][2] \in Seq(Byte) /\ Len(Stores[j][2]) = 4
      BY Zenon, <1>1, <2>4
    <3> QED BY <2>2, <3>1
  <2>5. ASSUME NEW n \in Int, Stores[j][2] = Long(n) \/ Stores[j][2] = Short(n)
        PROVE  Stores[j][2] \in Seq(Byte) /\ Len(Stores[j][2]) <= 8
    BY Zenon, <1>2, <2>5
  <2> QED BY Zenon, <2>2, <2>3, <2>4, <2>5
<1> QED BY <1>4, <1>6

LEMMA MagnitudePositive == \A p \in Float : Magnitude(p).num >= 0
<1>1. ASSUME NEW p \in Float PROVE Magnitude(p).num >= 0
  <2>1. PICK n \in Int, d \in Nat : n = p.num /\ d = p.den
    BY FloatsAre
  <2>2. CASE n < 0
    <3>1. Magnitude(p) = Frac(-n, d)
      BY <2>1, <2>2 DEF Magnitude
    <3>2. Frac(-n, d).num = -n
      BY DEF Frac
    <3> QED BY <2>2, <3>1, <3>2
  <2>3. CASE ~(n < 0)
    BY <2>1, <2>3 DEF Magnitude
  <2> QED BY <2>2, <2>3
<1> QED BY <1>1

LEMMA OutputIsShort ==
    ASSUME WavOutInv, NEW v \in Float, ~IsNaN(Value(v))
    PROVE  Truncate(Value(v)) \in Shorts
<1>1. peekcomp \in Float
  <2>1. Whole(32) \in Float /\ Whole(512) \in Float
    BY FloatsAre
  <2>2. maxAmp \in Float /\ maxAmp.num >= 0
    BY DEF WavOutInv
  <2>3. Over(Whole(512), maxAmp) \in Float
    BY <2>1, <2>2, OverIs
  <2> QED BY Zenon, <2>1, <2>3, FloatsAre DEF peekcomp
<1>2. volume \in Float
  BY Zenon, VolumeAssumption DEF WavOutInv
<1>3. PICK x \in Float : x = Times(Times(v, peekcomp), volume)
  BY Zenon, <1>1, <1>2, FloatsAre
<1>4. CASE IsNaN(v)
  <2>1. Value(v) = Whole(0)
    BY Zenon, <1>4 DEF Value
  <2>2. Truncate(Whole(0)) = 0
    BY DEF Truncate, Quotient, Whole, Frac
  <2>3. 0 \in Shorts
    BY ShortsAre
  <2> QED BY Zenon, <2>1, <2>2, <2>3
<1>5. CASE ~IsNaN(v)
  <2>1. Value(v) = Clipped(x)
    BY Zenon, <1>3, <1>5 DEF Value
  <2> QED BY Zenon, <2>1, ClippedIs
<1> QED BY <1>4, <1>5

LEMMA WavOutStarts == WavOutInit => WavOutInv
<1>. SUFFICES ASSUME WavOutInit PROVE WavOutInv
  OBVIOUS
<1>1. maxAmp \in Float /\ maxAmp.num = 0
  <2>1. Whole(0).num = 0 /\ Whole(0) \in Float
    BY DEF Whole, Frac, Float
  <2>2. maxAmp = Whole(0)
    BY DEF WavOutInit
  <2> QED BY Zenon, <2>1, <2>2
<1>2. header \in [0 .. 47 -> Byte]
  BY DEF WavOutInit, Byte
<1>3. output = <<>> /\ output \in Seq(Shorts) /\ wavOutI \in Nat \ {0}
  BY DEF WavOutInit
<1>4. /\ y \in Signals /\ volume \in Volumes /\ P \in {0, 1} /\ wavOutPc = "max"
      /\ fs \in Rates /\ nbit \in Bits /\ longSize \in LongSizes
  BY DEF WavOutInit
<1> QED BY <1>1, <1>2, <1>3, <1>4 DEF WavOutInv

LEMMA WavOutStep == WavOutInv /\ Step => WavOutInv'
<1>. SUFFICES ASSUME WavOutInv, Step PROVE WavOutInv'
  OBVIOUS
<1>1. UNCHANGED note
  BY DEF Step, MaxAmp, EndMax, WriteSample, EndOutput, Store, Write
<1>2. y \in Seq(Float) /\ outSamples = Len(y) /\ outSamples \in Nat /\ outSamples' = outSamples
  <2>1. y \in Seq(Float) /\ y' = y
    BY Zenon, <1>1, SignalAssumption DEF WavOutInv, note
  <2> QED BY <2>1 DEF outSamples
<1>n. /\ y' = y /\ volume' = volume /\ P' = P /\ fs' = fs /\ nbit' = nbit
      /\ longSize' = longSize
  BY <1>1 DEF note
<1>r. ASSUME wavOutI <= outSamples PROVE y[wavOutI] \in Float
  <2>1. PICK j \in 1 .. Len(y) : j = wavOutI
    <3>1. wavOutI \in 1 .. Len(y)
      BY <1>2, <1>r DEF WavOutInv
    <3> QED BY <3>1
  <2> QED BY <1>2, <2>1, ElementOfSeq
<1>3. CASE MaxAmp
  <2>1. /\ wavOutPc = "max" /\ wavOutPc' = "max" /\ wavOutI <= outSamples
        /\ wavOutI' = wavOutI + 1 /\ UNCHANGED <<output, header>>
        /\ maxAmp' \in {maxAmp, Magnitude(y[wavOutI])}
    BY <1>3 DEF MaxAmp
  <2>2. maxAmp' \in Float /\ maxAmp'.num >= 0
    <3>1. y[wavOutI] \in Float
      BY <1>r, <2>1
    <3>2. Magnitude(y[wavOutI]) \in Float /\ Magnitude(y[wavOutI]).num >= 0
      BY Zenon, <3>1, FloatsAre, MagnitudePositive
    <3>3. maxAmp \in Float /\ maxAmp.num >= 0
      BY Zenon DEF WavOutInv
    <3>4. maxAmp' = maxAmp \/ maxAmp' = Magnitude(y[wavOutI])
      BY Zenon, <2>1
    <3> QED BY Zenon, <3>2, <3>3, <3>4
  <2>3. wavOutI' \in Nat \ {0}
    BY <2>1 DEF WavOutInv
  <2> QED BY Zenon, <1>n, <2>1, <2>2, <2>3 DEF WavOutInv
<1>4. CASE EndMax
  BY <1>1, <1>2, <1>4 DEF EndMax, WavOutInv, note
<1>5. CASE WriteSample
  <2>4. /\ wavOutPc = "output" /\ wavOutPc' = "output" /\ wavOutI <= outSamples
        /\ wavOutI' = wavOutI + 1 /\ UNCHANGED <<maxAmp, header>>
    BY <1>5 DEF WriteSample
  <2>1. PICK v \in Float : v = y[wavOutI]
    BY <1>r, <2>4
  <2>2. PICK s : /\ output' = Append(output, s)
                 /\ IsNaN(Value(v)) => s \in {0, -32768}
                 /\ ~IsNaN(Value(v)) => s = Truncate(Value(v))
    <3>1. CASE IsNaN(Value(v))
      <4>1. \E s \in {0, -32768} : output' = Append(output, s)
        BY <1>5, <2>1, <3>1 DEF WriteSample
      <4> QED BY <3>1, <4>1
    <3>2. CASE ~IsNaN(Value(v))
      <4>1. \E s \in {Truncate(Value(v))} : output' = Append(output, s)
        BY <1>5, <2>1, <3>2 DEF WriteSample
      <4> QED BY <3>2, <4>1
    <3> QED BY <3>1, <3>2
  <2>3. s \in Shorts
    <3>1. \A x \in {0, -32768} : x \in Shorts
      BY ShortsAre
    <3>2. ~IsNaN(Value(v)) => Truncate(Value(v)) \in Shorts
      BY OutputIsShort
    <3>3. CASE IsNaN(Value(v))
      BY <2>2, <3>1, <3>3
    <3>4. CASE ~IsNaN(Value(v))
      BY <2>2, <3>2, <3>4
    <3> QED BY <3>3, <3>4
  <2>5. output' \in Seq(Shorts) /\ Len(output') = Len(output) + 1
    BY <2>2, <2>3, AppendProperties DEF WavOutInv
  <2>6. wavOutI' \in Nat \ {0} /\ Len(output') = wavOutI' - 1 /\ wavOutI' <= outSamples' + 1
    BY <1>2, <2>4, <2>5 DEF WavOutInv
  <2> QED BY Zenon, <1>n, <2>4, <2>5, <2>6 DEF WavOutInv
<1>6. CASE EndOutput
  <2>1. /\ wavOutPc = "output" /\ wavOutPc' = "header" /\ wavOutI > outSamples
        /\ wavOutI' = 1 /\ UNCHANGED <<maxAmp, output, header>>
    BY <1>6 DEF EndOutput
  <2>2. Len(output) = outSamples
    <3>1. PICK r \in Nat, n \in Nat : r = wavOutI /\ n = outSamples /\ Len(output) = r - 1 /\ r <= n + 1
      BY <1>2, <2>1 DEF WavOutInv
    <3> QED BY <2>1, <3>1
  <2>3. wavOutI' \in Nat \ {0}
    BY <2>1
  <2> QED BY Zenon, <1>2, <1>n, <2>1, <2>2, <2>3 DEF WavOutInv
<1>7. CASE Store
  <2>1. /\ wavOutPc = "header" /\ wavOutI <= Len(Stores)
        /\ wavOutI' = wavOutI + 1 /\ UNCHANGED <<maxAmp, output, wavOutPc>>
    BY <1>7 DEF Store
  <2>2. PICK j \in 1 .. 13 : j = wavOutI
    <3>1. Len(Stores) = 13
      BY Zenon, StoresAre
    <3>2. wavOutI \in 1 .. 13
      BY <2>1, <3>1 DEF WavOutInv
    <3> QED BY <3>2
  <2>3. PICK at \in 0 .. 40, bytes \in Seq(Byte) : at = Stores[j][1] /\ bytes = Stores[j][2]
    BY StoresAre
  <2>4. header' = [k \in 0 .. 47 |->
           IF k \in at .. at + Len(bytes) - 1 THEN bytes[k - at + 1] ELSE header[k]]
    BY Zenon, <1>7, <2>2, <2>3 DEF Store
  <2>5. ASSUME NEW k \in 0 .. 47
        PROVE  (IF k \in at .. at + Len(bytes) - 1 THEN bytes[k - at + 1] ELSE header[k]) \in Byte
    <3>1. CASE k \in at .. at + Len(bytes) - 1
      <4>1. k - at + 1 \in 1 .. Len(bytes)
        BY <3>1
      <4>2. bytes[k - at + 1] \in Byte
        BY <4>1, ElementOfSeq
      <4> QED BY Zenon, <3>1, <4>2
    <3>2. CASE ~(k \in at .. at + Len(bytes) - 1)
      <4>1. header[k] \in Byte
        BY Zenon DEF WavOutInv
      <4> QED BY Zenon, <3>2, <4>1
    <3> QED BY <3>1, <3>2
  <2>6. header' \in [0 .. 47 -> Byte]
    BY Zenon, <2>4, <2>5
  <2> QED BY <1>1, <1>2, <2>1, <2>6 DEF WavOutInv, note
<1>8. CASE Write
  BY <1>1, <1>2, <1>8 DEF Write, WavOutInv, note
<1> QED BY <1>3, <1>4, <1>5, <1>6, <1>7, <1>8 DEF Step

LEMMA WavOutStutter == WavOutInv /\ UNCHANGED wavOutVars => WavOutInv'
BY DEF WavOutInv, wavOutVars, note, outSamples

LEMMA FileIsBytes == WavOutInv => File \in Seq(Byte)
<1>. SUFFICES ASSUME WavOutInv PROVE File \in Seq(Byte)
  OBVIOUS
<1> DEFINE S == [k \in 1 .. 2 * Len(output) |->
                    Short(output[(k + 1) \div 2])[IF k % 2 = 1 THEN 1 ELSE 2]]
           H == [k \in 1 .. 44 |-> header[k - 1]]
<1>1. H \in Seq(Byte)
  <2>1. \A j \in 0 .. 47 : header[j] \in Byte
    BY Zenon DEF WavOutInv
  <2>2. \A k \in 1 .. 44 : header[k - 1] \in Byte
    BY <2>1
  <2> QED BY <2>2
<1>2. S \in Seq(Byte)
  <2>1. PICK n \in Nat : n = Len(output)
    <3>1. output \in Seq(Shorts)
      BY Zenon DEF WavOutInv
    <3> QED BY <3>1
  <2>2. ASSUME NEW k \in 1 .. 2 * n
        PROVE  Short(output[(k + 1) \div 2])[IF k % 2 = 1 THEN 1 ELSE 2] \in Byte
    <3>1. PICK j \in 1 .. n : j = (k + 1) \div 2
      OBVIOUS
    <3>2. output[j] \in Int
      <4>1. output[j] \in Shorts
        BY <2>1, ElementOfSeq DEF WavOutInv
      <4> QED BY <4>1, ShortsAre
    <3>3. Short(output[j]) \in Seq(Byte) /\ Len(Short(output[j])) = 2
      BY <3>2, ShortIs
    <3>4. PICK e \in 1 .. 2 : e = IF k % 2 = 1 THEN 1 ELSE 2
      OBVIOUS
    <3>5. Short(output[j])[e] \in Byte
      BY <3>3, ElementOfSeq
    <3> QED BY Zenon, <3>1, <3>4, <3>5
  <2>3. S = [k \in 1 .. 2 * n |-> Short(output[(k + 1) \div 2])[IF k % 2 = 1 THEN 1 ELSE 2]]
    BY <2>1
  <2>4. S \in [1 .. 2 * n -> Byte]
    BY Zenon, <2>2, <2>3
  <2> QED BY <2>4
<1>3. File = H \o S
  BY DEF File
<1> HIDE DEF S, H
<1> QED BY <1>1, <1>2, <1>3, ConcatProperties

-----------------------------------------------------------------------------
(* The wav that wavread() reads *)

\* A file with its place, and what a read of it gives.
FileIs(f) ==
    /\ f \in [data : Seq(Byte), cur : Nat] /\ f.cur <= Len(f.data)
    /\ Len(f.data) \in Nat /\ \A p \in 1 .. Len(f.data) : f.data[p] \in Byte
Least(a, b) == IF a <= b THEN a ELSE b

LEMMA ReadIs ==
    ASSUME NEW f, FileIs(f), NEW b \in Reader!Buffer, NEW n \in Nat
    PROVE  /\ Reader!ReadInto(b, n, f) \in Reader!Buffer
           /\ (\A k \in 0 .. 3 : Reader!ReadInto(b, n, f)[k] =
                 (IF k < n /\ f.cur + k < Len(f.data) THEN f.data[f.cur + k + 1] ELSE b[k]))
           /\ FileIs(Reader!Advance(n, f))
           /\ Reader!Advance(n, f).data = f.data
           /\ Reader!Advance(n, f).cur = Least(f.cur + n, Len(f.data))
<1>1. PICK c \in Nat, l \in Nat : c = f.cur /\ l = Len(f.data) /\ c <= l
  BY DEF FileIs
<1>2. PICK r \in Nat : r = Reader!nread(n, f) /\ r = Least(n, l - c) /\ c + r = Least(c + n, l)
  <2>1. Reader!nread(n, f) = IF n >= l - c THEN l - c ELSE n
    BY <1>1 DEF Reader!nread, Reader!Left
  <2> QED BY <1>1, <2>1 DEF Least
<1>3. ASSUME NEW k \in 0 .. 3
      PROVE  Reader!ReadInto(b, n, f)[k] =
                IF k < n /\ c + k < l THEN f.data[c + k + 1] ELSE b[k]
  <2>1. DOMAIN b = 0 .. 3
    BY DEF Reader!Buffer
  <2>2. Reader!ReadInto(b, n, f)[k] = IF k < r THEN f.data[c + k + 1] ELSE b[k]
    BY <1>1, <1>2, <2>1 DEF Reader!ReadInto
  <2>3. k < r <=> k < n /\ c + k < l
    BY <1>1, <1>2 DEF Least
  <2> QED BY <2>2, <2>3
<1>4. ASSUME NEW k \in 0 .. 3 PROVE Reader!ReadInto(b, n, f)[k] \in Byte
  <2>1. b[k] \in Byte
    BY DEF Reader!Buffer, Reader!Byte, Byte
  <2>2. CASE k < n /\ c + k < l
    <3>1. c + k + 1 \in 1 .. l
      BY <1>1, <2>2
    <3>2. f.data[c + k + 1] \in Byte
      BY <1>1, <3>1 DEF FileIs
    <3> QED BY <1>3, <2>2, <3>2
  <2>3. CASE ~(k < n /\ c + k < l)
    BY <1>3, <2>1, <2>3
  <2> QED BY <2>2, <2>3
<1>5. Reader!ReadInto(b, n, f) = [k \in 0 .. 3 |-> Reader!ReadInto(b, n, f)[k]]
  <2>1. DOMAIN b = 0 .. 3
    BY DEF Reader!Buffer
  <2> QED BY <2>1 DEF Reader!ReadInto
<1>6. Reader!ReadInto(b, n, f) \in Reader!Buffer
  BY <1>4, <1>5 DEF Reader!Buffer, Reader!Byte, Byte
<1>7. Reader!Advance(n, f) = [f EXCEPT !.cur = c + r]
  BY <1>1, <1>2 DEF Reader!Advance
<1>8. /\ Reader!Advance(n, f).data = f.data /\ Reader!Advance(n, f).cur = c + r
      /\ Reader!Advance(n, f) \in [data : Seq(Byte), cur : Nat]
  BY <1>1, <1>2, <1>7 DEF FileIs
<1>9. c + r <= l
  BY <1>1, <1>2 DEF Least
<1>10. FileIs(Reader!Advance(n, f))
  BY <1>1, <1>8, <1>9 DEF FileIs
<1> QED BY <1>1, <1>2, <1>3, <1>6, <1>8, <1>10

LEMMA ReadBytes ==
    ASSUME NEW f, FileIs(f), NEW b \in Reader!Buffer, NEW n \in Nat
    PROVE  (\A k \in 0 .. 3 : Reader!ReadInto(b, n, f)[k] =
               (IF k < n /\ f.cur + k < Len(f.data) THEN f.data[f.cur + k + 1] ELSE b[k]))
BY ReadIs

LEMMA SeekIs ==
    ASSUME NEW f, FileIs(f), NEW n \in Nat
    PROVE  /\ FileIs(Reader!SeekMemFile(n, f))
           /\ Reader!SeekMemFile(n, f).data = f.data
           /\ Reader!SeekMemFile(n, f).cur =
                 IF f.cur + n <= Len(f.data) THEN f.cur + n ELSE f.cur
<1>1. PICK c \in Nat, l \in Nat : c = f.cur /\ l = Len(f.data) /\ c <= l
  BY DEF FileIs
<1>2. CASE c + n <= l
  <2>1. n <= Reader!Left(f)
    BY <1>1, <1>2 DEF Reader!Left
  <2>2. Reader!SeekMemFile(n, f) = [f EXCEPT !.cur = c + n]
    BY <1>1, <2>1 DEF Reader!SeekMemFile
  <2>3. /\ Reader!SeekMemFile(n, f).data = f.data /\ Reader!SeekMemFile(n, f).cur = c + n
        /\ Reader!SeekMemFile(n, f) \in [data : Seq(Byte), cur : Nat]
    BY <1>1, <2>2 DEF FileIs
  <2> QED BY <1>1, <1>2, <2>3 DEF FileIs
<1>3. CASE ~(c + n <= l)
  <2>1. ~(n <= Reader!Left(f))
    BY <1>1, <1>3 DEF Reader!Left
  <2>2. Reader!SeekMemFile(n, f) = f
    BY <2>1 DEF Reader!SeekMemFile
  <2> QED BY <1>1, <1>3, <2>2
<1> QED BY <1>2, <1>3

\* The six checks before the sampling rate: where each leaves the file.
Place(c) == CASE c = 0 -> 0 [] c = 1 -> 4 [] c = 2 -> 12 [] c = 3 -> 16
              [] c = 4 -> 20 [] c = 5 -> 22 [] OTHER -> 24
Passed(c) ==
    /\ c >= 1 => Reader!At(0, Reader!RIFF)
    /\ c >= 2 => Reader!At(8, Reader!WAVE)
    /\ c >= 3 => Reader!At(12, Reader!fmt)
    /\ c >= 4 => Reader!At(16, <<16, 0, 0, 0>>)
    /\ c >= 5 => Reader!At(20, <<1, 0>>)
    /\ c >= 6 => Reader!At(22, <<1, 0>>)
\* So near the end of the file, no tag of four bytes can be read whole.
AtEnd == Len(fp.data) - fp.cur < 4

ReaderTypes ==
    /\ FileIs(fp) /\ dataCheck \in Reader!Buffer /\ forIntNumber \in Reader!Buffer
    /\ checked \in 0 .. 6 /\ rNbit \in Byte /\ waveLength \in Int /\ waveForm \in Seq(Int)
    /\ rpc \in {"idle", "header", "data", "length", "malloc", "samples", "done",
                "refused", "died", "overrun"}

HeaderInv ==
    /\ rpc \in {"header", "data"} =>
          /\ checked >= 4 => dataCheck[3] = 0
          /\ AtEnd \/ (Passed(checked)
                       /\ fp.cur = IF rpc = "data" THEN 36 ELSE Place(checked))
    /\ rpc = "data" => checked = 6
    /\ rpc = "length" => fp.cur = 40

\* The samples are one after the other from byte 44 on; once the file is at its
\* end the buffer stays as it is, without a sign.
Bytes == Reader!quantizationByte
SamplesInv ==
    /\ rpc \in {"idle", "header", "data", "length", "malloc"} => waveForm = <<>>
    /\ rpc \in {"malloc", "samples"} =>
          /\ fp.cur = Least(44 + Len(waveForm) * Bytes, Len(fp.data))
          /\ Bytes = 0 => waveLength = 0
          /\ Len(waveForm) > 0 => Bytes > 0 /\ forIntNumber[Bytes - 1] < 128
          /\ \A k \in 2 .. Len(waveForm) :
                44 + (k - 1) * Bytes >= Len(fp.data) =>
                   waveForm[k] = Reader!Magnitude(forIntNumber)
    /\ Reader!SamplesDecoded /\ Reader!TailConstant /\ Reader!Bounded

ReaderInv == ReaderTypes /\ HeaderInv /\ Reader!HeaderIsInFile /\ SamplesInv /\ Reader!Closed

\* A tag that is found is in the file, or the file has ended and its last byte
\* was in the buffer already.
Found(f, n, w) ==
    /\ f.cur + n <= Len(f.data) /\ Reader!Advance(n, f).cur = f.cur + n
    /\ \A k \in 1 .. n : f.data[f.cur + k] = w[k]
Stale(f, b, n, w) ==
    f.cur + n > Len(f.data) /\ Reader!Advance(n, f).cur = Len(f.data) /\ b[n - 1] = w[n]
Taken(d, b, n, w) == \A k \in 0 .. 3 : d[k] = IF k < n THEN w[k + 1] ELSE b[k]

LEMMA TagRead ==
    ASSUME NEW f, FileIs(f), NEW b \in Reader!Buffer, NEW n \in Nat, NEW w \in Seq(Byte),
           n \in 1 .. 4, Len(w) = n, Reader!Holds(Reader!ReadInto(b, n, f), w)
    PROVE  /\ Found(f, n, w) \/ Stale(f, b, n, w)
           /\ Taken(Reader!ReadInto(b, n, f), b, n, w)
<1>0. (\A k \in 0 .. 3 : Reader!ReadInto(b, n, f)[k] =
          (IF k < n /\ f.cur + k < Len(f.data) THEN f.data[f.cur + k + 1] ELSE b[k]))
  BY ReadBytes
<1>d. PICK d : d = Reader!ReadInto(b, n, f)
  OBVIOUS
<1>1. PICK c \in Nat, l \in Nat : c = f.cur /\ l = Len(f.data) /\ c <= l /\ n \in Nat
  BY DEF FileIs
<1>2. \A k \in 0 .. 3 : d[k] = IF k < n /\ c + k < l THEN f.data[c + k + 1] ELSE b[k]
  BY <1>0, <1>d, <1>1
<1>3. \A k \in 1 .. n : d[k - 1] = w[k]
  BY <1>d DEF Reader!Holds
<1>4. Reader!Advance(n, f).cur = Least(c + n, l)
  BY <1>1, ReadIs
<1>5. ASSUME NEW k \in 0 .. 3 PROVE d[k] = IF k < n THEN w[k + 1] ELSE b[k]
  <2>1. CASE k < n
    <3>1. k + 1 \in 1 .. n /\ (k + 1) - 1 = k
      BY <2>1
    <3> QED BY <1>3, <2>1, <3>1
  <2>2. CASE ~(k < n)
    BY <1>2, <2>2
  <2> QED BY <2>1, <2>2
<1>6. ASSUME c + n <= l PROVE Found(f, n, w)
  <2>1. ASSUME NEW k \in 1 .. n PROVE f.data[c + k] = w[k]
    <3>1. PICK j \in 0 .. 3 : j = k - 1 /\ j < n /\ c + j < l /\ c + j + 1 = c + k
      <4>1. k - 1 \in 0 .. 3 /\ k - 1 < n /\ c + (k - 1) < l /\ c + (k - 1) + 1 = c + k
        BY <1>6
      <4> QED BY <4>1
    <3>2. d[j] = f.data[c + j + 1]
      BY <1>2, <3>1
    <3> QED BY <1>3, <3>1, <3>2
  <2>2. Reader!Advance(n, f).cur = c + n
    BY <1>4, <1>6 DEF Least
  <2> QED BY <1>1, <1>6, <2>1, <2>2 DEF Found
<1>7. ASSUME c + n > l PROVE Stale(f, b, n, w)
  <2>1. PICK j \in 0 .. 3 : j = n - 1 /\ ~(c + j < l)
    <3>1. n - 1 \in 0 .. 3 /\ ~(c + (n - 1) < l)
      BY <1>7
    <3> QED BY <3>1
  <2>2. d[j] = b[j] /\ d[j] = w[n]
    BY <1>2, <1>3, <2>1
  <2>3. Reader!Advance(n, f).cur = l
    BY <1>4, <1>7 DEF Least
  <2> QED BY <1>1, <1>7, <2>1, <2>2, <2>3 DEF Stale
<1>8. Taken(Reader!ReadInto(b, n, f), b, n, w)
  BY <1>d, <1>5 DEF Taken
<1>9. c + n <= l \/ c + n > l
  BY <1>1
<1> QED BY <1>6, <1>7, <1>8, <1>9

\* The tags as sequences of bytes.
LEMMA TagsAre ==
    /\ Reader!RIFF \in Seq(Byte) /\ Len(Reader!RIFF) = 4 /\ Reader!RIFF[4] = 70
    /\ Reader!WAVE \in Seq(Byte) /\ Len(Reader!WAVE) = 4 /\ Reader!WAVE[4] = 69
    /\ Reader!fmt \in Seq(Byte) /\ Len(Reader!fmt) = 4 /\ Reader!fmt[4] = 32
    /\ Reader!Data \in Seq(Byte) /\ Len(Reader!Data) = 4 /\ Reader!Data[4] = 97
    /\ <<16, 0, 0, 0>> \in Seq(Byte) /\ Len(<<16, 0, 0, 0>>) = 4 /\ <<16, 0, 0, 0>>[4] = 0
    /\ <<1, 0>> \in Seq(Byte) /\ Len(<<1, 0>>) = 2
BY DEF Reader!RIFF, Reader!WAVE, Reader!fmt, Reader!Data, Byte

LEMMA ChecksAre ==
    /\ Len(Reader!Checks) = 6
    /\ Reader!Checks[1].skip = 0 /\ Reader!Checks[1].want = Reader!RIFF
    /\ Reader!Checks[2].skip = 4 /\ Reader!Checks[2].want = Reader!WAVE
    /\ Reader!Checks[3].skip = 0 /\ Reader!Checks[3].want = Reader!fmt
    /\ Reader!Checks[4].skip = 0 /\ Reader!Checks[4].want = <<16, 0, 0, 0>>
    /\ Reader!Checks[5].skip = 0 /\ Reader!Checks[5].want = <<1, 0>>
    /\ Reader!Checks[6].skip = 0 /\ Reader!Checks[6].want = <<1, 0>>
BY DEF Reader!Checks

LEMMA NoSamples ==
    waveForm' = <<>> => (Reader!SamplesDecoded /\ Reader!TailConstant /\ Reader!Bounded)'
<1>. SUFFICES ASSUME waveForm' = <<>>
              PROVE  (Reader!SamplesDecoded /\ Reader!TailConstant /\ Reader!Bounded)'
  OBVIOUS
<1>1. Len(waveForm') = 0
  OBVIOUS
<1> QED BY <1>1 DEF Reader!SamplesDecoded, Reader!TailConstant, Reader!Bounded

LEMMA CheckTagStep == ReaderInv /\ Reader!CheckTag => ReaderInv'
<1>. SUFFICES ASSUME ReaderInv, Reader!CheckTag PROVE ReaderInv'
  OBVIOUS
<1>1. PICK c \in 0 .. 5 : c = checked /\ rpc = "header" /\ waveForm = <<>>
  BY ChecksAre DEF ReaderInv, ReaderTypes, SamplesInv, Reader!CheckTag
<1>2. PICK s, w : s = Reader!Checks[c + 1].skip /\ w = Reader!Checks[c + 1].want
  OBVIOUS
<1>z. /\ c = 0 => s = 0 /\ w = Reader!RIFF /\ Len(w) = 4
      /\ c = 1 => s = 4 /\ w = Reader!WAVE /\ Len(w) = 4
      /\ c = 2 => s = 0 /\ w = Reader!fmt /\ Len(w) = 4
      /\ c = 3 => s = 0 /\ w = <<16, 0, 0, 0>> /\ Len(w) = 4
      /\ c \in {4, 5} => s = 0 /\ w = <<1, 0>> /\ Len(w) = 2
  <2>1. c = 0 => s = 0 /\ w = Reader!RIFF /\ Len(w) = 4
    BY <1>2, ChecksAre, TagsAre
  <2>2. c = 1 => s = 4 /\ w = Reader!WAVE /\ Len(w) = 4
    BY <1>2, ChecksAre, TagsAre
  <2>3. c = 2 => s = 0 /\ w = Reader!fmt /\ Len(w) = 4
    BY <1>2, ChecksAre, TagsAre
  <2>4. c = 3 => s = 0 /\ w = <<16, 0, 0, 0>> /\ Len(w) = 4
    BY <1>2, ChecksAre
  <2>5. c \in {4, 5} => s = 0 /\ w = <<1, 0>> /\ Len(w) = 2
    BY <1>2, ChecksAre
  <2> QED BY <2>1, <2>2, <2>3, <2>4, <2>5
<1>3. s \in Nat /\ w \in Seq(Byte) /\ Len(w) \in {2, 4}
  <2>1. c = 0 \/ c = 1 \/ c = 2 \/ c = 3 \/ c \in {4, 5}
    OBVIOUS
  <2>2. s \in Nat /\ Len(w) \in {2, 4}
    BY <1>z, <2>1
  <2>3. w \in Seq(Byte)
    BY Zenon, <1>z, <2>1, TagsAre
  <2> QED BY <2>2, <2>3
<1>4. PICK at : at = Reader!SeekMemFile(s, fp)
  OBVIOUS
<1>5. /\ FileIs(at) /\ at.data = fp.data
      /\ at.cur = IF fp.cur + s <= Len(fp.data) THEN fp.cur + s ELSE fp.cur
  BY <1>3, <1>4, SeekIs DEF ReaderInv, ReaderTypes
<1>6. PICK n \in Nat : n = Len(w) /\ n \in {2, 4} /\ n \in 1 .. 4
  <2>1. Len(w) \in {2, 4} /\ Len(w) \in Nat /\ Len(w) \in 1 .. 4
    BY <1>3
  <2> QED BY <2>1
<1>7. dataCheck' = Reader!ReadInto(dataCheck, n, at) /\ fp' = Reader!Advance(n, at)
  BY <1>1, <1>2, <1>4, <1>6 DEF Reader!CheckTag
<1>8. /\ IF Reader!Holds(dataCheck', w)
         THEN checked' = c + 1 /\ UNCHANGED <<rpc, opened>>
         ELSE rpc' = "refused" /\ opened' = FALSE /\ UNCHANGED checked
      /\ UNCHANGED <<forIntNumber, rNbit, waveLength, waveForm>>
  BY <1>1, <1>2 DEF Reader!CheckTag, Reader!format
<1>9. FileIs(fp') /\ fp'.data = fp.data /\ dataCheck' \in Reader!Buffer
  BY <1>5, <1>6, <1>7, ReadIs DEF ReaderInv, ReaderTypes
<1>10. ReaderTypes'
  BY <1>1, <1>8, <1>9 DEF ReaderInv, ReaderTypes
<1>11. rpc' \in {"header", "refused"}
  BY <1>1, <1>8
<1>12. Reader!HeaderIsInFile' /\ SamplesInv'
  <2>1. Reader!HeaderIsInFile'
    BY <1>11 DEF Reader!HeaderIsInFile, Reader!Accepted
  <2> QED BY <1>1, <1>8, <1>11, <2>1, NoSamples DEF SamplesInv
<1>13. Reader!Closed'
  BY <1>1, <1>8, <1>11 DEF Reader!Closed
<1>14. HeaderInv'
  <2>1. CASE rpc' = "refused"
    BY <2>1 DEF HeaderInv
  <2>2. CASE rpc' = "header"
    <3>1. Reader!Holds(dataCheck', w) /\ checked' = c + 1
      BY <1>8, <2>2
    <3>a. PICK b \in Reader!Buffer, d \in Reader!Buffer : b = dataCheck /\ d = dataCheck'
      BY <1>9 DEF ReaderInv, ReaderTypes
    <3>b. d = Reader!ReadInto(b, n, at) /\ Reader!Holds(Reader!ReadInto(b, n, at), w)
      BY <1>7, <3>1, <3>a
    <3>2. (Found(at, n, w) \/ Stale(at, b, n, w)) /\ Taken(d, b, n, w)
      BY <1>3, <1>5, <1>6, <3>b, TagRead
    <3>3. /\ c >= 4 => b[3] = 0
          /\ AtEnd \/ (Passed(c) /\ fp.cur = Place(c))
      BY <1>1, <3>a DEF ReaderInv, HeaderInv
    <3>4. c + 1 >= 4 => d[3] = 0
      <4>1. CASE c = 3
        <5>1. <<16, 0, 0, 0>>[4] = 0
          OBVIOUS
        <5>2. w[4] = 0 /\ n = 4
          BY Zenon, <1>6, <1>z, <4>1, <5>1
        <5> QED BY <3>2, <5>2 DEF Taken
      <4>2. CASE c \in {4, 5}
        <5>1. n = 2
          BY <1>6, <1>z, <4>2
        <5> QED BY <3>2, <3>3, <4>2, <5>1 DEF Taken
      <4> QED BY <1>1, <4>1, <4>2
    <3>5. AtEnd' \/ (Passed(c + 1)' /\ fp'.cur = Place(c + 1))
      <4>1. PICK f \in Nat, g \in Nat, l \in Nat :
              f = fp.cur /\ g = at.cur /\ l = Len(fp.data) /\ f <= g /\ g <= l
        BY <1>3, <1>5 DEF FileIs, ReaderInv, ReaderTypes
      <4>5. g = IF f + s <= l THEN f + s ELSE f
        BY <1>5, <4>1
      <4>2. /\ AtEnd <=> l - f < 4
            /\ AtEnd' <=> l - fp'.cur < 4
        BY <1>9, <4>1 DEF AtEnd
      <4>3. CASE Stale(at, b, n, w)
        <5>1. fp'.cur = l
          BY <1>5, <1>7, <4>1, <4>3 DEF Stale
        <5> QED BY <4>1, <4>2, <5>1
      <4>4. CASE Found(at, n, w)
        <5>1. fp'.cur = g + n /\ g + n <= l /\ \A k \in 1 .. n : fp'.data[g + k] = w[k]
          BY <1>5, <1>7, <1>9, <4>1, <4>4 DEF Found
        <5>2. CASE AtEnd
          BY <1>6, <4>1, <4>2, <5>1, <5>2
        <5>3. CASE Passed(c) /\ fp.cur = Place(c)
          <6>1. Passed(c)'
            BY <1>9, <5>3 DEF Passed, Reader!At
          <6>2. l = Len(fp'.data) /\ Len(w) = n
            BY <1>6, <1>9, <4>1
          <6>9. Reader!At(g, w)'
            BY <4>1, <5>1, <6>2 DEF Reader!At
          <6>3. CASE c = 0
            <7>3. f = 0
              BY <4>1, <5>3, <6>3 DEF Place
            <7>4. s = 0 /\ n = 4 /\ w = Reader!RIFF
              BY <1>6, <1>z, <6>3
            <7>1. g = 0 /\ w = Reader!RIFF /\ fp'.cur = 4
              BY <4>1, <4>5, <5>1, <7>3, <7>4
            <7>2. Reader!At(0, Reader!RIFF)'
              BY <6>9, <7>1 DEF Reader!At
            <7> QED BY <6>1, <6>3, <7>1, <7>2 DEF Passed, Place
          <6>4. CASE c = 1
            <7>3. f = 4
              BY <4>1, <5>3, <6>4 DEF Place
            <7>4. s = 4 /\ n = 4 /\ w = Reader!WAVE
              BY <1>6, <1>z, <6>4
            <7>1. g = 8 /\ w = Reader!WAVE /\ fp'.cur = 12
              BY <4>1, <4>5, <5>1, <7>3, <7>4
            <7>2. Reader!At(8, Reader!WAVE)'
              BY <6>9, <7>1 DEF Reader!At
            <7> QED BY <6>1, <6>4, <7>1, <7>2 DEF Passed, Place
          <6>5. CASE c = 2
            <7>3. f = 12
              BY <4>1, <5>3, <6>5 DEF Place
            <7>4. s = 0 /\ n = 4 /\ w = Reader!fmt
              BY <1>6, <1>z, <6>5
            <7>1. g = 12 /\ w = Reader!fmt /\ fp'.cur = 16
              BY <4>1, <4>5, <5>1, <7>3, <7>4
            <7>2. Reader!At(12, Reader!fmt)'
              BY <6>9, <7>1 DEF Reader!At
            <7> QED BY <6>1, <6>5, <7>1, <7>2 DEF Passed, Place
          <6>6. CASE c = 3
            <7>3. f = 16
              BY <4>1, <5>3, <6>6 DEF Place
            <7>4. s = 0 /\ n = 4 /\ w = <<16, 0, 0, 0>>
              BY <1>6, <1>z, <6>6
            <7>1. g = 16 /\ w = <<16, 0, 0, 0>> /\ fp'.cur = 20
              BY <4>1, <4>5, <5>1, <7>3, <7>4
            <7>2. Reader!At(16, <<16, 0, 0, 0>>)'
              BY <6>9, <7>1 DEF Reader!At
            <7> QED BY <6>1, <6>6, <7>1, <7>2 DEF Passed, Place
          <6>7. CASE c = 4
            <7>3. f = 20
              BY <4>1, <5>3, <6>7 DEF Place
            <7>4. s = 0 /\ n = 2 /\ w = <<1, 0>>
              BY <1>6, <1>z, <6>7
            <7>1. g = 20 /\ w = <<1, 0>> /\ fp'.cur = 22
              BY <4>1, <4>5, <5>1, <7>3, <7>4
            <7>2. Reader!At(20, <<1, 0>>)'
              BY <6>9, <7>1 DEF Reader!At
            <7> QED BY <6>1, <6>7, <7>1, <7>2 DEF Passed, Place
          <6>8. CASE c = 5
            <7>3. f = 22
              BY <4>1, <5>3, <6>8 DEF Place
            <7>4. s = 0 /\ n = 2 /\ w = <<1, 0>>
              BY <1>6, <1>z, <6>8
            <7>1. g = 22 /\ w = <<1, 0>> /\ fp'.cur = 24
              BY <4>1, <4>5, <5>1, <7>3, <7>4
            <7>2. Reader!At(22, <<1, 0>>)'
              BY <6>9, <7>1 DEF Reader!At
            <7> QED BY <6>1, <6>8, <7>1, <7>2 DEF Passed, Place
          <6> QED BY <1>1, <6>3, <6>4, <6>5, <6>6, <6>7, <6>8
        <5> QED BY <3>3, <5>2, <5>3
      <4> QED BY <3>2, <4>3, <4>4
    <3> QED BY <2>2, <3>1, <3>4, <3>5, <3>a DEF HeaderInv
  <2> QED BY <1>11, <2>1, <2>2
<1> QED BY <1>10, <1>12, <1>13, <1>14 DEF ReaderInv

LEMMA ReadFormatStep == ReaderInv /\ Reader!ReadFormat => ReaderInv'
<1>. SUFFICES ASSUME ReaderInv, Reader!ReadFormat PROVE ReaderInv'
  OBVIOUS
<1>1. rpc = "header" /\ checked = 6 /\ waveForm = <<>>
  BY ChecksAre DEF ReaderInv, SamplesInv, Reader!ReadFormat
<1>2. PICK rate, mid, at :
         /\ rate = Reader!ReadInto(forIntNumber, 4, fp) /\ mid = Reader!Advance(4, fp)
         /\ at = Reader!SeekMemFile(6, mid)
  OBVIOUS
<1>3. /\ forIntNumber' = Reader!ReadInto(rate, 2, at) /\ fp' = Reader!Advance(2, at)
      /\ rNbit' = forIntNumber'[0] /\ rpc' = "data"
      /\ UNCHANGED <<opened, dataCheck, checked, waveLength, waveForm>>
  BY <1>2 DEF Reader!ReadFormat
<1>4. FileIs(fp) /\ forIntNumber \in Reader!Buffer
  BY DEF ReaderInv, ReaderTypes
<1>5. rate \in Reader!Buffer
  BY <1>2, <1>4, ReadIs
<1>6. FileIs(mid) /\ mid.data = fp.data /\ mid.cur = Least(fp.cur + 4, Len(fp.data))
  BY <1>2, <1>4, ReadIs
<1>7. /\ FileIs(at) /\ at.data = fp.data
      /\ at.cur = IF mid.cur + 6 <= Len(fp.data) THEN mid.cur + 6 ELSE mid.cur
  BY <1>2, <1>6, SeekIs
<1>8. forIntNumber' \in Reader!Buffer
  BY <1>3, <1>5, <1>7, ReadIs
<1>9. FileIs(fp') /\ fp'.data = fp.data /\ fp'.cur = Least(at.cur + 2, Len(fp.data))
  <2>1. /\ FileIs(Reader!Advance(2, at)) /\ Reader!Advance(2, at).data = at.data
        /\ Reader!Advance(2, at).cur = Least(at.cur + 2, Len(at.data))
    BY <1>5, <1>7, ReadIs
  <2> QED BY <1>3, <1>7, <2>1
<1>10. ReaderTypes'
  <2>1. rNbit' \in Byte
    BY <1>3, <1>8 DEF Reader!Buffer, Reader!Byte, Byte
  <2> QED BY <1>3, <1>8, <1>9, <2>1 DEF ReaderInv, ReaderTypes
<1>11. AtEnd' \/ (Passed(6)' /\ fp'.cur = 36)
  <2>1. PICK l \in Nat, c0 \in Nat, c1 \in Nat, c2 \in Nat, c3 \in Nat :
          /\ l = Len(fp.data) /\ c0 = fp.cur /\ c1 = mid.cur /\ c2 = at.cur /\ c3 = fp'.cur
          /\ c0 <= l
    BY <1>4, <1>6, <1>7, <1>9 DEF FileIs
  <2>2. /\ c1 = Least(c0 + 4, l) /\ c2 = (IF c1 + 6 <= l THEN c1 + 6 ELSE c1)
        /\ c3 = Least(c2 + 2, l)
    BY <1>6, <1>7, <1>9, <2>1
  <2>3. (AtEnd <=> l - c0 < 4) /\ (AtEnd' <=> l - c3 < 4)
    BY <1>9, <2>1 DEF AtEnd
  <2>4. AtEnd \/ (Passed(6) /\ c0 = 24)
    BY <1>1, <2>1 DEF ReaderInv, HeaderInv, Place
  <2>5. Passed(6)' <=> Passed(6)
    BY <1>9 DEF Passed, Reader!At
  <2>6. ASSUME l - c0 < 4 PROVE l - c3 < 4
    <3>1. c1 = l
      BY <2>1, <2>2, <2>6 DEF Least
    <3>2. c2 = l
      BY <2>2, <3>1
    <3> QED BY <2>2, <3>2 DEF Least
  <2>7. ASSUME c0 = 24 PROVE l - c3 < 4 \/ c3 = 36
    <3>1. CASE l < 28
      <4>1. c1 = l
        BY <2>2, <2>7, <3>1 DEF Least
      <4>2. c2 = l
        BY <2>2, <4>1
      <4> QED BY <2>2, <4>2 DEF Least
    <3>2. CASE l >= 28 /\ l < 34
      <4>1. c1 = 28
        BY <2>2, <2>7, <3>2 DEF Least
      <4>2. c2 = 28
        BY <2>2, <3>2, <4>1
      <4> QED BY <2>2, <3>2, <4>2 DEF Least
    <3>3. CASE l >= 34
      <4>1. c1 = 28
        BY <2>2, <2>7, <3>3 DEF Least
      <4>2. c2 = 34
        BY <2>2, <3>3, <4>1
      <4> QED BY <2>2, <3>3, <4>2 DEF Least
    <3> QED BY <3>1, <3>2, <3>3
  <2> QED BY <2>1, <2>3, <2>4, <2>5, <2>6, <2>7
<1>12. HeaderInv'
  BY <1>1, <1>3, <1>11 DEF ReaderInv, HeaderInv
<1>13. Reader!HeaderIsInFile' /\ Reader!Closed'
  BY <1>3 DEF Reader!HeaderIsInFile, Reader!Accepted, Reader!Closed
<1>14. SamplesInv'
  BY <1>1, <1>3, NoSamples DEF SamplesInv
<1> QED BY <1>10, <1>12, <1>13, <1>14 DEF ReaderInv

LEMMA CheckDataStep == ReaderInv /\ Reader!CheckData => ReaderInv'
<1>. SUFFICES ASSUME ReaderInv, Reader!CheckData PROVE ReaderInv'
  OBVIOUS
<1>1. rpc = "data" /\ checked = 6 /\ waveForm = <<>>
  BY DEF ReaderInv, HeaderInv, SamplesInv, Reader!CheckData
<1>2. /\ dataCheck' = Reader!ReadInto(dataCheck, 4, fp) /\ fp' = Reader!Advance(4, fp)
      /\ IF Reader!Holds(dataCheck', Reader!Data)
         THEN rpc' = "length" /\ opened' = opened ELSE rpc' = "refused" /\ opened' = FALSE
      /\ UNCHANGED <<forIntNumber, checked, rNbit, waveLength, waveForm>>
  BY DEF Reader!CheckData, Reader!format
<1>3. PICK b \in Reader!Buffer : b = dataCheck /\ FileIs(fp) /\ b[3] = 0
  BY <1>1 DEF ReaderInv, ReaderTypes, HeaderInv
<1>4. FileIs(fp') /\ fp'.data = fp.data /\ dataCheck' \in Reader!Buffer
  BY <1>2, <1>3, ReadIs
<1>5. ReaderTypes'
  BY <1>2, <1>4 DEF ReaderInv, ReaderTypes
<1>6. SamplesInv'
  <2>1. rpc' \in {"length", "refused"}
    BY <1>2
  <2> QED BY <1>1, <1>2, <2>1, NoSamples DEF SamplesInv
<1>7. CASE rpc' = "refused"
  <2>1. Reader!HeaderIsInFile' /\ Reader!Closed' /\ HeaderInv'
    BY <1>2, <1>7 DEF Reader!HeaderIsInFile, Reader!Accepted, Reader!Closed, HeaderInv
  <2> QED BY <1>5, <1>6, <2>1 DEF ReaderInv
<1>8. CASE rpc' = "length"
  <2>1. Reader!Holds(Reader!ReadInto(b, 4, fp), Reader!Data)
    BY <1>2, <1>3, <1>8
  <2>2. PICK w \in Seq(Byte) : w = Reader!Data /\ Len(w) = 4 /\ w[4] = 97
    BY TagsAre
  <2>3. Found(fp, 4, w) \/ Stale(fp, b, 4, w)
    <3>1. PICK f : f = fp /\ FileIs(f)
      BY <1>3
    <3>2. PICK n \in Nat : n = 4 /\ n \in 1 .. 4
      OBVIOUS
    <3>3. Reader!Holds(Reader!ReadInto(b, n, f), w) /\ Len(w) = n
      BY <2>1, <2>2, <3>1, <3>2
    <3>4. Found(f, n, w) \/ Stale(f, b, n, w)
      BY <1>3, <3>1, <3>2, <3>3, TagRead
    <3> QED BY <3>1, <3>2, <3>4
  <2>4. ~Stale(fp, b, 4, w)
    BY <1>3, <2>2 DEF Stale
  <2>5. PICK l \in Nat, c \in Nat : l = Len(fp.data) /\ c = fp.cur
    BY <1>3 DEF FileIs
  <2>6. c + 4 <= l /\ fp'.cur = c + 4 /\ \A k \in 1 .. 4 : fp.data[c + k] = w[k]
    BY <1>2, <2>3, <2>4, <2>5 DEF Found
  <2>7. Passed(6) /\ c = 36
    BY <1>1, <2>5, <2>6 DEF ReaderInv, HeaderInv, AtEnd
  <2>8. Reader!At(36, Reader!Data)'
    BY <1>4, <2>2, <2>5, <2>6, <2>7 DEF Reader!At
  <2>9. Passed(6)'
    BY <1>4, <2>7 DEF Passed, Reader!At
  <2>10. Reader!HeaderIsInFile' /\ Reader!Closed'
    BY <1>8, <2>8, <2>9 DEF Reader!HeaderIsInFile, Reader!Closed, Passed
  <2>11. HeaderInv'
    BY <1>8, <2>6, <2>7 DEF HeaderInv
  <2> QED BY <1>5, <1>6, <2>10, <2>11 DEF ReaderInv
<1> QED BY <1>2, <1>7, <1>8

LEMMA ReadLengthStep == ReaderInv /\ Reader!ReadLength => ReaderInv'
<1>. SUFFICES ASSUME ReaderInv, Reader!ReadLength PROVE ReaderInv'
  OBVIOUS
<1>1. rpc = "length" /\ fp.cur = 40 /\ waveForm = <<>> /\ FileIs(fp)
      /\ forIntNumber \in Reader!Buffer
  BY DEF ReaderInv, ReaderTypes, HeaderInv, SamplesInv, Reader!ReadLength
<1>2. /\ forIntNumber' = Reader!ReadInto(forIntNumber, 4, fp) /\ fp' = Reader!Advance(4, fp)
      /\ UNCHANGED <<opened, dataCheck, checked, rNbit, waveForm>>
      /\ rpc' \in {"malloc", "died"}
  BY DEF Reader!ReadLength, Reader!format
<1>3. /\ FileIs(fp') /\ fp'.data = fp.data /\ forIntNumber' \in Reader!Buffer
      /\ fp'.cur = Least(44, Len(fp.data))
  <2>1. fp'.cur = Least(fp.cur + 4, Len(fp.data)) /\ fp.cur + 4 = 44
    BY <1>1, <1>2, ReadIs
  <2>2. FileIs(fp') /\ fp'.data = fp.data
    BY <1>1, <1>2, ReadIs
  <2>3. forIntNumber' \in Reader!Buffer
    BY <1>1, <1>2, ReadIs
  <2> QED BY <2>1, <2>2, <2>3
<1>4. waveLength' \in Int /\ (Bytes = 0 => waveLength' = 0)
  <2>1. CASE Bytes = 0
    BY <2>1 DEF Reader!ReadLength, Bytes
  <2>2. CASE Bytes # 0
    <3>1. PICK q \in Nat \ {0} : q = Bytes
      BY <2>2 DEF ReaderInv, ReaderTypes, Bytes, Reader!quantizationByte, Byte
    <3>2. PICK v \in Int : v = Reader!Int32(forIntNumber')
      <4>1. PICK b0 \in Int, b1 \in Int, b2 \in Int, b3 \in Int :
              b0 = forIntNumber'[0] /\ b1 = forIntNumber'[1] /\ b2 = forIntNumber'[2]
              /\ b3 = forIntNumber'[3]
        <5>1. PICK b \in Reader!Buffer : b = forIntNumber'
          BY <1>3
        <5>2. b[0] \in Int /\ b[1] \in Int /\ b[2] \in Int /\ b[3] \in Int
          BY DEF Reader!Buffer, Reader!Byte
        <5> QED BY <5>1, <5>2
      <4>2. PICK t \in Int : t = IF b3 >= 128 THEN b3 - 256 ELSE b3
        <5>1. (IF b3 >= 128 THEN b3 - 256 ELSE b3) \in Int
          OBVIOUS
        <5> QED BY <5>1
      <4>3. Reader!Int32(forIntNumber') = b0 + 256 * b1 + 65536 * b2 + 16777216 * t
        BY <4>1, <4>2 DEF Reader!Int32
      <4> QED BY <4>3
    <3>3. Reader!Quotient(v, q) \in Int
      BY <3>1, <3>2 DEF Reader!Quotient
    <3>4. waveLength' = Reader!Quotient(v, q)
      BY <2>2, <3>1, <3>2 DEF Reader!ReadLength, Bytes
    <3> QED BY <2>2, <3>3, <3>4
  <2> QED BY <2>1, <2>2
<1>5. ReaderTypes'
  BY <1>2, <1>3, <1>4 DEF ReaderInv, ReaderTypes
<1>6. HeaderInv' /\ Reader!Closed'
  BY <1>2 DEF HeaderInv, Reader!Closed
<1>7. Reader!HeaderIsInFile'
  BY <1>1, <1>2, <1>3 DEF ReaderInv, Reader!HeaderIsInFile, Reader!Accepted, Reader!At
<1>8. SamplesInv'
  <2>1. Bytes' = Bytes /\ Bytes \in Nat
    BY <1>2 DEF Bytes, Reader!quantizationByte, ReaderInv, ReaderTypes, Byte
  <2>2. waveForm' = <<>> /\ Len(waveForm') = 0 /\ 44 + 0 * Bytes = 44
    BY <1>1, <1>2, <2>1
  <2>3. fp'.cur = Least(44 + Len(waveForm') * Bytes', Len(fp'.data))
    BY <1>3, <2>1, <2>2
  <2> QED BY <1>2, <1>4, <2>1, <2>2, <2>3, NoSamples DEF SamplesInv
<1> QED BY <1>5, <1>6, <1>7, <1>8 DEF ReaderInv

LEMMA AllocateStep == ReaderInv /\ Reader!Allocate => ReaderInv'
<1>. SUFFICES ASSUME ReaderInv, Reader!Allocate PROVE ReaderInv'
  OBVIOUS
<1>1. /\ rpc = "malloc" /\ waveForm = <<>>
      /\ \/ waveLength >= 0 /\ rpc' = "samples"
         \/ waveLength \notin 0 .. MaxLength /\ rpc' = "refused"
      /\ UNCHANGED <<fp, opened, dataCheck, forIntNumber, checked, rNbit, waveLength, waveForm>>
  BY DEF ReaderInv, SamplesInv, Reader!Allocate, Reader!format
<1>2. ReaderTypes' /\ HeaderInv' /\ Reader!Closed'
  BY <1>1 DEF ReaderInv, ReaderTypes, HeaderInv, Reader!Closed
<1>3. Reader!HeaderIsInFile'
  BY <1>1 DEF ReaderInv, Reader!HeaderIsInFile, Reader!Accepted, Reader!At
<1>4. SamplesInv'
  <2>1. Bytes' = Bytes
    BY <1>1 DEF Bytes, Reader!quantizationByte
  <2>2. Len(waveForm') = 0
    BY <1>1
  <2> QED BY <1>1, <2>1, <2>2, NoSamples DEF ReaderInv, SamplesInv
<1> QED BY <1>2, <1>3, <1>4 DEF ReaderInv

\* What has been read is judged by the samples, the bytes and the bits alone.
LEMMA SamplesStay ==
    ASSUME UNCHANGED <<fp, rNbit, waveForm>>
    PROVE  /\ Reader!SamplesDecoded' <=> Reader!SamplesDecoded
           /\ Reader!TailConstant' <=> Reader!TailConstant
           /\ Reader!Bounded' <=> Reader!Bounded
<1>1. Bytes' = Bytes /\ Reader!zeroLine' = Reader!zeroLine
      /\ Reader!quantizationByte' = Reader!quantizationByte
  BY DEF Bytes, Reader!quantizationByte, Reader!zeroLine
<1>2. \A b : Reader!Magnitude(b)' = Reader!Magnitude(b)
  BY <1>1 DEF Reader!Magnitude
<1>3. \A k : Reader!Sample(k)' = Reader!Sample(k)
  BY <1>1, <1>2 DEF Reader!Sample
<1>4. \A k : Reader!InFile(k)' <=> Reader!InFile(k)
  BY <1>1 DEF Reader!InFile
<1>5. Reader!SamplesDecoded' <=> Reader!SamplesDecoded
  BY <1>3, <1>4 DEF Reader!SamplesDecoded
<1>6. Reader!TailConstant' <=> Reader!TailConstant
  BY <1>1 DEF Reader!TailConstant
<1>7. Reader!Bounded' <=> Reader!Bounded
  BY <1>1 DEF Reader!Bounded
<1> QED BY <1>5, <1>6, <1>7

LEMMA ReadReturnStep == ReaderInv /\ Reader!Return => ReaderInv'
<1>. SUFFICES ASSUME ReaderInv, Reader!Return PROVE ReaderInv'
  OBVIOUS
<1>1. /\ rpc = "samples" /\ rpc' = "done" /\ opened' = FALSE
      /\ UNCHANGED <<fp, dataCheck, forIntNumber, checked, rNbit, waveLength, waveForm>>
  BY DEF Reader!Return, Reader!format
<1>2. ReaderTypes' /\ HeaderInv' /\ Reader!Closed'
  BY <1>1 DEF ReaderInv, ReaderTypes, HeaderInv, Reader!Closed
<1>3. Reader!HeaderIsInFile'
  BY <1>1 DEF ReaderInv, Reader!HeaderIsInFile, Reader!Accepted, Reader!At
<1>4. SamplesInv'
  BY <1>1, SamplesStay DEF ReaderInv, SamplesInv
<1> QED BY <1>2, <1>3, <1>4 DEF ReaderInv

LEMMA ReaderStutter ==
    ASSUME ReaderInv, UNCHANGED readerVars
    PROVE  ReaderInv'
<1>1. UNCHANGED <<fp, opened, dataCheck, forIntNumber, checked, rNbit, waveLength, waveForm, rpc>>
  BY DEF readerVars
<1>2. ReaderTypes' /\ HeaderInv' /\ Reader!Closed'
  <2>1. ReaderTypes' /\ Reader!Closed'
    BY <1>1 DEF ReaderInv, ReaderTypes, Reader!Closed
  <2>2. (AtEnd' <=> AtEnd) /\ (Passed(checked)' <=> Passed(checked))
    BY <1>1 DEF AtEnd, Passed, Reader!At
  <2> QED BY <1>1, <2>1, <2>2 DEF ReaderInv, HeaderInv
<1>3. Reader!HeaderIsInFile'
  BY <1>1 DEF ReaderInv, Reader!HeaderIsInFile, Reader!Accepted, Reader!At
<1>4. Bytes' = Bytes
  BY <1>1 DEF Bytes, Reader!quantizationByte
<1>5. \A b : Reader!Magnitude(b)' = Reader!Magnitude(b)
  BY <1>1 DEF Reader!Magnitude, Reader!quantizationByte
<1>6. Reader!Magnitude(forIntNumber)' = Reader!Magnitude(forIntNumber)
  BY <1>1 DEF Reader!Magnitude, Reader!quantizationByte
<1>7. SamplesInv'
  BY <1>1, <1>4, <1>6, SamplesStay DEF ReaderInv, SamplesInv
<1> QED BY <1>2, <1>3, <1>7 DEF ReaderInv

\* A sample of q bytes without its sign is below this.
HalfRange(q) == CASE q = 1 -> 128 [] q = 2 -> 128 * 256 [] q = 3 -> 128 * (256 * 256)
                  [] OTHER -> 128 * (256 * (256 * 256))

LEMMA MagnitudeIs ==
    ASSUME NEW q \in 1 .. 4, q = Bytes, NEW b \in Reader!Buffer
    PROVE  /\ q = 1 => Reader!Magnitude(b) = b[0]
           /\ q = 2 => Reader!Magnitude(b) = b[0] + 256 * b[1]
           /\ q = 3 => Reader!Magnitude(b) = b[0] + 256 * (b[1] + 256 * b[2])
           /\ q = 4 => Reader!Magnitude(b) = b[0] + 256 * (b[1] + 256 * (b[2] + 256 * b[3]))
<1>1. PICK b0 \in Nat, b1 \in Nat, b2 \in Nat, b3 \in Nat :
         b0 = b[0] /\ b1 = b[1] /\ b2 = b[2] /\ b3 = b[3]
  <2>1. b[0] \in Nat /\ b[1] \in Nat /\ b[2] \in Nat /\ b[3] \in Nat
    BY DEF Reader!Buffer, Reader!Byte
  <2> QED BY <2>1
<1>2. Reader!Magnitude(b) = ((b0 + IF q > 1 THEN 256 * b1 ELSE 0)
                             + IF q > 2 THEN 65536 * b2 ELSE 0)
                             + IF q > 3 THEN 16777216 * b3 ELSE 0
  BY SMT, <1>1 DEF Reader!Magnitude, Bytes
<1>3. CASE q = 1
  <2>1. Reader!Magnitude(b) = b0
    BY SMT, <1>2, <1>3
  <2> QED BY SMT, <1>1, <1>3, <2>1
<1>4. CASE q = 2
  <2>1. Reader!Magnitude(b) = b0 + 256 * b1
    BY SMT, <1>2, <1>4
  <2> QED BY SMT, <1>1, <1>4, <2>1
<1>5. CASE q = 3
  <2>1. Reader!Magnitude(b) = b0 + 256 * (b1 + 256 * b2)
    BY SMT, <1>2, <1>5
  <2> QED BY SMT, <1>1, <1>5, <2>1
<1>6. CASE q = 4
  <2>1. Reader!Magnitude(b) = b0 + 256 * (b1 + 256 * (b2 + 256 * b3))
    BY SMT, <1>2, <1>6
  <2> QED BY SMT, <1>1, <1>6, <2>1
<1> QED BY <1>3, <1>4, <1>5, <1>6

LEMMA SignCut ==
    ASSUME NEW x \in Byte
    PROVE  /\ x % 128 \in Byte /\ x % 128 < 128
           /\ x = (x % 128) + IF x >= 128 THEN 128 ELSE 0
<1>1. x \in Nat /\ x <= 255
  BY DEF Byte
<1>2. CASE x < 128
  BY <1>1, <1>2 DEF Byte
<1>3. CASE x >= 128
  BY <1>1, <1>3 DEF Byte
<1> QED BY <1>1, <1>2, <1>3

LEMMA FourBytes ==
    ASSUME NEW c0 \in Nat, NEW c1 \in Nat, NEW c2 \in Nat, NEW t \in Nat
    PROVE  c0 + 256 * (c1 + 256 * (c2 + 256 * (t + 128)))
              = (c0 + 256 * (c1 + 256 * (c2 + 256 * t))) + 128 * (256 * (256 * 256))
BY SMT

LEMMA UnsignedIs ==
    ASSUME NEW q \in 1 .. 4, q = Bytes, NEW b \in Reader!Buffer
    PROVE  /\ Reader!Unsigned(b) \in Reader!Buffer /\ Reader!Unsigned(b)[q - 1] < 128
           /\ b[q - 1] < 128 => Reader!Unsigned(b) = b
           /\ Reader!Magnitude(Reader!Unsigned(b)) \in Nat
           /\ Reader!Magnitude(Reader!Unsigned(b)) < HalfRange(q)
           /\ Reader!Magnitude(b) = Reader!Magnitude(Reader!Unsigned(b))
                                     + IF Reader!Negative(b) THEN HalfRange(q) ELSE 0
<1>1. PICK p \in 0 .. 3 : p = q - 1
  <2>1. q - 1 \in 0 .. 3
    OBVIOUS
  <2> QED BY <2>1
<1>2. PICK x \in Byte, t \in Byte : x = b[p] /\ t = x % 128 /\ t < 128
                               /\ x = t + IF x >= 128 THEN 128 ELSE 0
  <2>1. b[p] \in Byte
    BY DEF Reader!Buffer, Reader!Byte, Byte
  <2> QED BY <2>1, SignCut
<1>3. PICK u \in Reader!Buffer : u = Reader!Unsigned(b) /\ u = [b EXCEPT ![p] = t]
  <2>1. Reader!Unsigned(b) = [b EXCEPT ![p] = t]
    BY <1>1, <1>2 DEF Reader!Unsigned, Bytes
  <2>2. [b EXCEPT ![p] = t] \in Reader!Buffer
    BY <1>2 DEF Reader!Buffer, Reader!Byte, Byte
  <2> QED BY <2>1, <2>2
<1>4. u[p] = t /\ \A k \in 0 .. 3 : k # p => u[k] = b[k]
  BY <1>3 DEF Reader!Buffer
<1>5. x < 128 => u = b
  <2>1. SUFFICES ASSUME x < 128 PROVE u = b
    OBVIOUS
  <2>2. t = b[p]
    BY <1>2, <2>1 DEF Byte
  <2> QED BY <1>3, <2>2 DEF Reader!Buffer
<1>6. PICK b0 \in Nat, b1 \in Nat, b2 \in Nat, b3 \in Nat :
         /\ b0 = b[0] /\ b1 = b[1] /\ b2 = b[2] /\ b3 = b[3]
         /\ b0 < 256 /\ b1 < 256 /\ b2 < 256 /\ b3 < 256
  <2>1. /\ b[0] \in Nat /\ b[1] \in Nat /\ b[2] \in Nat /\ b[3] \in Nat
        /\ b[0] < 256 /\ b[1] < 256 /\ b[2] < 256 /\ b[3] < 256
    BY DEF Reader!Buffer, Reader!Byte
  <2> QED BY <2>1
<1>7. PICK s \in Nat : s = IF x >= 128 THEN 128 ELSE 0
  <2>1. (IF x >= 128 THEN 128 ELSE 0) \in Nat
    BY DEF Byte
  <2> QED BY <2>1
<1>8. x = t + s /\ t \in Nat /\ t < 128 /\ x \in Nat
  <2>1. t \in Nat /\ x \in Nat
    BY DEF Byte
  <2> QED BY <1>2, <1>7, <2>1
<1>9. Reader!Negative(b) <=> x >= 128
  BY <1>1, <1>2 DEF Reader!Negative, Bytes
<1>m. /\ q = 1 => Reader!Magnitude(u) = u[0]
      /\ q = 2 => Reader!Magnitude(u) = u[0] + 256 * u[1]
      /\ q = 3 => Reader!Magnitude(u) = u[0] + 256 * (u[1] + 256 * u[2])
      /\ q = 4 => Reader!Magnitude(u) = u[0] + 256 * (u[1] + 256 * (u[2] + 256 * u[3]))
  BY MagnitudeIs
<1>n. /\ q = 1 => Reader!Magnitude(b) = b0
      /\ q = 2 => Reader!Magnitude(b) = b0 + 256 * b1
      /\ q = 3 => Reader!Magnitude(b) = b0 + 256 * (b1 + 256 * b2)
      /\ q = 4 => Reader!Magnitude(b) = b0 + 256 * (b1 + 256 * (b2 + 256 * b3))
  <2>1. /\ q = 1 => Reader!Magnitude(b) = b[0]
        /\ q = 2 => Reader!Magnitude(b) = b[0] + 256 * b[1]
        /\ q = 3 => Reader!Magnitude(b) = b[0] + 256 * (b[1] + 256 * b[2])
        /\ q = 4 => Reader!Magnitude(b) = b[0] + 256 * (b[1] + 256 * (b[2] + 256 * b[3]))
    BY MagnitudeIs
  <2> QED BY <1>6, <2>1
<1>10. /\ Reader!Magnitude(u) \in Nat /\ Reader!Magnitude(u) < HalfRange(q)
       /\ Reader!Magnitude(b) = Reader!Magnitude(u) + IF Reader!Negative(b) THEN HalfRange(q) ELSE 0
  <2>1. CASE q = 1
    <3>1. p = 0 /\ x = b0 /\ u[0] = t
      BY <1>1, <1>2, <1>4, <1>6, <2>1
    <3>2. Reader!Magnitude(u) = t /\ Reader!Magnitude(b) = b0
      BY SMT, <1>m, <1>n, <2>1, <3>1
    <3>3. HalfRange(q) = 128
      BY <2>1 DEF HalfRange
    <3>4. CASE x >= 128
      <4>1. x = t + 128
        BY <1>7, <1>8, <3>4
      <4>2. x = (t) + 128
        BY SMT, <1>6, <1>8, <4>1
      <4>3. t \in Nat /\ t < 128
        BY SMT, <1>6, <1>8
      <4> QED BY SMT, <1>9, <3>1, <3>2, <3>3, <3>4, <4>2, <4>3
    <3>5. CASE ~(x >= 128)
      <4>1. x = t
        BY <1>7, <1>8, <3>5
      <4>2. t \in Nat /\ t < 128
        BY SMT, <1>6, <1>8
      <4> QED BY SMT, <1>9, <3>1, <3>2, <3>3, <3>5, <4>1, <4>2
    <3> QED BY <3>4, <3>5
  <2>2. CASE q = 2
    <3>1. p = 1 /\ x = b1 /\ u[1] = t /\ u[0] = b0
      BY <1>1, <1>2, <1>4, <1>6, <2>2
    <3>2. Reader!Magnitude(u) = b0 + 256 * t /\ Reader!Magnitude(b) = b0 + 256 * b1
      BY SMT, <1>m, <1>n, <2>2, <3>1
    <3>3. HalfRange(q) = 128 * 256
      BY <2>2 DEF HalfRange
    <3>4. CASE x >= 128
      <4>1. x = t + 128
        BY <1>7, <1>8, <3>4
      <4>2. b0 + 256 * x = (b0 + 256 * t) + 128 * 256
        BY SMT, <1>6, <1>8, <4>1
      <4>3. b0 + 256 * t \in Nat /\ b0 + 256 * t < 128 * 256
        BY SMT, <1>6, <1>8
      <4> QED BY SMT, <1>9, <3>1, <3>2, <3>3, <3>4, <4>2, <4>3
    <3>5. CASE ~(x >= 128)
      <4>1. x = t
        BY <1>7, <1>8, <3>5
      <4>2. b0 + 256 * t \in Nat /\ b0 + 256 * t < 128 * 256
        BY SMT, <1>6, <1>8
      <4> QED BY SMT, <1>9, <3>1, <3>2, <3>3, <3>5, <4>1, <4>2
    <3> QED BY <3>4, <3>5
  <2>3. CASE q = 3
    <3>1. p = 2 /\ x = b2 /\ u[2] = t /\ u[0] = b0 /\ u[1] = b1
      BY <1>1, <1>2, <1>4, <1>6, <2>3
    <3>2. /\ Reader!Magnitude(u) = b0 + 256 * (b1 + 256 * t)
          /\ Reader!Magnitude(b) = b0 + 256 * (b1 + 256 * b2)
      BY SMT, <1>m, <1>n, <2>3, <3>1
    <3>3. HalfRange(q) = 128 * (256 * 256)
      BY <2>3 DEF HalfRange
    <3>4. CASE x >= 128
      <4>1. x = t + 128
        BY <1>7, <1>8, <3>4
      <4>2. b0 + 256 * (b1 + 256 * x) = (b0 + 256 * (b1 + 256 * t)) + 128 * (256 * 256)
        BY SMT, <1>6, <1>8, <4>1
      <4>3. b0 + 256 * (b1 + 256 * t) \in Nat /\ b0 + 256 * (b1 + 256 * t) < 128 * (256 * 256)
        BY SMT, <1>6, <1>8
      <4> QED BY SMT, <1>9, <3>1, <3>2, <3>3, <3>4, <4>2, <4>3
    <3>5. CASE ~(x >= 128)
      <4>1. x = t
        BY <1>7, <1>8, <3>5
      <4>2. b0 + 256 * (b1 + 256 * t) \in Nat /\ b0 + 256 * (b1 + 256 * t) < 128 * (256 * 256)
        BY SMT, <1>6, <1>8
      <4> QED BY SMT, <1>9, <3>1, <3>2, <3>3, <3>5, <4>1, <4>2
    <3> QED BY <3>4, <3>5
  <2>4. CASE q = 4
    <3>1. p = 3 /\ x = b3 /\ u[3] = t /\ u[0] = b0 /\ u[1] = b1 /\ u[2] = b2
      BY <1>1, <1>2, <1>4, <1>6, <2>4
    <3>2. /\ Reader!Magnitude(u) = b0 + 256 * (b1 + 256 * (b2 + 256 * t))
          /\ Reader!Magnitude(b) = b0 + 256 * (b1 + 256 * (b2 + 256 * b3))
      BY SMT, <1>m, <1>n, <2>4, <3>1
    <3>3. HalfRange(q) = 128 * (256 * (256 * 256))
      BY <2>4 DEF HalfRange
    <3>4. CASE x >= 128
      <4>1. x = t + 128
        BY <1>7, <1>8, <3>4
      <4>2. b0 + 256 * (b1 + 256 * (b2 + 256 * x)) = (b0 + 256 * (b1 + 256 * (b2 + 256 * t))) + 128 * (256 * (256 * 256))
        <5>1. b0 + 256 * (b1 + 256 * (b2 + 256 * (t + 128))) = (b0 + 256 * (b1 + 256 * (b2 + 256 * t))) + 128 * (256 * (256 * 256))
          BY <1>8, FourBytes
        <5> QED BY Zenon, <4>1, <5>1
      <4>3. b0 + 256 * (b1 + 256 * (b2 + 256 * t)) \in Nat /\ b0 + 256 * (b1 + 256 * (b2 + 256 * t)) < 128 * (256 * (256 * 256))
        BY SMT, <1>6, <1>8
      <4> QED BY SMT, <1>9, <3>1, <3>2, <3>3, <3>4, <4>2, <4>3
    <3>5. CASE ~(x >= 128)
      <4>1. x = t
        BY <1>7, <1>8, <3>5
      <4>2. b0 + 256 * (b1 + 256 * (b2 + 256 * t)) \in Nat /\ b0 + 256 * (b1 + 256 * (b2 + 256 * t)) < 128 * (256 * (256 * 256))
        BY SMT, <1>6, <1>8
      <4> QED BY SMT, <1>9, <3>1, <3>2, <3>3, <3>5, <4>1, <4>2
    <3> QED BY <3>4, <3>5
  <2> QED BY <2>1, <2>2, <2>3, <2>4
<1> QED BY <1>1, <1>2, <1>3, <1>4, <1>5, <1>10

LEMMA RangeOfBits ==
    ASSUME NEW bits \in Byte, NEW q \in 1 .. 4, q = bits \div 8
    PROVE  2 ^ (bits - 1) \in Int /\ 2 ^ (bits - 1) >= HalfRange(q)
<1>1. PICK m \in Nat : m = bits - 1 /\ 8 * q <= m + 1 /\ m + 1 < 8 * q + 8
  <2>1. bits \in Nat /\ 8 * q <= bits /\ bits < 8 * q + 8
    BY DEF Byte
  <2>2. bits - 1 \in Nat
    BY <2>1
  <2> QED BY <2>1, <2>2
<1>2. CASE q = 1
  <2>0. 8 <= m + 1 /\ m + 1 < 16
    BY <1>1, <1>2
  <2>1. m = 7 \/ m = 8 \/ m = 9 \/ m = 10 \/ m = 11 \/ m = 12 \/ m = 13 \/ m = 14
    <3>1. m \in 7 .. 14
      BY <2>0
    <3> QED BY <3>1
  <2>2. /\ (2 ^ 7 \in Int /\ 2 ^ 7 >= 128) /\ (2 ^ 8 \in Int /\ 2 ^ 8 >= 128)
        /\ (2 ^ 9 \in Int /\ 2 ^ 9 >= 128) /\ (2 ^ 10 \in Int /\ 2 ^ 10 >= 128)
        /\ (2 ^ 11 \in Int /\ 2 ^ 11 >= 128) /\ (2 ^ 12 \in Int /\ 2 ^ 12 >= 128)
        /\ (2 ^ 13 \in Int /\ 2 ^ 13 >= 128) /\ (2 ^ 14 \in Int /\ 2 ^ 14 >= 128)
    BY SMT
  <2>3. 2 ^ m \in Int /\ 2 ^ m >= 128
    BY <2>1, <2>2
  <2> QED BY SMT, <1>1, <1>2, <2>3 DEF HalfRange
<1>3. CASE q = 2
  <2>0. 16 <= m + 1 /\ m + 1 < 24
    BY <1>1, <1>3
  <2>1. m = 15 \/ m = 16 \/ m = 17 \/ m = 18 \/ m = 19 \/ m = 20 \/ m = 21 \/ m = 22
    <3>1. m \in 15 .. 22
      BY <2>0
    <3> QED BY <3>1
  <2>2. /\ (2 ^ 15 \in Int /\ 2 ^ 15 >= 128 * 256) /\ (2 ^ 16 \in Int /\ 2 ^ 16 >= 128 * 256)
        /\ (2 ^ 17 \in Int /\ 2 ^ 17 >= 128 * 256) /\ (2 ^ 18 \in Int /\ 2 ^ 18 >= 128 * 256)
        /\ (2 ^ 19 \in Int /\ 2 ^ 19 >= 128 * 256) /\ (2 ^ 20 \in Int /\ 2 ^ 20 >= 128 * 256)
        /\ (2 ^ 21 \in Int /\ 2 ^ 21 >= 128 * 256) /\ (2 ^ 22 \in Int /\ 2 ^ 22 >= 128 * 256)
    BY SMT
  <2>3. 2 ^ m \in Int /\ 2 ^ m >= 128 * 256
    BY <2>1, <2>2
  <2> QED BY SMT, <1>1, <1>3, <2>3 DEF HalfRange
<1>4. CASE q = 3
  <2>0. 24 <= m + 1 /\ m + 1 < 32
    BY <1>1, <1>4
  <2>1. m = 23 \/ m = 24 \/ m = 25 \/ m = 26 \/ m = 27 \/ m = 28 \/ m = 29 \/ m = 30
    <3>1. m \in 23 .. 30
      BY <2>0
    <3> QED BY <3>1
  <2>2. /\ (2 ^ 23 \in Int /\ 2 ^ 23 >= 128 * (256 * 256)) /\ (2 ^ 24 \in Int /\ 2 ^ 24 >= 128 * (256 * 256))
        /\ (2 ^ 25 \in Int /\ 2 ^ 25 >= 128 * (256 * 256)) /\ (2 ^ 26 \in Int /\ 2 ^ 26 >= 128 * (256 * 256))
        /\ (2 ^ 27 \in Int /\ 2 ^ 27 >= 128 * (256 * 256)) /\ (2 ^ 28 \in Int /\ 2 ^ 28 >= 128 * (256 * 256))
        /\ (2 ^ 29 \in Int /\ 2 ^ 29 >= 128 * (256 * 256)) /\ (2 ^ 30 \in Int /\ 2 ^ 30 >= 128 * (256 * 256))
    BY SMT
  <2>3. 2 ^ m \in Int /\ 2 ^ m >= 128 * (256 * 256)
    BY <2>1, <2>2
  <2> QED BY SMT, <1>1, <1>4, <2>3 DEF HalfRange
<1>5. CASE q = 4
  <2>0. 32 <= m + 1 /\ m + 1 < 40
    BY <1>1, <1>5
  <2>h. HalfRange(q) = 128 * (256 * (256 * 256))
    BY <1>5 DEF HalfRange
  <2>1. m \in 31 .. 38
    BY <2>0
  <2>2. CASE m = 31
    <3>1. 2 ^ 31 \in Int /\ 2 ^ 31 >= 128 * (256 * (256 * 256))
      BY SMT
    <3> QED BY Zenon, <1>1, <2>h, <2>2, <3>1
  <2>3. CASE m = 32
    <3>1. 2 ^ 32 \in Int /\ 2 ^ 32 >= 128 * (256 * (256 * 256))
      BY SMT
    <3> QED BY Zenon, <1>1, <2>h, <2>3, <3>1
  <2>4. CASE m = 33
    <3>1. 2 ^ 33 \in Int /\ 2 ^ 33 >= 128 * (256 * (256 * 256))
      BY SMT
    <3> QED BY Zenon, <1>1, <2>h, <2>4, <3>1
  <2>5. CASE m = 34
    <3>1. 2 ^ 34 \in Int /\ 2 ^ 34 >= 128 * (256 * (256 * 256))
      BY SMT
    <3> QED BY Zenon, <1>1, <2>h, <2>5, <3>1
  <2>6. CASE m = 35
    <3>1. 2 ^ 35 \in Int /\ 2 ^ 35 >= 128 * (256 * (256 * 256))
      BY SMT
    <3> QED BY Zenon, <1>1, <2>h, <2>6, <3>1
  <2>7. CASE m = 36
    <3>1. 2 ^ 36 \in Int /\ 2 ^ 36 >= 128 * (256 * (256 * 256))
      BY SMT
    <3> QED BY Zenon, <1>1, <2>h, <2>7, <3>1
  <2>8. CASE m = 37
    <3>1. 2 ^ 37 \in Int /\ 2 ^ 37 >= 128 * (256 * (256 * 256))
      BY SMT
    <3> QED BY Zenon, <1>1, <2>h, <2>8, <3>1
  <2>9. CASE m = 38
    <3>1. 2 ^ 38 \in Int /\ 2 ^ 38 >= 128 * (256 * (256 * 256))
      BY SMT
    <3> QED BY Zenon, <1>1, <2>h, <2>9, <3>1
  <2> QED BY <2>1, <2>2, <2>3, <2>4, <2>5, <2>6, <2>7, <2>8, <2>9
<1> QED BY <1>2, <1>3, <1>4, <1>5

\* The samples of the three sizes that wavread() is made for: the sign bit is
\* worth the zero line, and twice the zero line is one more than the last byte.
LEMMA WholeBytes ==
    ASSUME rNbit \in {8, 16, 24}
    PROVE  /\ Bytes \in 1 .. 3 /\ Reader!zeroLine = HalfRange(Bytes)
           /\ 2 ^ (8 * Bytes) = HalfRange(Bytes) + HalfRange(Bytes)
           /\ HalfRange(Bytes) \in Nat
<1>1. CASE rNbit = 8
  <2>1. Bytes = 1 /\ 8 * Bytes = 8 /\ HalfRange(Bytes) = 128
    BY <1>1 DEF Bytes, Reader!quantizationByte, HalfRange
  <2>2. Reader!zeroLine = 2 ^ 7
    BY <1>1 DEF Reader!zeroLine
  <2>3. 2 ^ 7 = 128 /\ 2 ^ 8 = 128 + 128 /\ 128 \in Nat
    BY SMT
  <2> QED BY <2>1, <2>2, <2>3
<1>2. CASE rNbit = 16
  <2>1. Bytes = 2 /\ 8 * Bytes = 16 /\ HalfRange(Bytes) = 128 * 256
    BY <1>2 DEF Bytes, Reader!quantizationByte, HalfRange
  <2>2. Reader!zeroLine = 2 ^ 15
    BY <1>2 DEF Reader!zeroLine
  <2>3. 2 ^ 15 = 128 * 256 /\ 2 ^ 16 = (128 * 256) + (128 * 256) /\ 128 * 256 \in Nat
    BY SMT
  <2> QED BY <2>1, <2>2, <2>3
<1>3. CASE rNbit = 24
  <2>1. Bytes = 3 /\ 8 * Bytes = 24 /\ HalfRange(Bytes) = 128 * (256 * 256)
    BY <1>3 DEF Bytes, Reader!quantizationByte, HalfRange
  <2>2. Reader!zeroLine = 2 ^ 23
    BY <1>3 DEF Reader!zeroLine
  <2>3. /\ 2 ^ 23 = 128 * (256 * 256) /\ 2 ^ 24 = (128 * (256 * 256)) + (128 * (256 * 256))
        /\ 128 * (256 * 256) \in Nat
    BY SMT
  <2> QED BY <2>1, <2>2, <2>3
<1> QED BY <1>1, <1>2, <1>3

\* Two buffers with the same bytes of a sample have the same magnitude.
LEMMA SameMagnitude ==
    ASSUME NEW q \in 1 .. 4, q = Bytes, NEW b \in Reader!Buffer, NEW d \in Reader!Buffer,
           \A k \in 0 .. 3 : k < q => b[k] = d[k]
    PROVE  Reader!Magnitude(b) = Reader!Magnitude(d)
<1>1. /\ b[0] = d[0] /\ (q > 1 => b[1] = d[1]) /\ (q > 2 => b[2] = d[2])
      /\ (q > 3 => b[3] = d[3])
  OBVIOUS
<1>2. /\ q = 1 => Reader!Magnitude(b) = b[0]
      /\ q = 2 => Reader!Magnitude(b) = b[0] + 256 * b[1]
      /\ q = 3 => Reader!Magnitude(b) = b[0] + 256 * (b[1] + 256 * b[2])
      /\ q = 4 => Reader!Magnitude(b) = b[0] + 256 * (b[1] + 256 * (b[2] + 256 * b[3]))
  BY MagnitudeIs
<1>3. /\ q = 1 => Reader!Magnitude(d) = d[0]
      /\ q = 2 => Reader!Magnitude(d) = d[0] + 256 * d[1]
      /\ q = 3 => Reader!Magnitude(d) = d[0] + 256 * (d[1] + 256 * d[2])
      /\ q = 4 => Reader!Magnitude(d) = d[0] + 256 * (d[1] + 256 * (d[2] + 256 * d[3]))
  BY MagnitudeIs
<1>4. q = 1 \/ q = 2 \/ q = 3 \/ q = 4
  OBVIOUS
<1>5. (q > 1 <=> q \in {2, 3, 4}) /\ (q > 2 <=> q \in {3, 4}) /\ (q > 3 <=> q = 4)
  OBVIOUS
<1>6. CASE q = 1
  BY Zenon, <1>1, <1>2, <1>3, <1>6
<1>7. CASE q = 2
  BY Zenon, <1>1, <1>2, <1>3, <1>5, <1>7
<1>8. CASE q = 3
  <2>1. b[0] = d[0] /\ b[1] = d[1] /\ b[2] = d[2]
    BY <1>1, <1>8
  <2>2. /\ Reader!Magnitude(b) = b[0] + 256 * (b[1] + 256 * b[2])
        /\ Reader!Magnitude(d) = d[0] + 256 * (d[1] + 256 * d[2])
    BY Zenon, <1>2, <1>3, <1>8
  <2> QED BY Zenon, <2>1, <2>2
<1>9. CASE q = 4
  <2>1. b[0] = d[0] /\ b[1] = d[1] /\ b[2] = d[2] /\ b[3] = d[3]
    BY <1>1, <1>9
  <2>2. /\ Reader!Magnitude(b) = b[0] + 256 * (b[1] + 256 * (b[2] + 256 * b[3]))
        /\ Reader!Magnitude(d) = d[0] + 256 * (d[1] + 256 * (d[2] + 256 * d[3]))
    BY Zenon, <1>2, <1>3, <1>9
  <2> QED BY Zenon, <2>1, <2>2
<1> QED BY <1>4, <1>6, <1>7, <1>8, <1>9

LEMMA ReadSampleStep == ReaderInv /\ Reader!ReadSample => ReaderInv'
<1>. SUFFICES ASSUME ReaderInv, Reader!ReadSample PROVE ReaderInv'
  OBVIOUS
<1>1. /\ rpc = "samples" /\ Len(waveForm) < waveLength
      /\ UNCHANGED <<opened, dataCheck, checked, rNbit, waveLength>>
  BY DEF Reader!ReadSample, Reader!format
<1>2. PICK n \in Nat : n = Len(waveForm)
  BY DEF ReaderInv, ReaderTypes
<1>3. PICK q \in Nat : q = Bytes /\ q > 0 /\ q = rNbit \div 8 /\ rNbit \in Byte
  <2>1. Bytes \in Nat /\ rNbit \in Byte /\ Bytes = rNbit \div 8
    BY DEF ReaderInv, ReaderTypes, Bytes, Reader!quantizationByte, Byte
  <2>2. Bytes # 0
    BY <1>1, <1>2 DEF ReaderInv, SamplesInv
  <2> QED BY <2>1, <2>2
<1>b. Bytes' = Bytes /\ Reader!zeroLine' = Reader!zeroLine
      /\ Reader!quantizationByte' = q /\ Reader!quantizationByte = q
  BY <1>1, <1>3 DEF Bytes, Reader!quantizationByte, Reader!zeroLine
<1>4. CASE q > 4
  <2>1. rpc' = "overrun" /\ UNCHANGED <<fp, forIntNumber, waveForm>>
    BY <1>b, <1>4 DEF Reader!ReadSample
  <2>2. ReaderTypes' /\ HeaderInv' /\ Reader!Closed'
    BY <1>1, <2>1 DEF ReaderInv, ReaderTypes, HeaderInv, Reader!Closed
  <2>3. Reader!HeaderIsInFile'
    BY <1>1, <2>1 DEF ReaderInv, Reader!HeaderIsInFile, Reader!Accepted, Reader!At
  <2>4. SamplesInv'
    BY <1>1, <2>1, SamplesStay DEF ReaderInv, SamplesInv
  <2> QED BY <2>2, <2>3, <2>4 DEF ReaderInv
<1>5. CASE q \in 1 .. 4
  <2>a. PICK a \in Reader!Buffer : a = forIntNumber
    BY DEF ReaderInv, ReaderTypes
  <2>f. PICK f : f = fp /\ FileIs(f)
    BY DEF ReaderInv, ReaderTypes
  <2>g. FileIs(f)
    BY <2>f
  <2>1. PICK b \in Reader!Buffer :
          /\ b = Reader!ReadInto(a, q, f)
          /\ (\A k \in 0 .. 3 : b[k] =
                (IF k < q /\ f.cur + k < Len(f.data) THEN f.data[f.cur + k + 1] ELSE a[k]))
    <3>1. Reader!ReadInto(a, q, f) \in Reader!Buffer
      BY <2>g, ReadIs
    <3>2. (\A k \in 0 .. 3 : Reader!ReadInto(a, q, f)[k] =
                (IF k < q /\ f.cur + k < Len(f.data) THEN f.data[f.cur + k + 1] ELSE a[k]))
      BY <2>g, ReadBytes
    <3> QED BY <3>1, <3>2
  <2>2. PICK u \in Reader!Buffer :
          /\ u = Reader!Unsigned(b) /\ u[q - 1] < 128 /\ (b[q - 1] < 128 => u = b)
    BY <1>3, <1>5, UnsignedIs
  <2>3. PICK m \in Nat, h \in Nat, z \in Int, neg \in BOOLEAN :
          /\ m = Reader!Magnitude(u) /\ h = HalfRange(q) /\ z = Reader!zeroLine
          /\ m < h /\ h <= z /\ neg = Reader!Negative(b) /\ neg = (b[q - 1] >= 128)
          /\ Reader!Magnitude(b) = m + IF neg THEN h ELSE 0
    <3>1. /\ Reader!Magnitude(u) \in Nat /\ Reader!Magnitude(u) < HalfRange(q)
          /\ Reader!Magnitude(b) = Reader!Magnitude(u)
                                    + IF Reader!Negative(b) THEN HalfRange(q) ELSE 0
      BY <1>3, <1>5, <2>2, UnsignedIs
    <3>2. Reader!zeroLine \in Int /\ Reader!zeroLine >= HalfRange(q)
      BY <1>3, <1>5, RangeOfBits DEF Reader!zeroLine
    <3>3. HalfRange(q) \in Nat
      BY SMT, <1>5 DEF HalfRange
    <3>4. Reader!Negative(b) = (b[q - 1] >= 128) /\ Reader!Negative(b) \in BOOLEAN
      <4>1. Reader!Negative(b) = (b[q - 1] >= 128)
        BY <1>b DEF Reader!Negative
      <4>2. (b[q - 1] >= 128) \in BOOLEAN
        OBVIOUS
      <4> QED BY Zenon, <4>1, <4>2
    <3> DEFINE M == Reader!Magnitude(u)
               H == HalfRange(q)
               Z == Reader!zeroLine
               N == Reader!Negative(b)
    <3>5. M \in Nat /\ H \in Nat /\ Z \in Int /\ N \in BOOLEAN
      BY <3>1, <3>2, <3>3, <3>4
    <3>6. /\ M < H /\ H <= Z /\ N = (b[q - 1] >= 128)
          /\ Reader!Magnitude(b) = M + IF N THEN H ELSE 0
      <4> HIDE DEF H, Z
      <4>1. Z >= H
        BY <3>2 DEF H, Z
      <4>2. H <= Z
        BY <3>5, <4>1
      <4> QED BY Zenon, <3>1, <3>4, <4>2 DEF H, Z
    <3> HIDE DEF M, H, Z, N
    <3>7. PICK m \in Nat, h \in Nat, z \in Int, neg \in BOOLEAN :
             m = M /\ h = H /\ z = Z /\ neg = N
      BY <3>5
    <3> QED BY Zenon, <3>6, <3>7 DEF M, H, Z, N
  <2>4. PICK v \in Int :
          /\ v = m - IF neg THEN z ELSE 0
          /\ v >= -z /\ v < z /\ (~neg => v = m)
    <3>1. PICK v \in Int : v = m - IF neg THEN z ELSE 0
      <4>1. (m - IF neg THEN z ELSE 0) \in Int
        OBVIOUS
      <4> QED BY <4>1
    <3>2. v >= -z /\ v < z /\ (~neg => v = m)
      BY <2>3, <3>1
    <3> QED BY <3>1, <3>2
  <2>5. /\ forIntNumber' = u /\ waveForm' = Append(waveForm, v)
        /\ fp' = Reader!Advance(q, f) /\ rpc' = "samples"
    <3>1. ~(q > 4)
      BY <1>5
    <3>2. /\ forIntNumber' = Reader!Unsigned(b)
          /\ waveForm' = Append(waveForm, Reader!Magnitude(Reader!Unsigned(b))
                                             - IF Reader!Negative(b) THEN Reader!zeroLine ELSE 0)
          /\ fp' = Reader!Advance(q, fp) /\ rpc' = rpc
      BY <1>b, <2>1, <2>a, <2>f, <3>1 DEF Reader!ReadSample, Reader!TakeSample
    <3> QED BY Zenon, <1>1, <2>2, <2>3, <2>4, <2>f, <3>2
  <2>6. PICK l \in Nat, c \in Nat, w \in Nat :
          l = Len(f.data) /\ c = f.cur /\ c <= l /\ w = n * q /\ (n + 1) * q = w + q
          /\ c = Least(44 + w, l)
    <3>1. Len(f.data) \in Nat /\ f.cur \in Nat /\ f.cur <= Len(f.data)
      BY <2>g DEF FileIs
    <3>2. n * q \in Nat /\ (n + 1) * q = n * q + q
      OBVIOUS
    <3>3. f.cur = Least(44 + n * q, Len(f.data))
      BY <1>1, <1>2, <1>3, <2>f DEF ReaderInv, SamplesInv
    <3> QED BY <3>1, <3>2, <3>3
  <2>7. FileIs(fp') /\ fp'.data = f.data /\ fp'.cur = Least(44 + (w + q), l)
    <3>1. FileIs(fp') /\ fp'.data = f.data /\ fp'.cur = Least(c + q, l)
      <4>1. /\ FileIs(Reader!Advance(q, f)) /\ Reader!Advance(q, f).data = f.data
            /\ Reader!Advance(q, f).cur = Least(f.cur + q, Len(f.data))
        BY <2>g, ReadIs
      <4> QED BY Zenon, <2>5, <2>6, <4>1
    <3>2. Least(c + q, l) = Least(44 + (w + q), l)
      BY <2>6 DEF Least
    <3> QED BY <3>1, <3>2
  <2>8. /\ waveForm \in Seq(Int) /\ waveForm' \in Seq(Int) /\ Len(waveForm') = n + 1
        /\ (\A k \in 1 .. n : waveForm'[k] = waveForm[k]) /\ waveForm'[n + 1] = v
    BY <1>2, <2>4, <2>5 DEF ReaderInv, ReaderTypes
  <2>9. ReaderTypes'
    BY <1>1, <2>5, <2>7, <2>8 DEF ReaderInv, ReaderTypes
  <2>10. HeaderInv' /\ Reader!Closed'
    BY <2>5 DEF HeaderInv, Reader!Closed
  <2>11. Reader!HeaderIsInFile'
    BY <1>1, <2>7, <2>f DEF ReaderInv, Reader!HeaderIsInFile, Reader!Accepted, Reader!At
  <2>12. UNCHANGED <<fp.data, rNbit>> /\ fp.data = f.data
    BY <1>1, <2>7, <2>f
  <2>13. ASSUME NEW k \in 2 .. n + 1, 44 + (k - 1) * q >= l
         PROVE  u = a /\ waveForm'[k] = m /\ (k \in 1 .. n => waveForm[k] = m)
    <3>1. PICK w1 \in Nat : w1 = (k - 1) * q /\ w1 <= w
      <4>1. PICK r \in Nat, d \in Nat : r = k - 1 /\ n = r + d
        <5>1. k - 1 \in Nat /\ n - (k - 1) \in Nat /\ n = (k - 1) + (n - (k - 1))
          OBVIOUS
        <5> QED BY <5>1
      <4>2. n * q = r * q + d * q /\ r * q \in Nat /\ d * q \in Nat
        BY <4>1
      <4> QED BY <2>6, <4>1, <4>2
    <3>2. 44 + w >= l /\ c = l
      <4>1. 44 + w >= l
        BY <2>13, <3>1, <2>6
      <4> QED BY <2>6, <4>1 DEF Least
    <3>3. b = a
      <4>1. \A j \in 0 .. 3 : b[j] = a[j]
        BY <2>1, <2>6, <3>2
      <4> QED BY <4>1 DEF Reader!Buffer
    <3>4. n > 0
      OBVIOUS
    <3>5. /\ a[q - 1] < 128
          /\ (\A j \in 2 .. n : 44 + (j - 1) * q >= l =>
                 waveForm[j] = Reader!Magnitude(a))
      BY <1>1, <1>2, <1>3, <2>6, <2>a, <2>f, <3>4 DEF ReaderInv, SamplesInv
    <3>6. u = a /\ ~neg
      <4>1. q - 1 \in 0 .. 3 /\ a[q - 1] \in Nat
        BY <1>5 DEF Reader!Buffer, Reader!Byte
      <4> QED BY <2>2, <2>3, <3>3, <3>5, <4>1
    <3>7. v = m /\ m = Reader!Magnitude(a)
      BY <2>3, <2>4, <3>6
    <3>8. k \in 1 .. n => waveForm[k] = m
      BY <2>13, <3>5, <3>7
    <3>9. waveForm'[k] = m
      BY <2>8, <3>7, <3>8
    <3> QED BY <3>6, <3>8, <3>9
  <2>14. Reader!Bounded'
    <3>1. Reader!zeroLine' = z
      BY <1>b, <2>3
    <3>2. ASSUME NEW k \in 1 .. n + 1 PROVE waveForm'[k] >= -z /\ waveForm'[k] < z
      <4>1. CASE k = n + 1
        BY <2>4, <2>8, <4>1
      <4>2. CASE k \in 1 .. n
        BY <1>2, <2>3, <2>8, <4>2 DEF ReaderInv, SamplesInv, Reader!Bounded
      <4> QED BY <4>1, <4>2
    <3> QED BY <2>8, <3>1, <3>2 DEF Reader!Bounded
  <2>15. Reader!TailConstant'
    <3>1. ASSUME NEW j \in 2 .. n + 1, NEW k \in 2 .. n + 1,
                 44 + (j - 1) * q >= l, j <= k
          PROVE  waveForm'[k] >= 0 /\ waveForm'[k] = waveForm'[j]
      <4>1. 44 + (k - 1) * q >= l
        <5>1. PICK r \in Nat, d \in Nat : r = j - 1 /\ k - 1 = r + d
          <6>1. j - 1 \in Nat /\ k - j \in Nat /\ k - 1 = (j - 1) + (k - j)
            BY <3>1
          <6> QED BY <6>1
        <5>2. (k - 1) * q = r * q + d * q /\ r * q \in Nat /\ d * q \in Nat
          BY <5>1
        <5> QED BY <2>6, <3>1, <5>1, <5>2
      <4>2. waveForm'[k] = m /\ waveForm'[j] = m
        BY <2>13, <3>1, <4>1
      <4> QED BY <4>2
    <3>2. Len(fp'.data) = l /\ Len(waveForm') = n + 1 /\ Reader!quantizationByte' = q
      BY <1>b, <2>6, <2>7, <2>8
    <3> QED BY <3>1, <3>2 DEF Reader!TailConstant
  <2>16. /\ \A k : Reader!Sample(k)' = Reader!Sample(k)
         /\ \A k : Reader!InFile(k)' <=> Reader!InFile(k)
    <3>1. \A d : Reader!Magnitude(d)' = Reader!Magnitude(d)
      BY <1>b DEF Reader!Magnitude
    <3>2. \A k : Reader!Sample(k)' = Reader!Sample(k)
      BY <1>b, <2>7, <2>f, <3>1 DEF Reader!Sample
    <3>3. \A k : Reader!InFile(k)' <=> Reader!InFile(k)
      BY <1>b, <2>7, <2>f DEF Reader!InFile
    <3> QED BY <3>2, <3>3
  <2>17. ASSUME rNbit \in {8, 16, 24}, Reader!InFile(n) PROVE v = Reader!Sample(n)
    <3>1. /\ q \in 1 .. 3 /\ z = h /\ 2 ^ (8 * q) = h + h
      BY <1>3, <2>3, <2>17, WholeBytes
    <3>2. 44 + (w + q) <= l /\ c = 44 + w
      <4>1. 44 + (w + q) <= l
        BY <1>b, <2>17, <2>6, <2>f DEF Reader!InFile
      <4> QED BY <2>6, <4>1 DEF Least
    <3>3. PICK d \in Reader!Buffer :
            d = [j \in 0 .. 3 |-> IF j < q THEN f.data[44 + w + j + 1] ELSE 0]
      <4>1. ASSUME NEW j \in 0 .. 3
            PROVE  (IF j < q THEN f.data[44 + w + j + 1] ELSE 0) \in Byte
        <5>1. CASE j < q
          <6>1. 44 + w + j + 1 \in 1 .. l
            BY <3>2, <5>1
          <6>2. f.data[44 + w + j + 1] \in Byte
            BY <2>6, <2>g, <6>1 DEF FileIs
          <6> QED BY <5>1, <6>2
        <5>2. CASE ~(j < q)
          BY <5>2 DEF Byte
        <5> QED BY <5>1, <5>2
      <4>2. [j \in 0 .. 3 |-> IF j < q THEN f.data[44 + w + j + 1] ELSE 0] \in Reader!Buffer
        BY <4>1 DEF Reader!Buffer, Reader!Byte, Byte
      <4> QED BY <4>2
    <3>4. \A j \in 0 .. 3 : j < q => b[j] = d[j]
      <4>1. ASSUME NEW j \in 0 .. 3, j < q PROVE b[j] = d[j]
        <5>1. c + j < l /\ c + j + 1 = 44 + w + j + 1
          BY <3>2, <4>1
        <5>2. b[j] = f.data[c + j + 1]
          BY <2>1, <2>6, <4>1, <5>1
        <5>3. d[j] = f.data[44 + w + j + 1]
          BY <3>3, <4>1
        <5> QED BY <5>1, <5>2, <5>3
      <4> QED BY <4>1
    <3>5. Reader!Magnitude(b) = Reader!Magnitude(d)
      BY <1>3, <1>5, <3>4, SameMagnitude
    <3>6. b[q - 1] = f.data[44 + w + q]
      <4>1. PICK j \in 0 .. 3 : j = q - 1 /\ j < q
        BY <1>5
      <4>2. c + j + 1 = 44 + w + q /\ c + j < l
        BY <3>2, <4>1
      <4>3. b[j] = f.data[c + j + 1]
        BY <2>1, <2>6, <4>1, <4>2
      <4> QED BY <4>1, <4>2, <4>3
    <3>7. Reader!Sample(n) = IF f.data[44 + w + q] >= 128
                             THEN Reader!Magnitude(d) - 2 ^ (8 * q)
                             ELSE Reader!Magnitude(d)
      BY <1>b, <2>6, <2>f, <3>3 DEF Reader!Sample
    <3>8. Reader!Sample(n) = IF neg THEN (m + h) - (h + h) ELSE m
      <4>1. Reader!Magnitude(d) = m + IF neg THEN h ELSE 0
        BY Zenon, <2>3, <3>5
      <4>2. neg <=> f.data[44 + w + q] >= 128
        BY Zenon, <2>3, <3>6
      <4>3. CASE neg
        <5>1. Reader!Magnitude(d) = m + h
          BY <4>1, <4>3
        <5> QED BY Zenon, <3>1, <3>7, <4>2, <4>3, <5>1
      <4>4. CASE ~neg
        <5>1. Reader!Magnitude(d) = m
          BY <4>1, <4>4
        <5> QED BY Zenon, <3>7, <4>2, <4>4, <5>1
      <4> QED BY <4>3, <4>4
    <3> QED BY <2>3, <2>4, <3>1, <3>8
  <2>18. Reader!SamplesDecoded'
    <3>1. ASSUME rNbit \in {8, 16, 24}, NEW k \in 0 .. n, Reader!InFile(k)
          PROVE  waveForm'[k + 1] = Reader!Sample(k)
      <4>1. CASE k = n
        BY <2>17, <2>8, <3>1, <4>1
      <4>2. CASE k \in 0 .. n - 1
        <5>1. waveForm[k + 1] = Reader!Sample(k)
          BY <1>2, <3>1, <4>2 DEF ReaderInv, SamplesInv, Reader!SamplesDecoded
        <5>2. waveForm'[k + 1] = waveForm[k + 1]
          BY <2>8, <4>2
        <5> QED BY <5>1, <5>2
      <4> QED BY <4>1, <4>2
    <3>2. (\A k \in 0 .. Len(waveForm') - 1 : k \in 0 .. n) /\ rNbit' = rNbit
      BY <1>1, <2>8
    <3> QED BY <2>16, <3>1, <3>2 DEF Reader!SamplesDecoded
  <2>19. SamplesInv'
    <3>1. fp'.cur = Least(44 + Len(waveForm') * Bytes', Len(fp'.data))
      BY <1>3, <1>b, <2>6, <2>7, <2>8
    <3>2. Bytes' = q /\ q > 0 /\ forIntNumber'[q - 1] < 128
      BY <1>3, <1>b, <2>2, <2>5
    <3>3. Reader!Magnitude(forIntNumber)' = m
      BY <1>b, <2>3, <2>5 DEF Reader!Magnitude
    <3>4. \A k \in 2 .. Len(waveForm') :
             44 + (k - 1) * Bytes' >= Len(fp'.data) => waveForm'[k] = m
      BY <2>13, <2>6, <2>7, <2>8, <3>2
    <3> QED BY <2>14, <2>15, <2>18, <2>5, <3>1, <3>2, <3>3, <3>4 DEF SamplesInv
  <2> QED BY <2>9, <2>10, <2>11, <2>19 DEF ReaderInv
<1>6. q \in 1 .. 4 \/ q > 4
  BY <1>3
<1> QED BY <1>4, <1>5, <1>6

LEMMA ReaderStep == ReaderInv /\ Reader!Step => ReaderInv'
BY CheckTagStep, ReadFormatStep, CheckDataStep, ReadLengthStep, AllocateStep,
   ReadSampleStep, ReadReturnStep DEF Reader!Step

\* A file is opened at its beginning, with whatever the stack holds in the buffers.
AtTheStart ==
    /\ \E d \in Seq(Byte) : fp = Reader!OpenMemFile(d)
    /\ rpc \in {"idle", "header"}
    /\ dataCheck \in Leftovers /\ forIntNumber \in Leftovers
    /\ checked = 0 /\ rNbit = 0 /\ waveLength = 0 /\ waveForm = <<>>

LEMMA Opened == AtTheStart => ReaderInv
<1>. SUFFICES ASSUME AtTheStart PROVE ReaderInv
  OBVIOUS
<1>d. PICK d \in Seq(Byte) : fp = Reader!OpenMemFile(d)
  BY DEF AtTheStart
<1>s. /\ rpc \in {"idle", "header"}
      /\ dataCheck \in Leftovers /\ forIntNumber \in Leftovers
      /\ checked = 0 /\ rNbit = 0 /\ waveLength = 0 /\ waveForm = <<>>
  BY DEF AtTheStart
<1>1. fp = [data |-> d, cur |-> 0]
  BY <1>d DEF Reader!OpenMemFile
<1>2. FileIs(fp)
  BY <1>1, ElementOfSeq DEF FileIs
<1>3. dataCheck \in Reader!Buffer /\ forIntNumber \in Reader!Buffer
  BY <1>s, LeftoverAssumption DEF Reader!Buffer, Reader!Byte, Byte
<1>4. rNbit \in Byte
  BY <1>s DEF Byte
<1>5. ReaderTypes
  BY <1>2, <1>3, <1>4, <1>s DEF ReaderTypes
<1>6. HeaderInv
  BY <1>1, <1>s DEF HeaderInv, Passed, Place
<1>7. Reader!HeaderIsInFile /\ Reader!Closed
  BY <1>s DEF Reader!HeaderIsInFile, Reader!Accepted, Reader!Closed
<1>8. SamplesInv
  <2>1. Len(waveForm) = 0
    BY <1>s
  <2> QED BY <1>s, <2>1 DEF SamplesInv, Reader!SamplesDecoded, Reader!TailConstant, Reader!Bounded
<1> QED BY <1>5, <1>6, <1>7, <1>8 DEF ReaderInv

LEMMA ReaderIsSound == ReaderInv => ReadsWhatIsThere
BY DEF ReaderInv, SamplesInv, ReadsWhatIsThere

LEMMA ReaderStarts == Reader!Init => ReaderInv
<1>. SUFFICES ASSUME Reader!Init PROVE ReaderInv
  OBVIOUS
<1>1. PICK d \in WavFiles : fp = Reader!OpenMemFile(d)
  BY DEF Reader!Init
<1>2. d \in Seq(Byte)
  BY WavFilesAssumption
<1>3. /\ rpc = "header" /\ dataCheck \in Leftovers /\ forIntNumber \in Leftovers
      /\ checked = 0 /\ rNbit = 0 /\ waveLength = 0 /\ waveForm = <<>>
  BY DEF Reader!Init
<1> QED BY <1>1, <1>2, <1>3, Opened DEF AtTheStart

\* wavread() of any file, with any leftovers in its buffers: a file is accepted
\* only if it has the header, what it has is decoded as it is, and what it does
\* not have is one value within the range.
THEOREM OthersAreRead == Reader!Spec => []ReadsWhatIsThere
<1>1. Reader!Init => ReaderInv
  BY ReaderStarts
<1>2. ReaderInv /\ [Reader!Next]_(Reader!vars) => ReaderInv'
  <2>. SUFFICES ASSUME ReaderInv, [Reader!Next]_(Reader!vars) PROVE ReaderInv'
    OBVIOUS
  <2>1. CASE Reader!Step
    BY <2>1, ReaderStep
  <2>2. CASE UNCHANGED readerVars
    BY <2>2, ReaderStutter
  <2>3. Reader!Step \/ UNCHANGED readerVars
    BY DEF Reader!Next, Reader!Finished, Reader!vars, readerVars
  <2> QED BY <2>1, <2>2, <2>3
<1> QED BY <1>1, <1>2, ReaderIsSound, PTL DEF Reader!Spec

\* Until the note is opened, the reader is as it was left.
TripIdle ==
    rpc = "idle" =>
        /\ dataCheck \in Leftovers /\ forIntNumber \in Leftovers
        /\ checked = 0 /\ rNbit = 0 /\ waveLength = 0 /\ waveForm = <<>>
TripInv == WavOutInv /\ ReaderInv /\ TripIdle

LEMMA TripStarts == TripInit => TripInv
<1>. SUFFICES ASSUME TripInit PROVE TripInv
  OBVIOUS
<1>1. WavOutInv
  BY WavOutStarts DEF TripInit
<1>2. /\ rpc = "idle" /\ dataCheck \in Leftovers /\ forIntNumber \in Leftovers
      /\ checked = 0 /\ rNbit = 0 /\ waveLength = 0 /\ waveForm = <<>>
      /\ fp = Reader!OpenMemFile(<<>>)
  BY DEF TripInit, ReaderIdle, Reader!OpenMemFile
<1>3. <<>> \in Seq(Byte)
  OBVIOUS
<1>4. ReaderInv
  BY <1>2, <1>3, Opened DEF AtTheStart
<1> QED BY <1>1, <1>2, <1>4 DEF TripInv, TripIdle

LEMMA TripStep == TripInv /\ [TripNext]_tripVars => TripInv'
<1>. SUFFICES ASSUME TripInv, [TripNext]_tripVars PROVE TripInv'
  OBVIOUS
<1>1. CASE WriteNote
  <2>1. WavOutInv'
    BY <1>1, WavOutStep DEF TripInv, WriteNote
  <2>2. ReaderInv'
    BY <1>1, ReaderStutter DEF TripInv, WriteNote
  <2>3. TripIdle'
    BY <1>1 DEF TripInv, TripIdle, WriteNote, readerVars
  <2> QED BY <2>1, <2>2, <2>3 DEF TripInv
<1>2. CASE OpenNote
  <2>1. UNCHANGED <<wavOutVars, dataCheck, forIntNumber, checked, rfs, rNbit, waveLength,
                    waveForm>> /\ rpc = "idle" /\ rpc' = "header"
    BY <1>2 DEF OpenNote
  <2>2. File \in Seq(Byte)
    BY FileIsBytes DEF TripInv
  <2>3. PICK d \in Seq(Byte) : fp' = Reader!OpenMemFile(d)
    <3>1. PICK n \in 0 .. Len(File) : fp' = Reader!OpenMemFile(SubSeq(File, 1, n))
      BY <1>2 DEF OpenNote
    <3>2. SubSeq(File, 1, n) \in Seq(Byte)
      BY <2>2
    <3> QED BY <3>1, <3>2
  <2>4. ReaderInv'
    <3>1. AtTheStart'
      BY <2>1, <2>3 DEF TripInv, TripIdle, AtTheStart
    <3> QED BY <3>1, Opened, PTL
  <2>5. WavOutInv'
    BY <2>1, WavOutStutter DEF TripInv
  <2> QED BY <2>1, <2>4, <2>5 DEF TripInv, TripIdle
<1>3. CASE ReadNote
  <2>1. WavOutInv'
    BY <1>3, WavOutStutter DEF TripInv, ReadNote
  <2>2. ReaderInv' /\ rpc # "idle"
    BY <1>3, ReaderStep DEF TripInv, ReadNote
  <2>3. rpc' # "idle"
    BY <1>3 DEF ReadNote, Reader!Step, Reader!CheckTag, Reader!ReadFormat,
                Reader!CheckData, Reader!ReadLength, Reader!Allocate,
                Reader!ReadSample, Reader!Return
  <2> QED BY <2>1, <2>2, <2>3 DEF TripInv, TripIdle
<1>4. CASE UNCHANGED tripVars
  <2>1. UNCHANGED readerVars /\ UNCHANGED wavOutVars
    BY <1>4 DEF tripVars
  <2>2. WavOutInv' /\ ReaderInv'
    BY <2>1, WavOutStutter, ReaderStutter DEF TripInv
  <2> QED BY <2>1, <2>2 DEF TripInv, TripIdle, readerVars
<1> QED BY <1>1, <1>2, <1>3, <1>4 DEF TripNext, ReadFinished

\* main() writes a note and another process reads it, whole or cut at any byte:
\* what wavread() returns is what is there.
THEOREM NotesAreRead == TripSpec => []ReadsWhatIsThere
<1>1. TripInv => ReadsWhatIsThere
  BY ReaderIsSound DEF TripInv
<1> QED BY <1>1, TripStarts, TripStep, PTL DEF TripSpec

-----------------------------------------------------------------------------
(* The level of a note *)

LEMMA QuotientIs ==
    ASSUME NEW n \in Int, NEW d \in Nat, d > 0
    PROVE  /\ Quotient(n, d) \in Int /\ Quotient(-n, d) = -Quotient(n, d)
           /\ n >= 0 => /\ Quotient(n, d) >= 0 /\ Quotient(n, d) * d <= n
                        /\ n < Quotient(n, d) * d + d
<1>1. ASSUME NEW m \in Nat
      PROVE  m \div d \in Nat /\ (m \div d) * d <= m /\ m < (m \div d) * d + d
  OBVIOUS
<1>2. CASE n > 0
  <2>1. PICK m \in Nat : m = n
    BY <1>2
  <2>2. PICK q \in Nat : q = m \div d /\ q * d <= m /\ m < q * d + d
    BY <1>1
  <2>3. Quotient(n, d) = q
    BY <1>2, <2>1, <2>2 DEF Quotient
  <2>4. -(-n) = m /\ ~(-n >= 0)
    BY <1>2, <2>1
  <2>5. Quotient(-n, d) = -q
    BY <2>2, <2>4 DEF Quotient
  <2> QED BY <2>1, <2>2, <2>3, <2>5
<1>3. CASE n = 0
  <2>0. PICK q \in Nat : q = 0 \div d /\ q * d <= 0
    BY <1>1
  <2>a. q = 0
    <3>1. ASSUME q > 0 PROVE FALSE
      <4>1. q * d > 0
        BY <3>1
      <4> QED BY <2>0, <4>1
    <3> QED BY <3>1
  <2>1. 0 \div d = 0 /\ 0 * d = 0
    BY <2>0, <2>a
  <2>b. -n = 0
    <3>1. -n <= 0 /\ -n >= 0 /\ -n \in Int
      BY <1>3
    <3> QED BY <3>1
  <2>2. Quotient(n, d) = 0 /\ Quotient(-n, d) = 0
    BY <1>3, <2>1, <2>b DEF Quotient
  <2> QED BY <1>3, <2>1, <2>2
<1>4. CASE n < 0
  <2>1. PICK m \in Nat : m = -n
    BY <1>4
  <2>2. PICK q \in Nat : q = m \div d
    BY <1>1
  <2>3. Quotient(n, d) = -q
    BY <1>4, <2>1, <2>2 DEF Quotient
  <2>4. Quotient(-n, d) = q
    BY <2>1, <2>2 DEF Quotient
  <2> QED BY <1>4, <2>2, <2>3, <2>4
<1> QED BY <1>2, <1>3, <1>4

LEMMA QuotientRises ==
    ASSUME NEW m \in Nat, NEW c \in Nat, NEW n \in Nat, NEW d \in Nat, c > 0, d > 0,
           m * d <= n * c
    PROVE  Quotient(m, c) <= Quotient(n, d)
<1>1. PICK p \in Nat, q \in Nat :
        /\ p = Quotient(m, c) /\ p * c <= m
        /\ q = Quotient(n, d) /\ n < q * d + d
  <2>1. Quotient(m, c) \in Nat /\ Quotient(m, c) * c <= m
    BY QuotientIs
  <2>2. Quotient(n, d) \in Nat /\ n < Quotient(n, d) * d + d
    BY QuotientIs
  <2> QED BY <2>1, <2>2
<1>2. ASSUME p > q PROVE FALSE
  <2>1. PICK e \in Nat : p = (q + 1) + e
    <3>1. p - (q + 1) \in Nat /\ p = (q + 1) + (p - (q + 1))
      BY <1>2
    <3> QED BY <3>1
  <2>2. PICK x \in Nat : x = c * d
    OBVIOUS
  <2>3. (p * c) * d <= m * d
    BY <1>1
  <2>4. n * c < (q * d + d) * c
    BY <1>1
  <2>5. (p * c) * d = p * x /\ (q * d + d) * c = q * x + x
    BY <2>2
  <2>6. p * x = (q * x + x) + e * x /\ e * x \in Nat
    BY <2>1
  <2> QED BY <2>3, <2>4, <2>5, <2>6
<1> QED BY <1>1, <1>2

LEMMA QuotientMonotone ==
    ASSUME NEW m \in Int, NEW c \in Nat, NEW n \in Int, NEW d \in Nat, c > 0, d > 0,
           m * d <= n * c
    PROVE  Quotient(m, c) <= Quotient(n, d)
<1>0. /\ Quotient(m, c) \in Int /\ Quotient(n, d) \in Int
      /\ m >= 0 => Quotient(m, c) >= 0
      /\ n >= 0 => Quotient(n, d) >= 0
      /\ Quotient(-m, c) = -Quotient(m, c) /\ Quotient(-n, d) = -Quotient(n, d)
  BY QuotientIs
<1>1. CASE m >= 0
  <2>1. m * d >= 0
    BY <1>1
  <2>2. n >= 0
    <3>1. ASSUME n < 0 PROVE FALSE
      <4>1. n * c < 0
        BY <3>1
      <4> QED BY <2>1, <4>1
    <3> QED BY <3>1
  <2> QED BY <1>1, <2>2, QuotientRises
<1>2. CASE m < 0 /\ n >= 0
  <2>1. -m \in Nat
    BY <1>2
  <2>2. Quotient(-m, c) >= 0
    BY <2>1, QuotientIs
  <2> QED BY <1>0, <1>2, <2>2
<1>3. CASE m < 0 /\ n < 0
  <2>1. PICK a \in Nat, b \in Nat : a = -m /\ b = -n
    BY <1>3
  <2>2. b * c <= a * d
    <3>1. b * c = -(n * c) /\ a * d = -(m * d)
      BY <2>1
    <3> QED BY <3>1
  <2>3. Quotient(b, d) <= Quotient(a, c)
    BY <2>2, QuotientRises
  <2> QED BY <1>0, <2>1, <2>3
<1> QED BY <1>1, <1>2, <1>3

\* Clipping and cutting to a short, as one rule.
Clamp(v) == IF v > 32767 THEN 32767 ELSE IF v < -32767 THEN -32767 ELSE v

LEMMA ClampMonotone ==
    ASSUME NEW a \in Int, NEW b \in Int, a <= b
    PROVE  Clamp(a) <= Clamp(b)
BY DEF Clamp

LEMMA ClippedCut ==
    ASSUME NEW v \in Float, v.den > 0
    PROVE  /\ ~IsNaN(Clipped(v)) /\ Truncate(Clipped(v)) = Clamp(Quotient(v.num, v.den))
           /\ Quotient(v.num, v.den) \in Int
<1>1. PICK n \in Int, d \in Nat : n = v.num /\ d = v.den /\ d > 0
  BY FloatsAre
<1>2. /\ Less(Whole(32767), v) <=> 32767 * d < n * 1
      /\ Less(v, Whole(-32767)) <=> n * 1 < (-32767) * d
  BY <1>1 DEF Less, Whole, Frac
<1>3. /\ Truncate(Whole(32767)) = 32767 /\ Truncate(Whole(-32767)) = -32767
      /\ ~IsNaN(Whole(32767)) /\ ~IsNaN(Whole(-32767))
  BY DEF Quotient, Truncate, Whole, Frac, IsNaN
<1>4. PICK q \in Int : q = Quotient(n, d)
  BY <1>1, QuotientIs
<1>5. PICK c \in Nat : c = 1
  OBVIOUS
<1>6. /\ \A k \in Int : Quotient(k, c) = k
  BY <1>5 DEF Quotient
<1>7. CASE Less(Whole(32767), v)
  <2>1. Clipped(v) = Whole(32767)
    BY <1>7 DEF Clipped
  <2>2. 32767 * d <= n * c
    BY <1>2, <1>5, <1>7
  <2>3. 32767 \in Int /\ Quotient(32767, c) = 32767
    BY <1>6
  <2>4. Quotient(32767, c) <= Quotient(n, d)
    BY <1>1, <1>5, <2>2, <2>3, QuotientMonotone
  <2>5. Clamp(q) = 32767
    BY <1>4, <2>3, <2>4 DEF Clamp
  <2> QED BY <1>1, <1>3, <1>4, <2>1, <2>5
<1>8. CASE ~Less(Whole(32767), v) /\ Less(v, Whole(-32767))
  <2>1. Clipped(v) = Whole(-32767)
    BY <1>8 DEF Clipped
  <2>2. n * c <= (-32767) * d
    BY <1>2, <1>5, <1>8
  <2>3. -32767 \in Int /\ Quotient(-32767, c) = -32767
    BY <1>6
  <2>4. Quotient(n, d) <= Quotient(-32767, c)
    BY <1>1, <1>5, <2>2, <2>3, QuotientMonotone
  <2>5. Clamp(q) = -32767
    BY <1>4, <2>3, <2>4 DEF Clamp
  <2> QED BY <1>1, <1>3, <1>4, <2>1, <2>5
<1>9. CASE ~Less(Whole(32767), v) /\ ~Less(v, Whole(-32767))
  <2>1. Clipped(v) = v
    BY <1>9 DEF Clipped
  <2>2. n * c <= 32767 * d /\ (-32767) * d <= n * c
    BY <1>1, <1>2, <1>5, <1>9
  <2>3. 32767 \in Int /\ Quotient(32767, c) = 32767 /\ -32767 \in Int /\ Quotient(-32767, c) = -32767
    BY <1>6
  <2>4. Quotient(n, d) <= Quotient(32767, c)
    BY <1>1, <1>5, <2>2, <2>3, QuotientMonotone
  <2>5. Quotient(-32767, c) <= Quotient(n, d)
    BY <1>1, <1>5, <2>2, <2>3, QuotientMonotone
  <2>6. Clamp(q) = q
    BY <1>4, <2>3, <2>4, <2>5 DEF Clamp
  <2> QED BY <1>1, <1>4, <2>1, <2>6 DEF Truncate, IsNaN
<1> QED BY <1>7, <1>8, <1>9

-----------------------------------------------------------------------------
\* The loudest sample so far is maxAmp, and every short is what its sample gives.
MaxOf(n) ==
    /\ \A k \in 1 .. n : ~IsNaN(y[k]) => ~Less(maxAmp, Magnitude(y[k]))
    /\ \/ maxAmp = Whole(0)
       \/ \E k \in 1 .. n : ~IsNaN(y[k]) /\ maxAmp = Magnitude(y[k])
LevelInv ==
    /\ wavOutPc = "max" => wavOutI <= outSamples + 1 /\ MaxOf(wavOutI - 1)
    /\ wavOutPc # "max" => MaxOf(outSamples)
    /\ \A k \in 1 .. Len(output) :
          ~IsNaN(Value(y[k])) => output[k] = Truncate(Value(y[k]))

\* Among what is not negative, infinities included, greater is greater still.
LEMMA GreaterStays ==
    ASSUME NEW a \in Float, NEW b \in Float, NEW m \in Float,
           a.num >= 0, b.num >= 0, m.num >= 0, ~Less(a, m), Less(a, b)
    PROVE  ~Less(b, m)
<1>1. PICK an \in Nat, ad \in Nat, bn \in Nat, bd \in Nat, mn \in Nat, md \in Nat :
        /\ an = a.num /\ ad = a.den /\ bn = b.num /\ bd = b.den /\ mn = m.num /\ md = m.den
  <2>1. /\ a.num \in Nat /\ a.den \in Nat /\ b.num \in Nat /\ b.den \in Nat
        /\ m.num \in Nat /\ m.den \in Nat
    BY FloatsAre
  <2> QED BY <2>1
<1>2. an * md >= mn * ad /\ an * bd < bn * ad
  BY <1>1 DEF Less
<1>3. ad > 0
  <2>1. ASSUME ad = 0 PROVE FALSE
    <3>1. bn * ad = 0 /\ an * bd >= 0
      BY <2>1
    <3> QED BY <1>2, <3>1
  <2> QED BY <2>1
<1>4. ASSUME bn * md < mn * bd PROVE FALSE
  <2>1. PICK e \in Nat, f \in Nat : mn * bd = (bn * md + 1) + e /\ bn * ad = (an * bd) + f
    <3>1. PICK u \in Nat, v \in Nat, w \in Nat, x \in Nat :
            u = mn * bd /\ v = bn * md /\ w = bn * ad /\ x = an * bd
      OBVIOUS
    <3>2. u - (v + 1) \in Nat /\ w - x \in Nat
      BY <1>2, <1>4, <3>1
    <3> QED BY <3>1, <3>2
  <2>2. (mn * bd) * ad = ((bn * ad) * md + ad) + e * ad /\ e * ad \in Nat
    BY <2>1
  <2>3. (bn * ad) * md = (an * md) * bd + f * md /\ f * md \in Nat
    BY <2>1
  <2>4. (mn * ad) * bd <= (an * md) * bd
    BY <1>2
  <2>5. (mn * ad) * bd = (mn * bd) * ad /\ (mn * bd) * ad \in Nat /\ (an * md) * bd \in Nat
    OBVIOUS
  <2> QED BY <1>3, <2>2, <2>3, <2>4, <2>5
<1> QED BY <1>1, <1>4 DEF Less

\* The elements of y as doubles.
LEMMA SignalIs ==
    ASSUME WavOutInv
    PROVE  outSamples \in Nat /\ outSamples = Len(y) /\ \A k \in 1 .. outSamples : y[k] \in Float
<1>1. y \in Seq(Float)
  BY Zenon, SignalAssumption DEF WavOutInv
<1>2. outSamples = Len(y) /\ outSamples \in Nat
  BY <1>1 DEF outSamples
<1> QED BY <1>1, <1>2, ElementOfSeq

LEMMA LevelStarts == WavOutInit => LevelInv
<1>1. ASSUME WavOutInit PROVE LevelInv
  <2>1. outSamples \in Nat
    BY <1>1, SignalIs, WavOutStarts
  <2>2. wavOutPc = "max" /\ wavOutI = 1 /\ output = <<>> /\ maxAmp = Whole(0)
    BY <1>1 DEF WavOutInit
  <2>3. MaxOf(0)
    BY <2>2 DEF MaxOf
  <2> QED BY <2>1, <2>2, <2>3 DEF LevelInv
<1> QED BY <1>1

LEMMA MaxAmpLevel == WavOutInv /\ LevelInv /\ MaxAmp => LevelInv'
<1>. SUFFICES ASSUME WavOutInv, LevelInv, MaxAmp PROVE LevelInv'
  OBVIOUS
<1>1. /\ wavOutPc = "max" /\ wavOutPc' = "max" /\ wavOutI <= outSamples
      /\ wavOutI' = wavOutI + 1 /\ output' = output /\ y' = y
      /\ maxAmp' = IF ~IsNaN(y[wavOutI]) /\ Less(maxAmp, Magnitude(y[wavOutI]))
                   THEN Magnitude(y[wavOutI]) ELSE maxAmp
  BY DEF MaxAmp, note
<1>2. output = <<>> /\ outSamples' = outSamples
  BY <1>1 DEF WavOutInv, outSamples
<1>3. PICK j \in 1 .. outSamples : j = wavOutI
  <2>1. outSamples \in Nat /\ wavOutI \in Nat \ {0}
    BY SignalIs DEF WavOutInv
  <2> QED BY <1>1, <2>1
<1>4. PICK s \in Float : s = y[j]
  BY SignalIs
<1>5. PICK a \in Float, b \in Float : a = maxAmp /\ b = maxAmp' /\ a.num >= 0
  <2>1. maxAmp \in Float /\ maxAmp.num >= 0
    BY DEF WavOutInv
  <2>2. Magnitude(y[wavOutI]) \in Float
    BY <1>3, <1>4, FloatsAre
  <2> QED BY <1>1, <2>1, <2>2
<1>6. PICK m \in Float : m = Magnitude(s) /\ m.num >= 0
  BY FloatsAre, MagnitudePositive
<1>7. b = (IF ~IsNaN(s) /\ Less(a, m) THEN m ELSE a)
  BY <1>1, <1>3, <1>4, <1>5, <1>6
<1>8. MaxOf(j - 1)
  BY <1>1, <1>3 DEF LevelInv
<1>9. ASSUME NEW k \in 1 .. j, ~IsNaN(y[k]) PROVE ~Less(b, Magnitude(y[k]))
  <2>1. CASE k = j /\ b = m
    <3>1. ~Less(m, m)
      <4>1. PICK n \in Int, d \in Nat : n = m.num /\ d = m.den
        BY FloatsAre
      <4>2. n * d \in Int
        OBVIOUS
      <4> QED BY <4>1, <4>2 DEF Less
    <3> QED BY <1>4, <1>6, <2>1, <3>1
  <2>2. CASE k = j /\ b # m
    BY <1>4, <1>6, <1>7, <1>9, <2>2
  <2>3. CASE k # j
    <3>1. k \in 1 .. j - 1
      BY <2>3
    <3>2. ~Less(a, Magnitude(y[k]))
      BY <1>5, <1>8, <1>9, <3>1 DEF MaxOf
    <3>3. CASE b = a
      BY <3>2, <3>3
    <3>4. CASE b # a
      <4>1. b = m /\ Less(a, b)
        BY <1>7, <3>4
      <4>2. y[k] \in Float
        BY SignalIs
      <4>3. PICK q \in Float : q = Magnitude(y[k]) /\ q.num >= 0
        BY <4>2, FloatsAre, MagnitudePositive
      <4>4. ~Less(b, q)
        BY <1>5, <1>6, <3>2, <4>1, <4>3, GreaterStays
      <4> QED BY <4>3, <4>4
    <3> QED BY <3>3, <3>4
  <2> QED BY <2>1, <2>2, <2>3
<1>10. b = Whole(0) \/ \E k \in 1 .. j : ~IsNaN(y[k]) /\ b = Magnitude(y[k])
  <2>1. CASE b # a
    <3>1. ~IsNaN(y[j]) /\ b = Magnitude(y[j]) /\ j \in 1 .. j
      BY <1>4, <1>6, <1>7, <2>1
    <3> QED BY <3>1
  <2>2. CASE b = a
    <3>1. \A k \in 1 .. j - 1 : k \in 1 .. j
      OBVIOUS
    <3> QED BY <1>5, <1>8, <2>2, <3>1 DEF MaxOf
  <2> QED BY <2>1, <2>2
<1>11. wavOutI' - 1 = j /\ wavOutI' <= outSamples + 1
  BY <1>1, <1>3, SignalIs
<1>12. MaxOf(wavOutI - 1)'
  BY <1>1, <1>5, <1>9, <1>10, <1>11 DEF MaxOf
<1>13. Len(output') = 0
  BY <1>1, <1>2
<1> QED BY <1>1, <1>2, <1>11, <1>12, <1>13 DEF LevelInv

LEMMA WriteSampleLevel == WavOutInv /\ LevelInv /\ WriteSample => LevelInv'
<1>. SUFFICES ASSUME WavOutInv, LevelInv, WriteSample PROVE LevelInv'
  OBVIOUS
<1>1. /\ wavOutPc = "output" /\ wavOutPc' = "output" /\ wavOutI <= outSamples
      /\ y' = y /\ P' = P /\ volume' = volume /\ maxAmp' = maxAmp
  BY DEF WriteSample, note
<1>2. outSamples' = outSamples
  BY <1>1 DEF outSamples
<1>3. MaxOf(outSamples)'
  <2>1. MaxOf(outSamples)
    BY <1>1 DEF LevelInv
  <2> QED BY <1>1, <1>2, <2>1 DEF MaxOf
<1>4. PICK s : /\ output' = Append(output, s)
               /\ ~IsNaN(Value(y[wavOutI])) => s = Truncate(Value(y[wavOutI]))
  <2>1. CASE IsNaN(Value(y[wavOutI]))
    <3>1. \E s \in {0, -32768} : output' = Append(output, s)
      BY <2>1 DEF WriteSample
    <3> QED BY <2>1, <3>1
  <2>2. CASE ~IsNaN(Value(y[wavOutI]))
    <3>1. \E s \in {Truncate(Value(y[wavOutI]))} : output' = Append(output, s)
      BY <2>2 DEF WriteSample
    <3> QED BY <3>1
  <2> QED BY <2>1, <2>2
<1>5. PICK n \in Nat : n = Len(output) /\ wavOutI = n + 1
  <2>1. output \in Seq(Shorts) /\ Len(output) = wavOutI - 1 /\ wavOutI \in Nat
    BY <1>1 DEF WavOutInv
  <2> QED BY <2>1
<1>6. /\ Len(output') = n + 1 /\ output'[n + 1] = s
      /\ \A k \in 1 .. n : output'[k] = output[k]
  <2>. DEFINE T == Shorts \cup {s}
  <2>1. output \in Seq(T) /\ s \in T
    <3>1. output \in Seq(Shorts)
      BY DEF WavOutInv
    <3>2. \A k \in 1 .. n : output[k] \in T
      BY <1>5, <3>1, ElementOfSeq
    <3>3. output = [k \in 1 .. n |-> output[k]]
      BY <1>5, <3>1
    <3> HIDE DEF T
    <3>4. [k \in 1 .. n |-> output[k]] \in Seq(T)
      BY <3>2
    <3> QED BY <3>3, <3>4 DEF T
  <2>. HIDE DEF T
  <2> QED BY <1>4, <1>5, <2>1, AppendProperties
<1>7. \A v : Value(v)' = Value(v)
  BY <1>1 DEF Value, peekcomp
<1>8. ASSUME NEW k \in 1 .. Len(output'), ~IsNaN(Value(y[k]))
      PROVE  output'[k] = Truncate(Value(y[k]))
  <2>1. CASE k = n + 1
    BY <1>4, <1>5, <1>6, <1>8, <2>1
  <2>2. CASE k # n + 1
    <3>1. k \in 1 .. n
      BY <1>6, <2>2
    <3> QED BY <1>5, <1>6, <1>8, <3>1 DEF LevelInv
  <2> QED BY <2>1, <2>2
<1>9. \A k \in 1 .. Len(output') : ~IsNaN(Value(y[k]))' => output'[k] = Truncate(Value(y[k]))'
  BY <1>1, <1>7, <1>8
<1> QED BY <1>1, <1>3, <1>9 DEF LevelInv

LEMMA LevelStep == WavOutInv /\ LevelInv /\ [Step]_wavOutVars => LevelInv'
<1>. SUFFICES ASSUME WavOutInv, LevelInv, [Step]_wavOutVars PROVE LevelInv'
  OBVIOUS
<1>1. ASSUME UNCHANGED <<y, P, volume, maxAmp, output>>
      PROVE  /\ outSamples' = outSamples /\ (\A n : MaxOf(n)' = MaxOf(n))
             /\ (\A v : Value(v)' = Value(v))
  <2>1. outSamples' = outSamples
    BY <1>1 DEF outSamples
  <2>2. \A n : MaxOf(n)' = MaxOf(n)
    BY <1>1 DEF MaxOf
  <2>3. \A v : Value(v)' = Value(v)
    BY <1>1 DEF Value, peekcomp
  <2> QED BY <2>1, <2>2, <2>3
<1>2. ASSUME UNCHANGED <<y, P, volume, maxAmp, output>>,
             wavOutPc # "max" /\ wavOutPc' # "max"
      PROVE  LevelInv'
  <2>1. MaxOf(outSamples)
    BY <1>2 DEF LevelInv
  <2>2. MaxOf(outSamples)'
    BY <1>1, <1>2, <2>1
  <2>3. \A k \in 1 .. Len(output') : ~IsNaN(Value(y[k]))' => output'[k] = Truncate(Value(y[k]))'
    BY <1>1, <1>2 DEF LevelInv
  <2> QED BY <1>2, <2>2, <2>3 DEF LevelInv
<1>3. CASE EndMax
  <2>1. /\ wavOutPc = "max" /\ wavOutI > outSamples /\ wavOutPc' = "output"
        /\ UNCHANGED <<y, P, volume, maxAmp, output>>
    BY <1>3 DEF EndMax, note
  <2>2. wavOutI - 1 = outSamples
    <3>1. outSamples \in Nat /\ wavOutI \in Nat
      BY SignalIs DEF WavOutInv
    <3>2. wavOutI <= outSamples + 1
      BY <2>1 DEF LevelInv
    <3> QED BY <2>1, <3>1, <3>2
  <2>3. MaxOf(outSamples)
    BY <2>1, <2>2 DEF LevelInv
  <2>4. MaxOf(outSamples)'
    BY <1>1, <2>1, <2>3
  <2>5. Len(output') = 0
    BY <2>1 DEF WavOutInv
  <2> QED BY <2>1, <2>4, <2>5 DEF LevelInv
<1>4. CASE EndOutput
  BY <1>2, <1>4 DEF EndOutput, note
<1>5. CASE Store
  BY <1>2, <1>5 DEF Store, note
<1>6. CASE Write
  <2>1. wavOutPc' \in {"written", "died"} /\ wavOutPc = "header"
    BY <1>6 DEF Write
  <2>2. UNCHANGED <<y, P, volume, maxAmp, output>>
    BY <1>6 DEF Write, note
  <2> QED BY <1>2, <2>1, <2>2
<1>7. CASE UNCHANGED wavOutVars
  <2>1. UNCHANGED <<y, P, volume, maxAmp, output>> /\ wavOutPc' = wavOutPc /\ wavOutI' = wavOutI
    BY <1>7 DEF wavOutVars, note
  <2>2. CASE wavOutPc # "max"
    BY <1>2, <2>1, <2>2
  <2>3. CASE wavOutPc = "max"
    <3>1. MaxOf(wavOutI - 1)'
      BY <1>1, <2>1, <2>3 DEF LevelInv
    <3>2. Len(output') = 0
      BY <2>1, <2>3 DEF WavOutInv
    <3> QED BY <1>1, <2>1, <2>3, <3>1, <3>2 DEF LevelInv
  <2> QED BY <2>2, <2>3
<1> QED BY <1>3, <1>4, <1>5, <1>6, <1>7, MaxAmpLevel, WriteSampleLevel DEF Step

\* A sample raised by two factors, clipped and cut.
Raised(v, p, w) == Truncate(Clipped(Times(Times(v, p), w)))

LEMMA RaisedIs ==
    ASSUME NEW v \in Float, NEW p \in Float, NEW w \in Float,
           v.den > 0, p.den > 0, w.den > 0
    PROVE  /\ ~IsNaN(Clipped(Times(Times(v, p), w)))
           /\ (v.den * p.den) * w.den \in Nat /\ (v.den * p.den) * w.den > 0
           /\ (v.num * p.num) * w.num \in Int
           /\ Raised(v, p, w) = Clamp(Quotient((v.num * p.num) * w.num, (v.den * p.den) * w.den))
           /\ Raised(v, p, w) \in Int
<1>1. PICK vn \in Int, vd \in Nat, pn \in Int, pd \in Nat, wn \in Int, wd \in Nat :
        /\ vn = v.num /\ vd = v.den /\ pn = p.num /\ pd = p.den /\ wn = w.num /\ wd = w.den
        /\ vd > 0 /\ pd > 0 /\ wd > 0
  <2>1. /\ v.num \in Int /\ v.den \in Nat /\ p.num \in Int /\ p.den \in Nat
        /\ w.num \in Int /\ w.den \in Nat
    BY FloatsAre
  <2> QED BY <2>1
<1>2. PICK x \in Float : x = Times(Times(v, p), w)
  BY FloatsAre
<1>3. x.num = (vn * pn) * wn /\ x.den = (vd * pd) * wd
  BY <1>1, <1>2 DEF Times, Frac
<1>4. (vd * pd) * wd \in Nat /\ (vd * pd) * wd > 0 /\ (vn * pn) * wn \in Int
  <2>1. vd * pd \in Nat /\ vd * pd > 0
    BY <1>1
  <2>2. PICK e \in Nat : e = vd * pd /\ e > 0
    BY <2>1
  <2>3. e * wd \in Nat /\ e * wd > 0
    BY <1>1, <2>2
  <2> QED BY <2>2, <2>3
<1>5. /\ ~IsNaN(Clipped(x)) /\ Truncate(Clipped(x)) = Clamp(Quotient(x.num, x.den))
      /\ Quotient(x.num, x.den) \in Int
  BY <1>3, <1>4, ClippedCut
<1>6. Clamp(Quotient(x.num, x.den)) \in Int
  BY <1>5 DEF Clamp
<1> QED BY <1>1, <1>2, <1>3, <1>4, <1>5, <1>6 DEF Raised

LEMMA RaisedMonotone ==
    ASSUME NEW a \in Float, NEW b \in Float, NEW p \in Float, NEW w \in Float,
           a.den > 0, b.den > 0, p.den > 0, w.den > 0, p.num >= 0, w.num >= 0,
           ~Less(b, a)
    PROVE  Raised(a, p, w) <= Raised(b, p, w)
<1>1. PICK an \in Int, ad \in Nat, bn \in Int, bd \in Nat :
        an = a.num /\ ad = a.den /\ bn = b.num /\ bd = b.den
  <2>1. a.num \in Int /\ a.den \in Nat /\ b.num \in Int /\ b.den \in Nat
    BY FloatsAre
  <2> QED BY <2>1
<1>2. PICK pn \in Nat, pd \in Nat, wn \in Nat, wd \in Nat :
        pn = p.num /\ pd = p.den /\ wn = w.num /\ wd = w.den
  <2>1. p.num \in Int /\ p.den \in Nat /\ w.num \in Int /\ w.den \in Nat
    BY FloatsAre
  <2> QED BY <2>1
<1>3. an * bd <= bn * ad
  BY <1>1 DEF Less
<1>4. PICK m \in Int, c \in Nat, n \in Int, d \in Nat :
        /\ m = (an * pn) * wn /\ c = (ad * pd) * wd
        /\ n = (bn * pn) * wn /\ d = (bd * pd) * wd
  OBVIOUS
<1>5. c > 0 /\ d > 0
  BY <1>1, <1>2, <1>4, RaisedIs
<1>6. m * d <= n * c
  <2>1. PICK g \in Nat : g = (pn * wn) * (pd * wd)
    OBVIOUS
  <2>2. PICK u \in Int, v \in Int : u = an * bd /\ v = bn * ad /\ u <= v
    BY <1>3
  <2>3. u * g <= v * g
    BY <2>2
  <2>4. m * d = u * g
    BY <1>4, <2>1, <2>2
  <2>5. n * c = v * g
    BY <1>4, <2>1, <2>2
  <2> QED BY <2>3, <2>4, <2>5
<1>7. Quotient(m, c) <= Quotient(n, d)
  BY <1>5, <1>6, QuotientMonotone
<1>8. Quotient(m, c) \in Int /\ Quotient(n, d) \in Int
  BY <1>5, QuotientIs
<1>9. Clamp(Quotient(m, c)) <= Clamp(Quotient(n, d))
  BY <1>7, <1>8, ClampMonotone
<1> QED BY <1>1, <1>2, <1>4, <1>9, RaisedIs

VolumesAudible == \A v \in Volumes : v.num >= 0 /\ v.den > 0

LEMMA FactorIs ==
    ASSUME WavOutInv, VolumesAudible, Sounding
    PROVE  /\ peekcomp \in Float /\ peekcomp.den > 0 /\ peekcomp.num >= 0
           /\ volume \in Float /\ volume.den > 0 /\ volume.num >= 0
           /\ P = 1 => peekcomp.num = 16384 * maxAmp.den /\ peekcomp.den = maxAmp.num
<1>1. PICK n \in Nat, d \in Nat : n = maxAmp.num /\ d = maxAmp.den /\ n > 0 /\ d > 0
  <2>1. maxAmp \in Float
    BY DEF WavOutInv
  <2>2. maxAmp.num \in Int /\ maxAmp.den \in Nat
    BY <2>1, FloatsAre
  <2> QED BY <2>2 DEF Sounding, Finite
<1>2. CASE P = 0
  <2>1. peekcomp = Frac(32, 1)
    BY <1>2 DEF peekcomp, Whole
  <2>2. Frac(32, 1) \in Float /\ Frac(32, 1).num = 32 /\ Frac(32, 1).den = 1
    BY DEF Frac, Float
  <2>3. volume \in Float /\ volume.den > 0 /\ volume.num >= 0
    BY VolumeAssumption DEF WavOutInv, VolumesAudible
  <2> QED BY <1>2, <2>1, <2>2, <2>3
<1>3. CASE P # 0
  <2>1. peekcomp = Frac(32 * (512 * d), 1 * (1 * n))
    BY <1>1, <1>3 DEF peekcomp, Times, Over, Whole, Frac
  <2>2. 32 * (512 * d) = 16384 * d /\ 1 * (1 * n) = n
    OBVIOUS
  <2>3. Frac(16384 * d, n) \in Float /\ Frac(16384 * d, n).num = 16384 * d
        /\ Frac(16384 * d, n).den = n
    BY DEF Frac, Float
  <2>4. volume \in Float /\ volume.den > 0 /\ volume.num >= 0
    BY VolumeAssumption DEF WavOutInv, VolumesAudible
  <2> QED BY <1>1, <2>1, <2>2, <2>3, <2>4
<1> QED BY <1>2, <1>3

\* Every finite sample of a note that sounds is raised.
LEMMA OutputRaised ==
    ASSUME WavOutInv, LevelInv, VolumesAudible, Sounding,
           NEW k \in 1 .. Len(output)
    PROVE  /\ k \in 1 .. outSamples /\ output[k] \in Int
           /\ Finite(y[k]) => output[k] = Raised(y[k], peekcomp, volume)
<1>1. k \in 1 .. outSamples
  <2>1. output \in Seq(Shorts) /\ Len(output) \in Nat /\ outSamples \in Nat
    BY SignalIs DEF WavOutInv
  <2>2. Len(output) <= outSamples
    <3>1. CASE wavOutPc = "max"
      <4>1. Len(output) = 0
        BY <3>1 DEF WavOutInv
      <4> QED BY <2>1, <4>1
    <3>2. CASE wavOutPc = "output"
      <4>1. wavOutI \in Nat /\ Len(output) = wavOutI - 1 /\ wavOutI <= outSamples + 1
        BY <3>2 DEF WavOutInv
      <4> QED BY <2>1, <4>1
    <3>3. CASE wavOutPc \notin {"max", "output"}
      BY <2>1, <3>3 DEF WavOutInv
    <3> QED BY <3>1, <3>2, <3>3
  <2> QED BY <2>1, <2>2
<1>2. output[k] \in Int
  <2>1. output[k] \in Shorts
    BY ElementOfSeq DEF WavOutInv
  <2> QED BY <2>1, ShortsAre
<1>3. ASSUME Finite(y[k]) PROVE output[k] = Raised(y[k], peekcomp, volume)
  <2>1. y[k] \in Float /\ y[k].den > 0
    BY <1>1, <1>3, SignalIs DEF Finite
  <2>2. ~IsNaN(y[k])
    BY <2>1 DEF IsNaN
  <2>3. PICK p \in Float, w \in Float : p = peekcomp /\ w = volume /\ p.den > 0 /\ w.den > 0
    BY FactorIs
  <2>4. Value(y[k]) = Clipped(Times(Times(y[k], p), w))
    BY <2>2, <2>3 DEF Value
  <2>5. ~IsNaN(Value(y[k]))
    BY <2>1, <2>3, <2>4, RaisedIs
  <2>6. output[k] = Truncate(Value(y[k]))
    BY <2>5 DEF LevelInv
  <2> QED BY <2>3, <2>4, <2>6 DEF Raised
<1> QED BY <1>1, <1>2, <1>3

LEMMA ShapeIsKept == WavOutInv /\ LevelInv /\ VolumesAudible => ShapeKept
<1>. SUFFICES ASSUME WavOutInv, LevelInv, VolumesAudible, Sounding,
                     NEW j \in 1 .. Len(output), NEW k \in 1 .. Len(output)
              PROVE  /\ Finite(y[j]) /\ Finite(y[k]) /\ ~Less(y[k], y[j])
                           => output[j] <= output[k]
                     /\ y[j].num = 0 => output[j] = 0
  BY DEF ShapeKept
<1>1. PICK p \in Float, w \in Float :
        /\ p = peekcomp /\ w = volume /\ p.den > 0 /\ w.den > 0
        /\ p.num >= 0 /\ w.num >= 0
  BY FactorIs
<1>2. PICK a \in Float, b \in Float : a = y[j] /\ b = y[k]
  BY OutputRaised, SignalIs
<1>3. ASSUME Finite(a), Finite(b), ~Less(b, a) PROVE output[j] <= output[k]
  <2>1. output[j] = Raised(a, p, w) /\ output[k] = Raised(b, p, w)
    BY <1>1, <1>2, <1>3, OutputRaised
  <2>2. a.den > 0 /\ b.den > 0
    BY <1>3 DEF Finite
  <2> QED BY <1>1, <1>3, <2>1, <2>2, RaisedMonotone
<1>4. ASSUME a.num = 0 PROVE output[j] = 0
  <2>1. CASE IsNaN(a)
    <3>1. Value(a) = Whole(0)
      BY <2>1 DEF Value
    <3>2. ~IsNaN(Whole(0)) /\ Truncate(Whole(0)) = 0
      BY DEF IsNaN, Truncate, Quotient, Whole, Frac
    <3> QED BY <1>2, <3>1, <3>2 DEF LevelInv
  <2>2. CASE ~IsNaN(a)
    <3>1. a.den > 0
      <4>1. a.den \in Nat
        BY FloatsAre
      <4> QED BY <1>4, <2>2, <4>1 DEF IsNaN
    <3>2. output[j] = Raised(a, p, w)
      BY <1>1, <1>2, <3>1, OutputRaised DEF Finite
    <3>3. PICK d \in Nat : d = (a.den * p.den) * w.den /\ d > 0
      BY <1>1, <3>1, RaisedIs
    <3>4. (a.num * p.num) * w.num = 0
      <4>1. p.num \in Int /\ w.num \in Int
        BY FloatsAre
      <4> QED BY <1>4, <4>1
    <3>5. Raised(a, p, w) = Clamp(Quotient((a.num * p.num) * w.num, (a.den * p.den) * w.den))
      BY <1>1, <3>1, RaisedIs
    <3>6. Quotient(0, d) = 0
      <4>0. PICK z \in Int : z = 0
        OBVIOUS
      <4>a. z >= 0 /\ d > 0
        BY <3>3, <4>0
      <4>b. Quotient(z, d) \in Int /\ Quotient(z, d) >= 0 /\ Quotient(z, d) * d <= z
        BY <4>a, QuotientIs
      <4>1. PICK q \in Int : q = Quotient(z, d) /\ q >= 0 /\ q * d <= z
        BY <4>b
      <4>2. ASSUME q > 0 PROVE FALSE
        <5>1. q * d > 0
          BY <3>3, <4>2
        <5> QED BY <4>0, <4>1, <5>1
      <4> QED BY <4>0, <4>1, <4>2
    <3>7. Clamp(0) = 0
      BY DEF Clamp
    <3> QED BY <3>2, <3>3, <3>4, <3>5, <3>6, <3>7
  <2> QED BY <2>1, <2>2
<1> QED BY <1>2, <1>3, <1>4

\* A fraction that is extended is cut to the same number.
LEMMA QuotientExtended ==
    ASSUME NEW n \in Int, NEW d \in Nat, NEW e \in Nat, d > 0, e > 0
    PROVE  e * d > 0 /\ Quotient(e * n, e * d) = Quotient(n, d)
<1>1. PICK m \in Int, c \in Nat : m = e * n /\ c = e * d /\ c > 0
  OBVIOUS
<1>2. m * d = n * c
  BY <1>1
<1>3. m * d <= n * c /\ n * c <= m * d
  BY <1>2
<1>4. Quotient(m, c) <= Quotient(n, d)
  BY <1>1, <1>3, QuotientMonotone
<1>5. Quotient(n, d) <= Quotient(m, c)
  BY <1>1, <1>3, QuotientMonotone
<1>6. Quotient(m, c) \in Int /\ Quotient(n, d) \in Int
  BY <1>1, QuotientIs
<1> QED BY <1>1, <1>4, <1>5, <1>6

Extended(n, d, e) == Quotient(e * n, e * d) = Quotient(n, d)

LEMMA QuotientsExtend ==
    \A n \in Int, d \in Nat, e \in Nat : d > 0 /\ e > 0 => Extended(n, d, e)
BY Zenon, QuotientExtended DEF Extended

BothSigns(n, d, q) == Quotient(n, d) = q /\ Quotient(-n, d) = -q

LEMMA QuotientNat ==
    ASSUME NEW n \in Nat, NEW d \in Nat, d > 0
    PROVE  \E q \in Nat : BothSigns(n, d, q)
<1>1. PICK z \in Int : z = n /\ z >= 0
  OBVIOUS
<1>2. Quotient(z, d) \in Int /\ Quotient(-z, d) = -Quotient(z, d)
  BY QuotientIs
<1>3. Quotient(z, d) >= 0
  BY <1>1, QuotientIs
<1> QED BY <1>1, <1>2, <1>3 DEF BothSigns

\* The level at full scale: what the loudest sample of either sign is raised to.
LEMMA LevelIs ==
    ASSUME NEW n \in Nat, NEW d \in Nat, NEW p \in Float, NEW w \in Float, n > 0, d > 0,
           p.num = 16384 * d, p.den = n, w.num >= 0, w.den > 0
    PROVE  LET asked == Truncate(Times(Whole(16384), w))
               level == IF asked < 32767 THEN asked ELSE 32767
           IN  /\ level \in Nat
               /\ Raised(Frac(n, d), p, w) = level /\ Raised(Frac(-n, d), p, w) = -level
<1>. DEFINE asked == Truncate(Times(Whole(16384), w))
<1>1. PICK wn \in Nat, wd \in Nat : wn = w.num /\ wd = w.den /\ wd > 0
  <2>1. w.num \in Int /\ w.den \in Nat
    BY FloatsAre
  <2> QED BY <2>1
<1>2. PICK a \in Nat : a = 16384 * wn
  OBVIOUS
<1>3. asked = Quotient(a, wd)
  BY <1>1, <1>2 DEF Truncate, Times, Whole, Frac
<1>4. PICK q \in Nat : Quotient(a, wd) = q /\ Quotient(-a, wd) = -q
  <2>1. wd > 0
    BY <1>1
  <2>a. \A x \in Nat, z \in Nat : z > 0 => \E q \in Nat : BothSigns(x, z, q)
    BY QuotientNat
  <2>b. a \in Nat /\ wd \in Nat
    OBVIOUS
  <2>2. \E q \in Nat : BothSigns(a, wd, q)
    BY <2>1, <2>a, <2>b
  <2> QED BY <2>2 DEF BothSigns
<1>5. PICK e \in Nat : e = n * d /\ e > 0
  OBVIOUS
<1>6. ASSUME NEW s \in {1, -1}
      PROVE  Raised(Frac(s * n, d), p, w) = Clamp(Quotient(s * a, wd))
  <2>1. Frac(s * n, d) \in Float /\ Frac(s * n, d).num = s * n /\ Frac(s * n, d).den = d
    BY DEF Frac, Float
  <2>2. Raised(Frac(s * n, d), p, w) =
            Clamp(Quotient((s * n * (16384 * d)) * wn, (d * n) * wd))
    <3>1. PICK v \in Float : v = Frac(s * n, d)
      BY <2>1
    <3>2. Raised(v, p, w) = Clamp(Quotient((v.num * p.num) * w.num, (v.den * p.den) * w.den))
      BY <1>1, <2>1, <3>1, RaisedIs
    <3> QED BY <1>1, <2>1, <3>1, <3>2
  <2>3. PICK t \in Int : t = s * a
    OBVIOUS
  <2>4. (s * n * (16384 * d)) * wn = e * t
    BY <1>2, <1>5, <2>3
  <2>5. (d * n) * wd = e * wd
    BY <1>5
  <2>6. Quotient(e * t, e * wd) = Quotient(t, wd)
    <3>1. /\ e > 0 /\ wd > 0
          /\ e \in Nat /\ wd \in Nat /\ t \in Int
      BY <1>1, <1>5, <2>3
    <3>2. Extended(t, wd, e)
      BY <3>1, QuotientsExtend
    <3> QED BY SMT, <3>2 DEF Extended
  <2> QED BY <2>2, <2>3, <2>4, <2>5, <2>6
<1>7. Raised(Frac(n, d), p, w) = Clamp(q)
  <2>1. 1 * n = n /\ 1 * a = a /\ 1 \in {1, -1}
    OBVIOUS
  <2>2. Raised(Frac(1 * n, d), p, w) = Clamp(Quotient(1 * a, wd))
    BY <1>6, <2>1
  <2> QED BY <1>4, <2>1, <2>2
<1>8. Raised(Frac(-n, d), p, w) = Clamp(-q)
  <2>1. -1 * n = -n /\ -1 * a = -a /\ -1 \in {1, -1}
    OBVIOUS
  <2>2. Raised(Frac(-1 * n, d), p, w) = Clamp(Quotient(-1 * a, wd))
    BY <1>6, <2>1
  <2> QED BY <1>4, <2>1, <2>2
<1>9. PICK l \in Nat : l = IF q < 32767 THEN q ELSE 32767
  OBVIOUS
<1>10. Clamp(q) = l /\ Clamp(-q) = -l
  BY <1>4, <1>9 DEF Clamp
<1>11. asked = q
  BY <1>3, <1>4
<1>. HIDE DEF asked
<1>12. (IF asked < 32767 THEN asked ELSE 32767) = l
  BY <1>9, <1>11
<1> QED BY <1>7, <1>8, <1>10, <1>12 DEF asked

\* A finite sample is between the loudest one and its negative.
LEMMA WithinMax ==
    ASSUME NEW n \in Nat, NEW d \in Nat, NEW v \in Float, n > 0, d > 0,
           ~Less(Frac(n, d), Magnitude(v))
    PROVE  ~Less(Frac(n, d), v) /\ ~Less(v, Frac(-n, d))
<1>1. PICK vn \in Int, vd \in Nat : vn = v.num /\ vd = v.den
  BY FloatsAre
<1>2. CASE vn < 0
  <2>1. Magnitude(v) = Frac(-vn, vd)
    BY <1>1, <1>2 DEF Magnitude
  <2>2. ~(n * vd < (-vn) * d)
    BY <2>1 DEF Less, Frac
  <2>3. (-vn) * d = -(vn * d) /\ vn * d <= 0 /\ n * vd >= 0 /\ (-n) * vd = -(n * vd)
        /\ vn * d \in Int /\ n * vd \in Int
    BY <1>2
  <2>4. ~(n * vd < vn * d) /\ ~(vn * d < (-n) * vd)
    BY <2>2, <2>3
  <2> QED BY <1>1, <2>4 DEF Less, Frac
<1>3. CASE ~(vn < 0)
  <2>1. Magnitude(v) = v
    BY <1>1, <1>3 DEF Magnitude
  <2>2. ~(n * vd < vn * d)
    BY <1>1, <2>1 DEF Less, Frac
  <2>3. vn * d >= 0 /\ n * vd >= 0 /\ (-n) * vd = -(n * vd) /\ vn * d \in Int /\ n * vd \in Int
    BY <1>3
  <2>4. ~(vn * d < (-n) * vd)
    BY <2>3
  <2> QED BY <1>1, <2>2, <2>4 DEF Less, Frac
<1> QED BY <1>2, <1>3

LEMMA LevelIsFull == WavOutInv /\ LevelInv /\ VolumesAudible => FullLevel
<1>. SUFFICES ASSUME WavOutInv, LevelInv, VolumesAudible, Sounding, P = 1,
                     Len(output) = outSamples
              PROVE  LET asked == Truncate(Times(Whole(16384), volume))
                         level == IF asked < 32767 THEN asked ELSE 32767
                     IN  /\ \E k \in 1 .. outSamples : output[k] \in {level, -level}
                         /\ \A k \in 1 .. outSamples :
                               Finite(y[k]) => output[k] \in -level .. level
  BY DEF FullLevel
<1>. DEFINE asked == Truncate(Times(Whole(16384), volume))
            level == IF asked < 32767 THEN asked ELSE 32767
<1>1. PICK n \in Nat, d \in Nat : n = maxAmp.num /\ d = maxAmp.den /\ n > 0 /\ d > 0
                                  /\ maxAmp = Frac(n, d)
  <2>1. maxAmp \in Float
    BY DEF WavOutInv
  <2>2. maxAmp.num \in Int /\ maxAmp.den \in Nat
    BY <2>1, FloatsAre
  <2>3. maxAmp = Frac(maxAmp.num, maxAmp.den)
    BY <2>1 DEF Float, Frac
  <2> QED BY <2>2, <2>3 DEF Sounding, Finite
<1>2. PICK p \in Float, w \in Float :
        /\ p = peekcomp /\ w = volume /\ p.den > 0 /\ w.den > 0
        /\ p.num >= 0 /\ w.num >= 0 /\ p.num = 16384 * d /\ p.den = n
  BY <1>1, FactorIs
<1>3. PICK l \in Nat : /\ l = level
                       /\ Raised(Frac(n, d), p, w) = l /\ Raised(Frac(-n, d), p, w) = -l
  BY <1>1, <1>2, LevelIs
<1>. HIDE DEF level
<1>4. MaxOf(outSamples)
  <2>1. CASE wavOutPc = "max"
    <3>0. output = <<>>
      BY <2>1 DEF WavOutInv
    <3>1. Len(output) = 0
      BY Zenon, <3>0, EmptySeq
    <3>2. wavOutI \in Nat /\ wavOutI - 1 = 0
      <4>1. wavOutI \in Nat \ {0} /\ wavOutI <= outSamples + 1 /\ outSamples = 0
        BY <2>1, <3>1 DEF WavOutInv, LevelInv
      <4> QED BY <4>1
    <3> QED BY <2>1, <3>1, <3>2 DEF LevelInv
  <2> QED BY <2>1 DEF LevelInv
<1>5. PICK k \in 1 .. outSamples : ~IsNaN(y[k]) /\ maxAmp = Magnitude(y[k])
  <2>1. maxAmp # Whole(0)
    <3>1. Whole(0).num = 0
      BY DEF Whole, Frac
    <3> QED BY <1>1, <3>1
  <2> QED BY <1>4, <2>1 DEF MaxOf
<1>6. y[k] = Frac(n, d) \/ y[k] = Frac(-n, d)
  <2>1. PICK v \in Float : v = y[k]
    BY SignalIs
  <2>2. v.num \in Int /\ v.den \in Nat /\ v = Frac(v.num, v.den)
    BY FloatsAre DEF Float, Frac
  <2>3. CASE v.num < 0
    <3>1. maxAmp = Frac(-v.num, v.den)
      BY <1>5, <2>1, <2>3 DEF Magnitude
    <3>2. n = -v.num /\ d = v.den
      BY <1>1, <3>1 DEF Frac
    <3>3. v.num = -n
      BY <2>2, <3>2
    <3> QED BY <2>1, <2>2, <3>2, <3>3
  <2>4. CASE ~(v.num < 0)
    BY <1>1, <1>5, <2>1, <2>4 DEF Magnitude
  <2> QED BY <2>3, <2>4
<1>7. output[k] \in {level, -level}
  <2>1. Finite(y[k])
    BY <1>1, <1>6 DEF Finite, Frac
  <2>2. output[k] = Raised(y[k], p, w)
    BY <1>2, <2>1, OutputRaised
  <2> QED BY <1>3, <1>6, <2>2
<1>8. ASSUME NEW h \in 1 .. outSamples, Finite(y[h])
      PROVE  output[h] \in -level .. level
  <2>1. PICK v \in Float : v = y[h] /\ v.den > 0
    BY <1>8, SignalIs DEF Finite
  <2>2. PICK a \in Float, b \in Float : a = Frac(n, d) /\ b = Frac(-n, d) /\ a.den > 0 /\ b.den > 0
    <3>1. n \in Int /\ -n \in Int
      OBVIOUS
    <3>2. Frac(n, d) \in Float /\ Frac(-n, d) \in Float
      BY <3>1, FloatsAre
    <3>3. Frac(n, d).den = d /\ Frac(-n, d).den = d
      BY DEF Frac
    <3> QED BY <1>1, <3>2, <3>3
  <2>3. output[h] = Raised(v, p, w) /\ output[h] \in Int
    BY <1>2, <1>8, <2>1, OutputRaised
  <2>4. ~Less(a, v) /\ ~Less(v, b)
    <3>1. ~IsNaN(v)
      BY <2>1 DEF IsNaN
    <3>2. ~Less(maxAmp, Magnitude(v))
      BY <1>4, <2>1, <3>1 DEF MaxOf
    <3> QED BY <1>1, <2>2, <3>2, WithinMax
  <2>5. Raised(v, p, w) <= Raised(a, p, w)
    BY <1>2, <2>1, <2>2, <2>4, RaisedMonotone
  <2>6. Raised(b, p, w) <= Raised(v, p, w)
    BY <1>2, <2>1, <2>2, <2>4, RaisedMonotone
  <2> QED BY <1>3, <2>2, <2>3, <2>5, <2>6
<1> QED BY <1>7, <1>8 DEF level

-----------------------------------------------------------------------------
(* The header of a note *)

\* Where the fields begin, and where the last one ends.
Starts == <<0, 4, 8, 12, 16, 20, 22, 24, 28, 32, 34, 36, 40, 44>>

\* The fields as the format has them.
Fields ==
    << RIFF, LittleEndian(36 + 2 * outSamples, 4), WAVE, fmt, LittleEndian(16, 4),
       Short(1), Short(1), LittleEndian(fs, 4), LittleEndian((fs * nbit) \div 8, 4),
       Short(nbit \div 8), Short(nbit), Data, LittleEndian(2 * outSamples, 4) >>

\* h is the first n fields, one after the other.
Joined(h, n) ==
    /\ h \in Seq(Byte) /\ Len(h) = Starts[n + 1]
    /\ \A m \in 1 .. n : \A k \in Starts[m] .. Starts[m + 1] - 1 :
          h[k + 1] = Fields[m][(k - Starts[m]) + 1]

LEMMA StartsAre ==
    /\ Starts[1] = 0 /\ Starts[14] = 44
    /\ \A j \in 1 .. 14 : Starts[j] \in 0 .. 44 /\ Starts[j] \in Nat
    /\ \A j \in 1 .. 13 : Starts[j] < Starts[j + 1]
    /\ \A j \in 1 .. 14 : \A m \in 1 .. j : Starts[m] <= Starts[j]
<1>1. /\ Starts[1] = 0 /\ Starts[2] = 4 /\ Starts[3] = 8 /\ Starts[4] = 12 /\ Starts[5] = 16
      /\ Starts[6] = 20 /\ Starts[7] = 22 /\ Starts[8] = 24 /\ Starts[9] = 28
      /\ Starts[10] = 32 /\ Starts[11] = 34 /\ Starts[12] = 36 /\ Starts[13] = 40
      /\ Starts[14] = 44
  BY DEF Starts
<1>2. \A j \in 1 .. 14 : Starts[j] \in 0 .. 44 /\ Starts[j] \in Nat
  BY <1>1
<1>3. \A j \in 1 .. 13 : Starts[j] < Starts[j + 1]
  BY <1>1
<1>4. \A j \in 1 .. 14 : \A m \in 1 .. j : Starts[m] <= Starts[j]
  BY <1>1
<1> QED BY <1>1, <1>2, <1>3, <1>4

LEMMA FieldsAre ==
    ASSUME WavOutInv
    PROVE  \A j \in 1 .. 13 : Fields[j] \in Seq(Byte)
                              /\ Len(Fields[j]) = Starts[j + 1] - Starts[j]
<1>1. /\ RIFF \in Seq(Byte) /\ Len(RIFF) = 4 /\ WAVE \in Seq(Byte) /\ Len(WAVE) = 4
      /\ fmt \in Seq(Byte) /\ Len(fmt) = 4 /\ Data \in Seq(Byte) /\ Len(Data) = 4
  BY DEF RIFF, WAVE, fmt, Data, Byte
<1>2. ASSUME NEW n \in Int
      PROVE  /\ LittleEndian(n, 4) \in Seq(Byte) /\ Len(LittleEndian(n, 4)) = 4
             /\ Short(n) \in Seq(Byte) /\ Len(Short(n)) = 2
  <2>1. PICK s \in Nat : s = 4
    OBVIOUS
  <2>2. LittleEndian(n, s) \in Seq(Byte) /\ Len(LittleEndian(n, s)) = s
    BY LittleEndianIs
  <2> QED BY <2>1, <2>2, ShortIs
<1>3. /\ 36 + 2 * outSamples \in Int /\ 2 * outSamples \in Int /\ fs \in Int
      /\ (fs * nbit) \div 8 \in Int /\ nbit \div 8 \in Int /\ nbit \in Int
      /\ 16 \in Int /\ 1 \in Int
  <2>1. outSamples \in Nat /\ fs \in Nat /\ nbit \in Nat
    <3>1. fs \in Nat /\ nbit \in 0 .. 255
      BY Zenon, RateAssumption DEF WavOutInv
    <3> QED BY <3>1, SignalIs
  <2>2. fs * nbit \in Nat
    BY <2>1
  <2> QED BY <2>1, <2>2
<1>4. /\ Fields[1] = RIFF /\ Fields[2] = LittleEndian(36 + 2 * outSamples, 4)
      /\ Fields[3] = WAVE /\ Fields[4] = fmt /\ Fields[5] = LittleEndian(16, 4)
      /\ Fields[6] = Short(1) /\ Fields[7] = Short(1) /\ Fields[8] = LittleEndian(fs, 4)
      /\ Fields[9] = LittleEndian((fs * nbit) \div 8, 4)
      /\ Fields[10] = Short(nbit \div 8) /\ Fields[11] = Short(nbit)
      /\ Fields[12] = Data /\ Fields[13] = LittleEndian(2 * outSamples, 4)
  BY DEF Fields
<1>5. ASSUME NEW j \in 1 .. 13
      PROVE  Fields[j] \in Seq(Byte) /\ Len(Fields[j]) = Starts[j + 1] - Starts[j]
  <2>1. CASE j \in {1, 3, 4, 12}
    <3>1. Fields[j] \in Seq(Byte) /\ Len(Fields[j]) = 4
      BY <1>1, <1>4, <2>1
    <3>2. Starts[j + 1] - Starts[j] = 4
      BY <2>1 DEF Starts
    <3> QED BY <3>1, <3>2
  <2>2. CASE j \in {2, 5, 8, 9, 13}
    <3>0. \E n \in Int : Fields[j] = LittleEndian(n, 4)
      BY <1>3, <1>4, <2>2
    <3>1. Fields[j] \in Seq(Byte) /\ Len(Fields[j]) = 4
      BY <1>2, <3>0
    <3>2. Starts[j + 1] - Starts[j] = 4
      BY <2>2 DEF Starts
    <3> QED BY <3>1, <3>2
  <2>3. CASE j \in {6, 7, 10, 11}
    <3>1. Fields[j] \in Seq(Byte) /\ Len(Fields[j]) = 2
      BY <1>2, <1>3, <1>4, <2>3
    <3>2. Starts[j + 1] - Starts[j] = 2
      BY <2>3 DEF Starts
    <3> QED BY <3>1, <3>2
  <2> QED BY <2>1, <2>2, <2>3
<1> QED BY <1>5

LEMMA JoinIs ==
    ASSUME NEW h \in Seq(Byte), NEW f \in Seq(Byte), NEW s \in Nat, NEW e \in Nat,
           Len(h) = s, Len(f) = e - s
    PROVE  /\ h \o f \in Seq(Byte) /\ Len(h \o f) = s + (e - s)
           /\ \A k \in 1 .. s : (h \o f)[k] = h[k]
           /\ \A k \in 1 .. e - s : (h \o f)[s + k] = f[k]
<1>1. /\ h \o f \in Seq(Byte) /\ Len(h \o f) = Len(h) + Len(f)
      /\ \A k \in 1 .. Len(h) + Len(f) :
            (h \o f)[k] = IF k <= Len(h) THEN h[k] ELSE f[k - Len(h)]
  BY ConcatProperties
<1>2. \A k \in 1 .. s : (h \o f)[k] = h[k]
  <2>1. ASSUME NEW k \in 1 .. s PROVE k \in 1 .. s + Len(f) /\ k <= s
    OBVIOUS
  <2> QED BY <1>1, <2>1
<1>3. \A k \in 1 .. e - s : (h \o f)[s + k] = f[k]
  <2>1. ASSUME NEW k \in 1 .. e - s
        PROVE  s + k \in 1 .. s + (e - s) /\ ~(s + k <= s) /\ (s + k) - s = k
    OBVIOUS
  <2> QED BY <1>1, <2>1
<1> QED BY <1>1, <1>2, <1>3

LEMMA PlaceInField ==
    \A s, e \in Nat : \A k \in s .. e - 1 :
        (k - s) + 1 \in 1 .. e - s /\ s + ((k - s) + 1) = k + 1
OBVIOUS

LEMMA JoinStep ==
    ASSUME WavOutInv, NEW h, NEW n \in 1 .. 12, Joined(h, n)
    PROVE  Joined(h \o Fields[n + 1], n + 1)
<1>1. PICK f \in Seq(Byte) : f = Fields[n + 1] /\ Len(f) = Starts[n + 2] - Starts[n + 1]
  <2>1. n + 1 \in 1 .. 13 /\ (n + 1) + 1 = n + 2
    OBVIOUS
  <2> QED BY <2>1, FieldsAre
<1>2. h \in Seq(Byte) /\ Len(h) = Starts[n + 1]
  BY DEF Joined
<1>3. PICK s \in Nat, e \in Nat : s = Starts[n + 1] /\ e = Starts[n + 2] /\ s < e
  <2>1. n + 1 \in 1 .. 13 /\ n + 1 \in 1 .. 14 /\ n + 2 \in 1 .. 14 /\ (n + 1) + 1 = n + 2
    OBVIOUS
  <2>2. Starts[n + 1] \in Nat /\ Starts[n + 2] \in Nat
    BY Zenon, <2>1, StartsAre
  <2>3. Starts[n + 1] < Starts[n + 2]
    BY <2>1, StartsAre
  <2> QED BY Zenon, <2>2, <2>3
<1>4. /\ h \o f \in Seq(Byte) /\ Len(h \o f) = s + (e - s)
      /\ \A k \in 1 .. s : (h \o f)[k] = h[k]
      /\ \A k \in 1 .. e - s : (h \o f)[s + k] = f[k]
  <2>1. Len(h) = s /\ Len(f) = e - s
    BY Zenon, <1>1, <1>2, <1>3
  <2> QED BY Zenon, <1>2, <2>1, JoinIs
<1>5. Len(h \o f) = e
  BY <1>3, <1>4
<1>6. ASSUME NEW m \in 1 .. n + 1, NEW k \in Starts[m] .. Starts[m + 1] - 1
      PROVE  (h \o f)[k + 1] = Fields[m][(k - Starts[m]) + 1]
  <2>1. CASE m = n + 1
    <3>0. k \in s .. e - 1
      <4>1. m + 1 = n + 2
        BY <2>1
      <4> QED BY Zenon, <1>3, <2>1, <4>1
    <3>1. (k - s) + 1 \in 1 .. e - s /\ s + ((k - s) + 1) = k + 1
      BY Zenon, <1>3, <3>0, PlaceInField
    <3>2. (h \o f)[s + ((k - s) + 1)] = f[(k - s) + 1]
      BY Zenon, <1>4, <3>1
    <3> QED BY Zenon, <1>1, <1>3, <2>1, <3>1, <3>2
  <2>2. CASE m # n + 1
    <3>1. m \in 1 .. n /\ m + 1 \in 1 .. n + 1 /\ n + 1 \in 1 .. 14 /\ m \in 1 .. 14 /\ m + 1 \in 1 .. 14
      BY <2>2
    <3>2. Starts[m] \in Nat /\ Starts[m + 1] \in Nat /\ Starts[m + 1] <= s
      BY Zenon, <1>3, <3>1, StartsAre
    <3>3. k + 1 \in 1 .. s
      <4>1. PICK a \in Nat, b \in Nat : a = Starts[m] /\ b = Starts[m + 1] /\ b <= s
        BY Zenon, <3>2
      <4>2. k \in a .. b - 1
        BY Zenon, <4>1
      <4> QED BY <4>1, <4>2
    <3>4. h[k + 1] = Fields[m][(k - Starts[m]) + 1]
      BY <3>1 DEF Joined
    <3> QED BY <1>4, <3>3, <3>4
  <2> QED BY <2>1, <2>2
<1>7. (n + 1) + 1 = n + 2
  OBVIOUS
<1> QED BY <1>1, <1>3, <1>4, <1>5, <1>6, <1>7 DEF Joined

LEMMA WantedIs == WavOutInv => Joined(HeaderWanted, 13)
<1>. SUFFICES ASSUME WavOutInv PROVE Joined(HeaderWanted, 13)
  OBVIOUS
<1>1. Joined(Fields[1], 1)
  <2>1. Fields[1] \in Seq(Byte) /\ Len(Fields[1]) = Starts[2] - Starts[1]
    BY FieldsAre
  <2>2. Starts[1] = 0 /\ Starts[2] = 4
    BY DEF Starts
  <2>3. \A m \in 1 .. 1 : m = 1
    OBVIOUS
  <2>4. \A k : (k - 0) + 1 = k + 1 \/ k \notin Int
    OBVIOUS
  <2> QED BY <2>1, <2>2, <2>3, <2>4 DEF Joined
<1>. DEFINE h2 == Fields[1] \o Fields[2]
            h3 == h2 \o Fields[3]
            h4 == h3 \o Fields[4]
            h5 == h4 \o Fields[5]
            h6 == h5 \o Fields[6]
            h7 == h6 \o Fields[7]
            h8 == h7 \o Fields[8]
            h9 == h8 \o Fields[9]
            h10 == h9 \o Fields[10]
            h11 == h10 \o Fields[11]
            h12 == h11 \o Fields[12]
            h13 == h12 \o Fields[13]
<1>2. \A h : \A n \in 1 .. 12 : Joined(h, n) => Joined(h \o Fields[n + 1], n + 1)
  BY JoinStep
<1>3. \A h : /\ Joined(h, 1) => Joined(h \o Fields[2], 2)
             /\ Joined(h, 2) => Joined(h \o Fields[3], 3)
             /\ Joined(h, 3) => Joined(h \o Fields[4], 4)
             /\ Joined(h, 4) => Joined(h \o Fields[5], 5)
             /\ Joined(h, 5) => Joined(h \o Fields[6], 6)
             /\ Joined(h, 6) => Joined(h \o Fields[7], 7)
             /\ Joined(h, 7) => Joined(h \o Fields[8], 8)
             /\ Joined(h, 8) => Joined(h \o Fields[9], 9)
             /\ Joined(h, 9) => Joined(h \o Fields[10], 10)
             /\ Joined(h, 10) => Joined(h \o Fields[11], 11)
             /\ Joined(h, 11) => Joined(h \o Fields[12], 12)
             /\ Joined(h, 12) => Joined(h \o Fields[13], 13)
  <2>1. /\ 1 \in 1 .. 12 /\ 2 \in 1 .. 12 /\ 3 \in 1 .. 12 /\ 4 \in 1 .. 12 /\ 5 \in 1 .. 12
        /\ 6 \in 1 .. 12 /\ 7 \in 1 .. 12 /\ 8 \in 1 .. 12 /\ 9 \in 1 .. 12 /\ 10 \in 1 .. 12
        /\ 11 \in 1 .. 12 /\ 12 \in 1 .. 12
        /\ 1 + 1 = 2 /\ 2 + 1 = 3 /\ 3 + 1 = 4 /\ 4 + 1 = 5 /\ 5 + 1 = 6 /\ 6 + 1 = 7
        /\ 7 + 1 = 8 /\ 8 + 1 = 9 /\ 9 + 1 = 10 /\ 10 + 1 = 11 /\ 11 + 1 = 12 /\ 12 + 1 = 13
    OBVIOUS
  <2> QED BY <1>2, <2>1
<1>4. Joined(h13, 13)
  BY Zenon, <1>1, <1>3
<1>5. HeaderWanted = h13
  BY DEF HeaderWanted, Fields
<1> QED BY Zenon, <1>4, <1>5

LittleEndianAs(n, size) ==
    /\ LittleEndian(n, size) \in Seq(Byte) /\ Len(LittleEndian(n, size)) = size
    /\ (\A k \in 1 .. size : LittleEndian(n, size)[k] =
           (IF k > 4 THEN 0 ELSE (n \div 256 ^ (k - 1)) % 256))

LEMMA LittleEndianGiven ==
    ASSUME NEW n \in Int, NEW size \in Nat
    PROVE  LittleEndianAs(n, size)
<1>1. /\ LittleEndian(n, size) \in Seq(Byte) /\ Len(LittleEndian(n, size)) = size
  BY LittleEndianIs
<1>2. (\A k \in 1 .. size : LittleEndian(n, size)[k] =
           (IF k > 4 THEN 0 ELSE (n \div 256 ^ (k - 1)) % 256))
  BY Zenon DEF LittleEndian
<1> QED BY Zenon, <1>1, <1>2 DEF LittleEndianAs

\* Store j begins with field j, where field j begins, and only a long of eight
\* bytes is longer than the field.
LEMMA StoresCover ==
    ASSUME WavOutInv, NEW j \in 1 .. 13
    PROVE  /\ Stores[j][1] = Starts[j]
           /\ Stores[j][2] \in Seq(Byte) /\ Len(Stores[j][2]) \in Nat
           /\ Len(Stores[j][2]) >= Starts[j + 1] - Starts[j]
           /\ longSize # 8 => Len(Stores[j][2]) <= 4
           /\ \A k \in 1 .. Starts[j + 1] - Starts[j] : Stores[j][2][k] = Fields[j][k]
<1>1. /\ Stores[1] = <<0, RIFF>> /\ Stores[2] = <<4, Long(outSamples * 2 + 36)>>
      /\ Stores[3] = <<8, WAVE>> /\ Stores[4] = <<12, fmt>>
      /\ Stores[5] = <<16, Long(16)>> /\ Stores[6] = <<20, Short(1)>>
      /\ Stores[7] = <<22, Short(1)>> /\ Stores[8] = <<24, Long(fs)>>
      /\ Stores[9] = <<28, Long((fs * nbit) \div 8)>> /\ Stores[10] = <<32, Short(nbit \div 8)>>
      /\ Stores[11] = <<34, Short(nbit)>> /\ Stores[12] = <<36, Data>>
      /\ Stores[13] = <<40, Long(outSamples * 2)>>
  BY DEF Stores
<1>2. /\ Fields[1] = RIFF /\ Fields[2] = LittleEndian(36 + 2 * outSamples, 4)
      /\ Fields[3] = WAVE /\ Fields[4] = fmt /\ Fields[5] = LittleEndian(16, 4)
      /\ Fields[6] = Short(1) /\ Fields[7] = Short(1) /\ Fields[8] = LittleEndian(fs, 4)
      /\ Fields[9] = LittleEndian((fs * nbit) \div 8, 4)
      /\ Fields[10] = Short(nbit \div 8) /\ Fields[11] = Short(nbit)
      /\ Fields[12] = Data /\ Fields[13] = LittleEndian(2 * outSamples, 4)
  BY DEF Fields
<1>3. /\ 36 + 2 * outSamples \in Int /\ 2 * outSamples \in Int /\ fs \in Int
      /\ (fs * nbit) \div 8 \in Int
      /\ outSamples * 2 = 2 * outSamples /\ outSamples * 2 + 36 = 36 + 2 * outSamples
  <2>1. outSamples \in Nat /\ fs \in Nat /\ nbit \in Nat
    <3>1. fs \in Nat /\ nbit \in 0 .. 255
      BY Zenon, RateAssumption DEF WavOutInv
    <3> QED BY <3>1, SignalIs
  <2>2. fs * nbit \in Nat
    BY <2>1
  <2> QED BY <2>1, <2>2
<1>4. /\ Starts[1] = 0 /\ Starts[2] = 4 /\ Starts[3] = 8 /\ Starts[4] = 12 /\ Starts[5] = 16
      /\ Starts[6] = 20 /\ Starts[7] = 22 /\ Starts[8] = 24 /\ Starts[9] = 28
      /\ Starts[10] = 32 /\ Starts[11] = 34 /\ Starts[12] = 36 /\ Starts[13] = 40
      /\ Starts[14] = 44
  BY DEF Starts
<1>5. Stores[j][1] = Starts[j]
  BY <1>1, <1>4
<1>6. /\ Fields[j] \in Seq(Byte) /\ Len(Fields[j]) = Starts[j + 1] - Starts[j]
      /\ Len(Fields[j]) \in Nat /\ Len(Fields[j]) <= 4
  <2>1. Fields[j] \in Seq(Byte) /\ Len(Fields[j]) = Starts[j + 1] - Starts[j]
    BY FieldsAre
  <2>2. Starts[j + 1] - Starts[j] \in 0 .. 4
    BY <1>4
  <2> QED BY <2>1, <2>2
<1>7. CASE j \in {1, 3, 4, 6, 7, 10, 11, 12}
  <2>1. Stores[j][2] = Fields[j]
    BY <1>1, <1>2, <1>7
  <2> QED BY <1>5, <1>6, <2>1
<1>8. CASE j \in {2, 5, 8, 9, 13}
  <2>1. PICK n \in Int : Stores[j][2] = Long(n) /\ Fields[j] = LittleEndian(n, 4)
    <3>1. 16 \in Int
      OBVIOUS
    <3> QED BY <1>1, <1>2, <1>3, <1>8, <3>1
  <2>2. PICK s \in Nat, c \in Nat : s = longSize /\ c = 4 /\ s >= 4 /\ (s # 8 => s = 4)
    <3>1. longSize = 4 \/ longSize = 8
      BY Zenon, LongAssumption DEF WavOutInv
    <3> QED BY <3>1
  <2>3. LittleEndianAs(n, s) /\ LittleEndianAs(n, c)
    BY Zenon, LittleEndianGiven
  <2>4. /\ Stores[j][2] = LittleEndian(n, s) /\ Fields[j] = LittleEndian(n, c)
        /\ Stores[j][2] \in Seq(Byte) /\ Len(Stores[j][2]) = s /\ Len(Fields[j]) = c
    BY Zenon, <2>1, <2>2, <2>3 DEF Long, LittleEndianAs
  <2>5. Starts[j + 1] - Starts[j] = c
    BY Zenon, <1>6, <2>4
  <2>6. \A k \in 1 .. c : Stores[j][2][k] = Fields[j][k]
    <3>1. \A k \in 1 .. c : k \in 1 .. s
      BY <2>2
    <3>2. ASSUME NEW k \in 1 .. c PROVE LittleEndian(n, s)[k] = LittleEndian(n, c)[k]
      <4>1. PICK b : b = IF k > 4 THEN 0 ELSE (n \div 256 ^ (k - 1)) % 256
        OBVIOUS
      <4>2. k \in 1 .. s
        BY Zenon, <3>1
      <4>3. LittleEndian(n, s)[k] = b
        BY Zenon, <2>3, <4>1, <4>2 DEF LittleEndianAs
      <4>4. LittleEndian(n, c)[k] = b
        BY Zenon, <2>3, <4>1 DEF LittleEndianAs
      <4> QED BY Zenon, <4>3, <4>4
    <3> QED BY Zenon, <2>4, <3>2
  <2>7. s >= c /\ (s # 8 => s <= 4)
    BY <2>2
  <2> QED BY Zenon, <1>5, <2>2, <2>4, <2>5, <2>6, <2>7
<1> QED BY <1>7, <1>8

\* Below the place of the next store the header is what it will be, and behind
\* it nothing is touched unless a long has eight bytes.
HeaderRight(n) == \A k \in 0 .. n - 1 : header[k] = HeaderWanted[k + 1]
StoresInv ==
    /\ \A k \in 44 .. 47 : header[k] # 1 => longSize = 8
    /\ wavOutPc = "header" => wavOutI \in 1 .. 14 /\ HeaderRight(Starts[wavOutI])
    /\ wavOutPc = "written" => HeaderRight(44)

LEMMA StoresStart == WavOutInit => StoresInv
<1>1. ASSUME WavOutInit PROVE StoresInv
  <2>1. \A k \in 44 .. 47 : header[k] = 1
    <3>1. \A k \in 44 .. 47 : k \in 0 .. 47
      OBVIOUS
    <3> QED BY <1>1, <3>1 DEF WavOutInit
  <2>2. wavOutPc = "max"
    BY <1>1 DEF WavOutInit
  <2> QED BY <2>1, <2>2 DEF StoresInv
<1> QED BY <1>1

LEMMA StoreOne == WavOutInv /\ StoresInv /\ Store => StoresInv'
<1>. SUFFICES ASSUME WavOutInv, StoresInv, Store PROVE StoresInv'
  OBVIOUS
<1>1. /\ wavOutPc = "header" /\ wavOutPc' = "header" /\ wavOutI <= Len(Stores)
      /\ wavOutI' = wavOutI + 1 /\ longSize' = longSize
  BY DEF Store, note
<1>2. PICK j \in 1 .. 13 : j = wavOutI
  <2>1. Len(Stores) = 13
    BY Zenon, StoresAre
  <2>2. wavOutI \in Nat \ {0}
    BY Zenon DEF WavOutInv
  <2> QED BY <1>1, <2>1, <2>2
<1>3. PICK s \in Nat, e \in Nat : s = Starts[j] /\ e = Starts[j + 1] /\ s < e /\ e <= 44
  <2>1. j \in 1 .. 14 /\ j + 1 \in 1 .. 14
    OBVIOUS
  <2>2. Starts[j + 1] <= 44
    BY <2>1, StartsAre
  <2> QED BY Zenon, <2>1, <2>2, StartsAre
<1>4. PICK bytes \in Seq(Byte), len \in Nat :
        /\ bytes = Stores[j][2] /\ len = Len(bytes) /\ len >= e - s
        /\ longSize # 8 => len <= 4
        /\ \A k \in 1 .. e - s : bytes[k] = Fields[j][k]
  BY Zenon, <1>3, StoresCover
<1>5. header' = [k \in 0 .. 47 |->
          IF k \in s .. s + len - 1 THEN bytes[k - s + 1] ELSE header[k]]
  <2>1. Stores[j][1] = s
    BY Zenon, <1>3, StoresCover
  <2> QED BY Zenon, <1>2, <1>4, <2>1 DEF Store
<1>6. HeaderWanted' = HeaderWanted
  BY DEF Store, note, HeaderWanted, outSamples, Short
<1>7. ASSUME NEW k \in 0 .. e - 1 PROVE header'[k] = HeaderWanted[k + 1]
  <2>1. k \in 0 .. 47
    BY <1>3
  <2>2. CASE k < s
    <3>1. k \in 0 .. s - 1 /\ ~(k \in s .. s + len - 1)
      BY <2>2
    <3>2. header[k] = HeaderWanted[k + 1]
      BY Zenon, <1>1, <1>2, <1>3, <3>1 DEF StoresInv, HeaderRight
    <3> QED BY Zenon, <1>5, <2>1, <3>1, <3>2
  <2>3. CASE ~(k < s)
    <3>1. k \in s .. e - 1 /\ k \in s .. s + len - 1
      BY <1>4, <2>3
    <3>2. (k - s) + 1 \in 1 .. e - s
      BY Zenon, <3>1, PlaceInField
    <3>3. header'[k] = bytes[(k - s) + 1]
      BY Zenon, <1>5, <2>1, <3>1
    <3>4. HeaderWanted[k + 1] = Fields[j][(k - s) + 1]
      BY Zenon, <1>3, <3>1, WantedIs DEF Joined
    <3> QED BY Zenon, <1>4, <3>2, <3>3, <3>4
  <2> QED BY <2>2, <2>3
<1>8. HeaderRight(Starts[wavOutI])'
  <2>1. Starts[wavOutI'] = e
    BY Zenon, <1>1, <1>2, <1>3
  <2>2. Starts[wavOutI]' = e
    BY <2>1 DEF Starts
  <2>3. \A k \in 0 .. e - 1 : header'[k] = HeaderWanted'[k + 1]
    BY Zenon, <1>6, <1>7
  <2> QED BY Zenon, <2>2, <2>3 DEF HeaderRight
<1>9. ASSUME NEW k \in 44 .. 47, header'[k] # 1 PROVE longSize' = 8
  <2>1. k \in 0 .. 47
    OBVIOUS
  <2>2. CASE k \in s .. s + len - 1
    <3>1. s <= 40
      <4>1. j \in 1 .. 13 /\ 13 \in 1 .. 14 /\ j \in 1 .. 13
        OBVIOUS
      <4>2. Starts[j] <= Starts[13] /\ Starts[13] = 40
        BY <4>1, StartsAre DEF Starts
      <4> QED BY Zenon, <1>3, <4>2
    <3>2. ~(len <= 4)
      BY <2>2, <3>1
    <3> QED BY <1>1, <1>4, <3>2
  <2>3. CASE ~(k \in s .. s + len - 1)
    <3>1. header[k] # 1
      BY Zenon, <1>5, <1>9, <2>1, <2>3
    <3> QED BY Zenon, <1>1, <3>1 DEF StoresInv
  <2> QED BY <2>2, <2>3
<1>10. wavOutI' \in 1 .. 14
  BY <1>1, <1>2
<1> QED BY <1>1, <1>8, <1>9, <1>10 DEF StoresInv

LEMMA StoresStep == WavOutInv /\ StoresInv /\ [Step]_wavOutVars => StoresInv'
<1>. SUFFICES ASSUME WavOutInv, StoresInv, [Step]_wavOutVars PROVE StoresInv'
  OBVIOUS
<1>1. ASSUME UNCHANGED <<header, y, fs, nbit, longSize>>
      PROVE  \A n : HeaderRight(n)' = HeaderRight(n)
  <2>1. HeaderWanted' = HeaderWanted
    BY <1>1 DEF HeaderWanted, outSamples, Short
  <2> QED BY <1>1, <2>1 DEF HeaderRight
<1>2. CASE MaxAmp \/ EndMax \/ WriteSample
  <2>1. /\ UNCHANGED <<header, longSize>>
        /\ wavOutPc' \in {"max", "output"}
    BY <1>2 DEF MaxAmp, EndMax, WriteSample, note
  <2> QED BY <2>1 DEF StoresInv
<1>3. CASE EndOutput
  <2>1. UNCHANGED <<header, longSize>> /\ wavOutPc' = "header" /\ wavOutI' = 1
    BY <1>3 DEF EndOutput, note
  <2>2. Starts[1] = 0
    BY DEF Starts
  <2>3. HeaderRight(Starts[wavOutI])'
    <3>1. \A k : k \notin 0 .. 0 - 1
      OBVIOUS
    <3>2. Starts[wavOutI]' = 0
      BY <2>1, <2>2 DEF Starts
    <3> QED BY Zenon, <3>1, <3>2 DEF HeaderRight
  <2>4. wavOutI' \in 1 .. 14
    BY <2>1
  <2> QED BY Zenon, <2>1, <2>3, <2>4 DEF StoresInv
<1>4. CASE Write
  <2>1. /\ UNCHANGED <<header, y, fs, nbit, longSize>> /\ wavOutPc' \in {"written", "died"}
        /\ wavOutPc = "header" /\ wavOutI > Len(Stores)
    BY <1>4 DEF Write, note
  <2>2. wavOutI = 14
    <3>1. Len(Stores) = 13
      BY Zenon, StoresAre
    <3>2. wavOutI \in 1 .. 14
      BY <2>1 DEF StoresInv
    <3> QED BY <2>1, <3>1, <3>2
  <2>3. HeaderRight(44)
    <3>1. Starts[14] = 44
      BY DEF Starts
    <3> QED BY Zenon, <2>1, <2>2, <3>1 DEF StoresInv
  <2>4. HeaderRight(44)'
    BY Zenon, <1>1, <2>1, <2>3
  <2>5. wavOutPc' # "header"
    BY <2>1
  <2> QED BY Zenon, <2>1, <2>4, <2>5 DEF StoresInv
<1>5. CASE UNCHANGED wavOutVars
  <2>1. UNCHANGED <<header, y, fs, nbit, longSize, wavOutPc, wavOutI>>
    BY <1>5 DEF wavOutVars, note
  <2>2. \A n : HeaderRight(n)' = HeaderRight(n)
    BY <1>1, <2>1
  <2>3. Starts[wavOutI]' = Starts[wavOutI]
    BY <2>1 DEF Starts
  <2>4. (wavOutPc = "header" => wavOutI \in 1 .. 14 /\ HeaderRight(Starts[wavOutI]))'
    BY Zenon, <2>1, <2>2, <2>3 DEF StoresInv, HeaderRight
  <2>5. (wavOutPc = "written" => HeaderRight(44))'
    BY Zenon, <2>1, <2>2 DEF StoresInv
  <2> QED BY Zenon, <2>1, <2>4, <2>5 DEF StoresInv
<1> QED BY <1>2, <1>3, <1>4, <1>5, StoreOne DEF Step

LEMMA HeaderIsWell == StoresInv => HeaderWell
<1>1. \A k \in 0 .. 43 : k \in 0 .. 44 - 1
  OBVIOUS
<1> QED BY <1>1 DEF StoresInv, HeaderRight, HeaderWell

-----------------------------------------------------------------------------
(* A note that is read back *)

\* What is opened is the note, or its first bytes: its fields, and after them
\* its samples, as far as the file goes.
NoteBytes ==
    /\ Len(fp.data) <= 44 + 2 * outSamples
    /\ (\A m \in 1 .. 13 : \A k \in 1 .. Starts[m + 1] - Starts[m] :
           Starts[m] + k <= Len(fp.data) => fp.data[Starts[m] + k] = Fields[m][k])
    /\ (\A k \in 1 .. outSamples :
           44 + 2 * k <= Len(fp.data) =>
              /\ fp.data[44 + (2 * k - 1)] = Short(output[k])[1]
              /\ fp.data[44 + 2 * k] = Short(output[k])[2])

FileHolds ==
    /\ Len(File) = 44 + 2 * outSamples
    /\ (\A k \in 1 .. 44 : File[k] = header[k - 1])
    /\ (\A k \in 1 .. outSamples : File[44 + (2 * k - 1)] = Short(output[k])[1]
                                   /\ File[44 + 2 * k] = Short(output[k])[2])

LEMMA FileParts == WavOutInv /\ wavOutPc = "written" => FileHolds
<1>. SUFFICES ASSUME WavOutInv, wavOutPc = "written" PROVE FileHolds
  OBVIOUS
<1> DEFINE S == [k \in 1 .. 2 * Len(output) |->
                    Short(output[(k + 1) \div 2])[IF k % 2 = 1 THEN 1 ELSE 2]]
           H == [k \in 1 .. 44 |-> header[k - 1]]
<1>1. PICK n \in Nat : n = outSamples /\ n = Len(output)
  BY SignalIs DEF WavOutInv
<1>2. H \in Seq(Byte) /\ Len(H) = 44 /\ \A k \in 1 .. 44 : H[k] = header[k - 1]
  <2>1. \A j \in 0 .. 47 : header[j] \in Byte
    BY Zenon DEF WavOutInv
  <2>2. \A k \in 1 .. 44 : header[k - 1] \in Byte
    BY <2>1
  <2> QED BY <2>2
<1>3. /\ S \in Seq(Byte) /\ Len(S) = 2 * n
      /\ \A k \in 1 .. 2 * n : S[k] = Short(output[(k + 1) \div 2])[IF k % 2 = 1 THEN 1 ELSE 2]
  <2>2. ASSUME NEW k \in 1 .. 2 * n
        PROVE  Short(output[(k + 1) \div 2])[IF k % 2 = 1 THEN 1 ELSE 2] \in Byte
    <3>1. PICK j \in 1 .. n : j = (k + 1) \div 2
      OBVIOUS
    <3>2. output[j] \in Int
      <4>1. output[j] \in Shorts
        BY <1>1, ElementOfSeq DEF WavOutInv
      <4> QED BY <4>1, ShortsAre
    <3>3. Short(output[j]) \in Seq(Byte) /\ Len(Short(output[j])) = 2
      BY <3>2, ShortIs
    <3>4. PICK e \in 1 .. 2 : e = IF k % 2 = 1 THEN 1 ELSE 2
      OBVIOUS
    <3>5. Short(output[j])[e] \in Byte
      BY <3>3, ElementOfSeq
    <3> QED BY Zenon, <3>1, <3>4, <3>5
  <2>3. S = [k \in 1 .. 2 * n |-> Short(output[(k + 1) \div 2])[IF k % 2 = 1 THEN 1 ELSE 2]]
    BY <1>1
  <2>4. S \in [1 .. 2 * n -> Byte]
    BY Zenon, <2>2, <2>3
  <2>5. S \in Seq(Byte) /\ Len(S) = 2 * n
    BY <2>4
  <2>6. \A k \in 1 .. 2 * n : S[k] = Short(output[(k + 1) \div 2])[IF k % 2 = 1 THEN 1 ELSE 2]
    BY Zenon, <2>3
  <2> QED BY <2>5, <2>6
<1>4. File = H \o S
  BY DEF File
<1> HIDE DEF S, H
<1>5. /\ Len(File) = 44 + 2 * n
      /\ \A k \in 1 .. 44 + 2 * n : File[k] = IF k <= 44 THEN H[k] ELSE S[k - 44]
  <2>1. ASSUME NEW h \in Seq(Byte), NEW f \in Seq(Byte), Len(h) = 44, Len(f) = 2 * n
        PROVE  /\ Len(h \o f) = 44 + 2 * n
               /\ \A k \in 1 .. 44 + 2 * n : (h \o f)[k] = IF k <= 44 THEN h[k] ELSE f[k - 44]
    <3>1. /\ Len(h \o f) = Len(h) + Len(f)
          /\ \A k \in 1 .. Len(h) + Len(f) :
                (h \o f)[k] = IF k <= Len(h) THEN h[k] ELSE f[k - Len(h)]
      BY ConcatProperties
    <3> QED BY <2>1, <3>1
  <2> QED BY Zenon, <1>2, <1>3, <1>4, <2>1
<1>6. \A k \in 1 .. 44 : File[k] = header[k - 1]
  <2>1. ASSUME NEW k \in 1 .. 44 PROVE File[k] = header[k - 1]
    <3>1. k \in 1 .. 44 + 2 * n /\ k <= 44
      OBVIOUS
    <3>2. File[k] = H[k]
      BY <1>5, <3>1
    <3> QED BY Zenon, <1>2, <3>2
  <2> QED BY Zenon, <2>1
<1>7. ASSUME NEW k \in 1 .. n
      PROVE  File[44 + (2 * k - 1)] = Short(output[k])[1] /\ File[44 + 2 * k] = Short(output[k])[2]
  <2>1. PICK a \in 1 .. 2 * n, b \in 1 .. 2 * n :
           /\ a = 2 * k - 1 /\ (a + 1) \div 2 = k /\ a % 2 = 1
           /\ b = 2 * k /\ (b + 1) \div 2 = k /\ b % 2 # 1
    <3>1. 2 * k - 1 \in 1 .. 2 * n /\ 2 * k \in 1 .. 2 * n
      OBVIOUS
    <3>2. ((2 * k - 1) + 1) \div 2 = k /\ (2 * k - 1) % 2 = 1
      OBVIOUS
    <3>3. (2 * k + 1) \div 2 = k /\ (2 * k) % 2 # 1
      OBVIOUS
    <3> QED BY Zenon, <3>1, <3>2, <3>3
  <2>2. S[a] = Short(output[k])[1] /\ S[b] = Short(output[k])[2]
    BY Zenon, <1>3, <2>1
  <2>3. \A x \in 1 .. 2 * n : File[44 + x] = S[x]
    <3>1. ASSUME NEW x \in 1 .. 2 * n
          PROVE  44 + x \in 1 .. 44 + 2 * n /\ ~(44 + x <= 44) /\ (44 + x) - 44 = x
      OBVIOUS
    <3> QED BY <1>5, <3>1
  <2>4. File[44 + a] = Short(output[k])[1] /\ File[44 + b] = Short(output[k])[2]
    BY Zenon, <2>2, <2>3
  <2> QED BY Zenon, <2>1, <2>4
<1> QED BY <1>1, <1>5, <1>6, <1>7 DEF FileHolds

Placed(s, e, n, k) ==
    /\ s + k \in 1 .. 44 /\ (s + k) - 1 \in 0 .. 43 /\ (s + k) - 1 \in s .. e - 1
    /\ ((s + k) - 1) + 1 = s + k /\ (((s + k) - 1) - s) + 1 = k /\ s + k \in 1 .. n

LEMMA PlaceOf ==
    \A s, e \in 0 .. 44 : \A n \in Nat : \A k \in 1 .. e - s :
        s + k <= n => Placed(s, e, n, k)
BY DEF Placed

LEMMA OpenedNote ==
    WavOutInv /\ StoresInv /\ OpenNote => NoteBytes' /\ fp'.cur = 0 /\ UNCHANGED wavOutVars
<1>. SUFFICES ASSUME WavOutInv, StoresInv, OpenNote
              PROVE  NoteBytes' /\ fp'.cur = 0 /\ UNCHANGED wavOutVars
  OBVIOUS
<1>1. wavOutPc = "written" /\ UNCHANGED wavOutVars
  BY DEF OpenNote
<1>2. FileHolds
  BY <1>1, FileParts
<1>3. PICK n \in 0 .. Len(File) : fp' = Reader!OpenMemFile(SubSeq(File, 1, n))
  BY DEF OpenNote
<1>4. PICK N \in Nat : N = outSamples /\ Len(File) = 44 + 2 * N
  BY <1>2, SignalIs DEF FileHolds
<1>5. /\ fp'.cur = 0 /\ Len(fp'.data) = n /\ n \in Nat /\ n <= 44 + 2 * N
      /\ \A k \in 1 .. n : fp'.data[k] = File[k]
  <2>1. File \in Seq(Byte)
    BY FileIsBytes
  <2>2. fp'.data = SubSeq(File, 1, n) /\ fp'.cur = 0
    BY <1>3 DEF Reader!OpenMemFile
  <2>3. n \in Nat /\ n <= Len(File)
    BY <1>4
  <2>4. Len(SubSeq(File, 1, n)) = n /\ \A k \in 1 .. n : SubSeq(File, 1, n)[k] = File[k]
    BY <2>1, <2>3
  <2> QED BY <1>4, <2>2, <2>3, <2>4
<1>6. /\ outSamples' = outSamples /\ output' = output /\ Fields' = Fields
      /\ \A x : Short(x)' = Short(x)
  BY <1>1 DEF wavOutVars, note, outSamples, Fields, LittleEndian, Short
<1>7. ASSUME NEW m \in 1 .. 13, NEW k \in 1 .. Starts[m + 1] - Starts[m], Starts[m] + k <= n
      PROVE  fp'.data[Starts[m] + k] = Fields[m][k]
  <2>1. PICK s \in 0 .. 44, e \in 0 .. 44 : s = Starts[m] /\ e = Starts[m + 1] /\ s < e
    <3>1. m \in 1 .. 14 /\ m + 1 \in 1 .. 14
      OBVIOUS
    <3>2. Starts[m] \in 0 .. 44 /\ Starts[m + 1] \in 0 .. 44 /\ Starts[m] < Starts[m + 1]
      BY Zenon, <3>1, StartsAre
    <3> QED BY Zenon, <3>2
  <2>2. PICK p \in 1 .. 44 : p = s + k /\ p - 1 \in 0 .. 43 /\ p - 1 \in s .. e - 1
                             /\ (p - 1) + 1 = p /\ ((p - 1) - s) + 1 = k /\ p \in 1 .. n
    <3>1. /\ s + k \in 1 .. 44 /\ (s + k) - 1 \in 0 .. 43 /\ (s + k) - 1 \in s .. e - 1
          /\ ((s + k) - 1) + 1 = s + k /\ (((s + k) - 1) - s) + 1 = k /\ s + k \in 1 .. n
      <4>1. k \in 1 .. e - s /\ s + k <= n
        BY Zenon, <1>7, <2>1
      <4>2. n \in Nat
        BY <1>5
      <4>3. Placed(s, e, n, k)
        BY Zenon, <2>1, <4>1, <4>2, PlaceOf
      <4> QED BY Zenon, <4>3 DEF Placed
    <3> QED BY Zenon, <3>1
  <2>3. fp'.data[p] = header[p - 1]
    BY <1>2, <1>5, <2>2 DEF FileHolds
  <2>4. header[p - 1] = HeaderWanted[p]
    <3>1. HeaderRight(44) /\ 44 - 1 = 43
      BY <1>1 DEF StoresInv
    <3>2. p - 1 \in 0 .. 44 - 1
      BY <2>2
    <3>3. header[p - 1] = HeaderWanted[(p - 1) + 1]
      BY Zenon, <3>1, <3>2 DEF HeaderRight
    <3> QED BY Zenon, <2>2, <3>3
  <2>5. HeaderWanted[p] = Fields[m][k]
    <3>1. Joined(HeaderWanted, 13)
      BY WantedIs
    <3>2. HeaderWanted[(p - 1) + 1] = Fields[m][((p - 1) - s) + 1]
      BY Zenon, <2>1, <2>2, <3>1 DEF Joined
    <3> QED BY Zenon, <2>2, <3>2
  <2> QED BY Zenon, <2>1, <2>2, <2>3, <2>4, <2>5
<1>8. ASSUME NEW k \in 1 .. N, 44 + 2 * k <= n
      PROVE  /\ fp'.data[44 + (2 * k - 1)] = Short(output[k])[1]
             /\ fp'.data[44 + 2 * k] = Short(output[k])[2]
  <2>1. 44 + (2 * k - 1) \in 1 .. n /\ 44 + 2 * k \in 1 .. n
    BY <1>5, <1>8
  <2> QED BY Zenon, <1>2, <1>4, <1>5, <2>1 DEF FileHolds
<1>9. NoteBytes'
  <2>1. Len(fp'.data) <= 44 + 2 * outSamples'
    BY <1>4, <1>5, <1>6
  <2>2. \A m \in 1 .. 13 : \A k \in 1 .. Starts[m + 1] - Starts[m] :
           Starts[m] + k <= Len(fp'.data) => fp'.data[Starts[m] + k] = Fields'[m][k]
    BY Zenon, <1>5, <1>6, <1>7
  <2>3. \A k \in 1 .. outSamples' :
           44 + 2 * k <= Len(fp'.data) =>
              /\ fp'.data[44 + (2 * k - 1)] = Short(output'[k])[1]
              /\ fp'.data[44 + 2 * k] = Short(output'[k])[2]
    BY Zenon, <1>4, <1>5, <1>6, <1>8
  <2>4. Starts' = Starts
    BY DEF Starts
  <2>5. \A m \in 1 .. 13 : \A k \in 1 .. Starts'[m + 1] - Starts'[m] :
           Starts'[m] + k <= Len(fp'.data) => fp'.data[Starts'[m] + k] = Fields'[m][k]
    BY Zenon, <2>2, <2>4
  <2>6. \A k \in 1 .. outSamples' :
           44 + 2 * k <= Len(fp'.data) =>
              /\ fp'.data[44 + (2 * k - 1)] = Short(output[k])'[1]
              /\ fp'.data[44 + 2 * k] = Short(output[k])'[2]
    BY <1>6, <2>3 DEF Short, LittleEndian
  <2> QED BY <2>1, <2>5, <2>6 DEF NoteBytes
<1> QED BY <1>1, <1>5, <1>9

LEMMA NoteBytesStay ==
    fp'.data = fp.data /\ UNCHANGED wavOutVars => (NoteBytes' <=> NoteBytes)
<1>. SUFFICES ASSUME fp'.data = fp.data, UNCHANGED wavOutVars PROVE NoteBytes' <=> NoteBytes
  OBVIOUS
<1>1. /\ outSamples' = outSamples /\ output' = output /\ Fields' = Fields /\ Starts' = Starts
  BY DEF wavOutVars, note, outSamples, Fields, LittleEndian, Short, Starts
<1>2. \A k : Short(output[k])' = Short(output[k])
  BY <1>1 DEF Short, LittleEndian
<1> QED BY <1>1, <1>2 DEF NoteBytes

\* The state of the reader of a note.
AllThere == Len(fp.data) >= 44 + 2 * outSamples
NoteInv == rpc # "idle" =>
    /\ wavOutPc = "written" /\ NoteBytes
    /\ rpc = "header" /\ Len(fp.data) >= 24 => fp.cur = Place(checked)
    /\ rpc = "data" /\ Len(fp.data) >= 36 => fp.cur = 36
    /\ rpc \notin {"header", "refused"} /\ Len(fp.data) >= 36 => rfs = fs /\ rNbit = nbit
    /\ rpc \in {"malloc", "samples", "done"} /\ Len(fp.data) >= 44 =>
          waveLength = (2 * outSamples) \div (nbit \div 8)
    /\ rpc = "done" => Len(waveForm) >= waveLength
    /\ rpc \in {"refused", "died", "overrun"} => ~AllThere

\* A note short enough for the ints of its header and for malloc, of which the
\* samples have between one and four bytes.
NoteArguments ==
    /\ \A r \in Rates : r < 128 * (256 * (256 * 256))
    /\ Bits \subseteq 8 .. 39
    /\ (\A s \in Signals :
           /\ 2 * Len(s) < 128 * (256 * (256 * 256))
           /\ \A b \in Bits : (2 * Len(s)) \div (b \div 8) <= MaxLength)

\* What the fields have that the reader wants.
LEMMA FieldsWanted ==
    ASSUME WavOutInv
    PROVE  /\ \A k \in 1 .. 4 : Fields[1][k] = Reader!RIFF[k] /\ Fields[3][k] = Reader!WAVE[k]
              /\ Fields[4][k] = Reader!fmt[k] /\ Fields[12][k] = Reader!Data[k]
              /\ Fields[5][k] = <<16, 0, 0, 0>>[k]
           /\ \A k \in 1 .. 2 : Fields[6][k] = <<1, 0>>[k] /\ Fields[7][k] = <<1, 0>>[k]
<1>1. /\ Fields[1] = RIFF /\ Fields[3] = WAVE /\ Fields[4] = fmt
      /\ Fields[5] = LittleEndian(16, 4) /\ Fields[6] = Short(1) /\ Fields[7] = Short(1)
      /\ Fields[12] = Data
  BY DEF Fields
<1>2. RIFF = Reader!RIFF /\ WAVE = Reader!WAVE /\ fmt = Reader!fmt /\ Data = Reader!Data
  BY DEF RIFF, WAVE, fmt, Data, Reader!RIFF, Reader!WAVE, Reader!fmt, Reader!Data
<1>3. /\ 256 ^ 0 = 1 /\ 256 ^ 1 = 256 /\ 256 ^ 2 = 256 * 256 /\ 256 ^ 3 = 256 * (256 * 256)
  BY SMT
<1>4. \A k \in 1 .. 4 : LittleEndian(16, 4)[k] = <<16, 0, 0, 0>>[k]
  <2>1. \A k \in 1 .. 4 : LittleEndian(16, 4)[k] = (16 \div 256 ^ (k - 1)) % 256
    BY DEF LittleEndian
  <2>2. /\ (16 \div 256 ^ 0) % 256 = 16 /\ (16 \div 256 ^ 1) % 256 = 0
        /\ (16 \div 256 ^ 2) % 256 = 0 /\ (16 \div 256 ^ 3) % 256 = 0
    BY SMT
  <2> QED BY <2>1, <2>2
<1>5. \A k \in 1 .. 2 : Short(1)[k] = <<1, 0>>[k]
  <2>1. \A k \in 1 .. 2 : Short(1)[k] = ((1 % 65536) \div 256 ^ (k - 1)) % 256
    BY DEF LittleEndian, Short
  <2>2. ((1 % 65536) \div 256 ^ 0) % 256 = 1 /\ ((1 % 65536) \div 256 ^ 1) % 256 = 0
    BY SMT
  <2> QED BY <2>1, <2>2
<1> QED BY <1>1, <1>2, <1>4, <1>5

\* A read that stays within the file.
LEMMA ReadWhole ==
    ASSUME NEW f, FileIs(f), NEW b \in Reader!Buffer, NEW n \in 1 .. 4,
           f.cur + n <= Len(f.data)
    PROVE  /\ Reader!Advance(n, f).cur = f.cur + n
           /\ (\A k \in 0 .. n - 1 : Reader!ReadInto(b, n, f)[k] = f.data[f.cur + k + 1])
<1>1. PICK c \in Nat, l \in Nat : c = f.cur /\ l = Len(f.data) /\ c <= l /\ c + n <= l /\ n \in Nat
  BY DEF FileIs
<1>2. Reader!Advance(n, f).cur = Least(c + n, l)
  BY <1>1, ReadIs
<1>3. \A k \in 0 .. 3 : Reader!ReadInto(b, n, f)[k] =
               (IF k < n /\ f.cur + k < Len(f.data) THEN f.data[f.cur + k + 1] ELSE b[k])
  BY <1>1, ReadBytes
<1>4. ASSUME NEW k \in 0 .. n - 1 PROVE Reader!ReadInto(b, n, f)[k] = f.data[f.cur + k + 1]
  <2>1. k \in 0 .. 3 /\ k < n /\ c + k < l
    BY <1>1
  <2> QED BY <1>1, <1>3, <2>1
<1> QED BY <1>1, <1>2, <1>4 DEF Least

LEMMA TagPlace ==
    \A q \in 0 .. 22 : \A n \in 1 .. 4 : \A l \in Nat : \A k \in 1 .. n :
        q + n <= 24 /\ l >= 24 => k - 1 \in 0 .. n - 1 /\ q + (k - 1) + 1 = q + k /\ q + k <= l
OBVIOUS

LEMMA NoteTag ==
    ReaderInv /\ WavOutInv /\ NoteInv /\ Reader!CheckTag /\ UNCHANGED wavOutVars => NoteInv'
<1>. SUFFICES ASSUME ReaderInv, WavOutInv, NoteInv, Reader!CheckTag, UNCHANGED wavOutVars PROVE NoteInv'
  OBVIOUS
<1>1. PICK c \in 0 .. 5 : c = checked /\ rpc = "header"
  BY ChecksAre DEF ReaderInv, ReaderTypes, Reader!CheckTag
<1>2. PICK s, w : s = Reader!Checks[c + 1].skip /\ w = Reader!Checks[c + 1].want
  OBVIOUS
<1>3. PICK n \in 1 .. 4, p \in 0 .. 22, q \in 0 .. 22, m \in 1 .. 13 :
        /\ n = Len(w) /\ p = Place(c) /\ s \in Nat /\ q = p + s /\ q = Starts[m]
        /\ n = Starts[m + 1] - Starts[m] /\ Place(c + 1) = q + n /\ q + n <= 24
        /\ \A k \in 1 .. n : Fields[m][k] = w[k]
  <2>1. /\ Starts[1] = 0 /\ Starts[2] = 4 /\ Starts[3] = 8 /\ Starts[4] = 12 /\ Starts[5] = 16
        /\ Starts[6] = 20 /\ Starts[7] = 22 /\ Starts[8] = 24
    BY DEF Starts
  <2>2. /\ Place(0) = 0 /\ Place(1) = 4 /\ Place(2) = 12 /\ Place(3) = 16
        /\ Place(4) = 20 /\ Place(5) = 22 /\ Place(6) = 24
    BY DEF Place
  <2>3. CASE c = 0
    <3>1. s = 0 /\ w = Reader!RIFF /\ Len(w) = 4
      BY <1>2, <2>3, ChecksAre, TagsAre
    <3>2. \A k \in 1 .. 4 : Fields[1][k] = w[k]
      BY <3>1, FieldsWanted
    <3> QED BY <2>1, <2>2, <2>3, <3>1, <3>2
  <2>4. CASE c = 1
    <3>1. s = 4 /\ w = Reader!WAVE /\ Len(w) = 4
      BY <1>2, <2>4, ChecksAre, TagsAre
    <3>2. \A k \in 1 .. 4 : Fields[3][k] = w[k]
      BY <3>1, FieldsWanted
    <3> QED BY <2>1, <2>2, <2>4, <3>1, <3>2
  <2>5. CASE c = 2
    <3>1. s = 0 /\ w = Reader!fmt /\ Len(w) = 4
      BY <1>2, <2>5, ChecksAre, TagsAre
    <3>2. \A k \in 1 .. 4 : Fields[4][k] = w[k]
      BY <3>1, FieldsWanted
    <3> QED BY <2>1, <2>2, <2>5, <3>1, <3>2
  <2>6. CASE c = 3
    <3>1. s = 0 /\ w = <<16, 0, 0, 0>> /\ Len(w) = 4
      BY <1>2, <2>6, ChecksAre
    <3>2. \A k \in 1 .. 4 : Fields[5][k] = w[k]
      BY <3>1, FieldsWanted
    <3> QED BY <2>1, <2>2, <2>6, <3>1, <3>2
  <2>7. CASE c = 4
    <3>1. s = 0 /\ w = <<1, 0>> /\ Len(w) = 2
      BY <1>2, <2>7, ChecksAre
    <3>2. \A k \in 1 .. 2 : Fields[6][k] = w[k]
      BY <3>1, FieldsWanted
    <3> QED BY <2>1, <2>2, <2>7, <3>1, <3>2
  <2>8. CASE c = 5
    <3>1. s = 0 /\ w = <<1, 0>> /\ Len(w) = 2
      BY <1>2, <2>8, ChecksAre
    <3>2. \A k \in 1 .. 2 : Fields[7][k] = w[k]
      BY <3>1, FieldsWanted
    <3> QED BY <2>1, <2>2, <2>8, <3>1, <3>2
  <2>9. c = 0 \/ c = 1 \/ c = 2 \/ c = 3 \/ c = 4 \/ c = 5
    OBVIOUS
  <2> QED BY Zenon, <2>3, <2>4, <2>5, <2>6, <2>7, <2>8, <2>9
<1>4. PICK at : at = Reader!SeekMemFile(s, fp)
  OBVIOUS
<1>5. /\ FileIs(fp) /\ FileIs(at) /\ at.data = fp.data
      /\ at.cur = IF fp.cur + s <= Len(fp.data) THEN fp.cur + s ELSE fp.cur
  BY <1>3, <1>4, SeekIs DEF ReaderInv, ReaderTypes
<1>7. /\ dataCheck' = Reader!ReadInto(dataCheck, n, at) /\ fp' = Reader!Advance(n, at)
      /\ IF Reader!Holds(dataCheck', w)
         THEN checked' = c + 1 /\ rpc' = rpc
         ELSE rpc' = "refused" /\ checked' = checked
  BY <1>1, <1>2, <1>3, <1>4 DEF Reader!CheckTag
<1>8. fp'.data = fp.data
  <2>1. dataCheck \in Reader!Buffer /\ n \in Nat
    BY DEF ReaderInv, ReaderTypes
  <2> QED BY <1>5, <1>7, <2>1, ReadIs
<1>9. wavOutPc = "written" /\ NoteBytes /\ (Len(fp.data) >= 24 => fp.cur = p)
  BY <1>1, <1>3 DEF NoteInv
<1>10. NoteBytes' /\ wavOutPc' = "written" /\ outSamples' = outSamples
  BY <1>8, <1>9, NoteBytesStay DEF wavOutVars, note, outSamples
<1>11. ASSUME Len(fp.data) >= 24 PROVE Reader!Holds(dataCheck', w) /\ fp'.cur = q + n
  <2>1. PICK l \in Nat : l = Len(fp.data) /\ l >= 24
    BY <1>5, <1>11 DEF FileIs
  <2>2. at.cur = q /\ at.cur + n <= Len(at.data)
    <3>1. p + s = q /\ q + n <= 24 /\ p + s <= l /\ q + n <= l
      <4>1. q = p + s /\ q + n <= 24
        BY Zenon, <1>3
      <4>2. q <= l /\ q + n <= l
        BY <2>1, <4>1
      <4> QED BY Zenon, <4>1, <4>2
    <3>2. fp.cur = p
      BY <1>9, <1>11
    <3>3. at.cur = q
      BY Zenon, <1>5, <2>1, <3>1, <3>2
    <3> QED BY Zenon, <1>5, <2>1, <3>1, <3>3
  <2>3. dataCheck \in Reader!Buffer
    BY DEF ReaderInv, ReaderTypes
  <2>4. /\ Reader!Advance(n, at).cur = at.cur + n
        /\ (\A k \in 0 .. n - 1 : Reader!ReadInto(dataCheck, n, at)[k] = at.data[at.cur + k + 1])
    BY Zenon, <1>5, <2>2, <2>3, ReadWhole
  <2>5. ASSUME NEW k \in 1 .. Len(w) PROVE dataCheck'[k - 1] = w[k]
    <3>1. PICK j \in 0 .. n - 1 : j = k - 1 /\ q + j + 1 = q + k /\ q + k <= l
      <4>1. k \in 1 .. n /\ q + n <= 24 /\ l >= 24
        BY Zenon, <1>3, <2>1
      <4>2. k - 1 \in 0 .. n - 1 /\ q + (k - 1) + 1 = q + k /\ q + k <= l
        BY Zenon, <1>3, <2>1, <4>1, TagPlace
      <4> QED BY Zenon, <4>2
    <3>2. dataCheck'[j] = fp.data[q + k]
      BY <1>5, <1>7, <2>2, <2>4, <3>1
    <3>3. fp.data[q + k] = Fields[m][k]
      <4>1. k \in 1 .. Starts[m + 1] - Starts[m] /\ Starts[m] + k <= Len(fp.data)
        BY Zenon, <1>3, <2>1, <3>1
      <4> QED BY Zenon, <1>3, <1>9, <4>1 DEF NoteBytes
    <3>4. Fields[m][k] = w[k]
      BY Zenon, <1>3
    <3> QED BY Zenon, <3>1, <3>2, <3>3, <3>4
  <2>6. fp'.cur = q + n
    BY Zenon, <1>7, <2>2, <2>4
  <2> QED BY Zenon, <2>5, <2>6 DEF Reader!Holds
<1>12. CASE rpc' = "refused"
  <2>1. ~(Len(fp.data) >= 24)
    BY <1>1, <1>7, <1>11, <1>12
  <2>2. ~AllThere'
    <3>1. outSamples \in Nat /\ Len(fp.data) \in Nat
      BY <1>5, SignalIs DEF FileIs
    <3> QED BY <1>8, <1>10, <2>1, <3>1 DEF AllThere
  <2> QED BY <1>10, <1>12, <2>2 DEF NoteInv
<1>13. CASE rpc' = "header"
  <2>1. checked' = c + 1
    BY <1>7, <1>13
  <2> QED BY <1>3, <1>8, <1>10, <1>11, <1>13, <2>1 DEF NoteInv
<1> QED BY <1>1, <1>7, <1>12, <1>13

\* Four bytes, the lowest first, are the number they were made of.
Divided(n, n1, n2, n3) ==
    /\ n1 = n \div 256 /\ n2 = n \div (256 * 256) /\ n3 = n \div (256 * (256 * 256))
    /\ n = 256 * n1 + (n % 256) /\ n1 = 256 * n2 + (n1 % 256) /\ n2 = 256 * n3 + (n2 % 256)

LEMMA DivideTwice == \A n \in Nat : \E n1, n2, n3 \in Nat : Divided(n, n1, n2, n3)
<1>. SUFFICES ASSUME NEW n \in Nat
              PROVE  \E n1, n2, n3 \in Nat : Divided(n, n1, n2, n3)
  OBVIOUS
<1>1. PICK n1 \in Nat : n1 = n \div 256 /\ n = 256 * n1 + (n % 256)
  BY SMT
<1>2. PICK n2 \in Nat : n2 = n1 \div 256 /\ n1 = 256 * n2 + (n1 % 256)
  BY SMT
<1>3. PICK n3 \in Nat : n3 = n2 \div 256 /\ n2 = 256 * n3 + (n2 % 256)
  BY SMT
<1>4. n2 = n \div (256 * 256)
  BY SMT, <1>1, <1>2
<1>5. n3 = n \div (256 * (256 * 256))
  BY SMT, <1>1, <1>2, <1>3
<1>6. Divided(n, n1, n2, n3)
  BY SMT, <1>1, <1>2, <1>3, <1>4, <1>5 DEF Divided
<1> QED BY Zenon, <1>6

LEMMA IntOfBytes ==
    ASSUME NEW n \in Nat, n < 128 * (256 * (256 * 256)), NEW b \in Reader!Buffer,
           \A k \in 0 .. 3 : b[k] = LittleEndian(n, 4)[k + 1]
    PROVE  Reader!Int32(b) = n
<1>0. PICK n1 \in Nat, n2 \in Nat, n3 \in Nat : Divided(n, n1, n2, n3)
  BY Zenon, DivideTwice
<1>1. /\ n1 = n \div 256 /\ n2 = n \div (256 * 256) /\ n3 = n \div (256 * (256 * 256))
      /\ n = 256 * n1 + (n % 256) /\ n1 = 256 * n2 + (n1 % 256) /\ n2 = 256 * n3 + (n2 % 256)
  BY SMT, <1>0 DEF Divided
<1>2. PICK b0 \in Byte, b1 \in Byte, b2 \in Byte, b3 \in Byte :
        /\ b0 = b[0] /\ b1 = b[1] /\ b2 = b[2] /\ b3 = b[3]
        /\ b0 = n % 256 /\ b1 = n1 % 256 /\ b2 = n2 % 256 /\ b3 = n3 % 256
  <2>1. /\ 256 ^ 0 = 1 /\ 256 ^ 1 = 256 /\ 256 ^ 2 = 256 * 256 /\ 256 ^ 3 = 256 * (256 * 256)
    BY SMT
  <2>2. \A k \in 1 .. 4 : LittleEndian(n, 4)[k] = (n \div 256 ^ (k - 1)) % 256
    BY DEF LittleEndian
  <2>3. /\ LittleEndian(n, 4)[1] = (n \div 256 ^ 0) % 256
        /\ LittleEndian(n, 4)[2] = (n \div 256 ^ 1) % 256
        /\ LittleEndian(n, 4)[3] = (n \div 256 ^ 2) % 256
        /\ LittleEndian(n, 4)[4] = (n \div 256 ^ 3) % 256
    BY <2>2
  <2>a. \A x \in Int : x \div 1 = x
    OBVIOUS
  <2>b. LittleEndian(n, 4)[1] = n % 256
    BY SMT, <2>1, <2>3, <2>a
  <2>c. LittleEndian(n, 4)[2] = n1 % 256
    BY SMT, <1>1, <2>1, <2>3
  <2>d. LittleEndian(n, 4)[3] = n2 % 256
    BY SMT, <1>1, <2>1, <2>3
  <2>e. LittleEndian(n, 4)[4] = n3 % 256
    BY SMT, <1>1, <2>1, <2>3
  <2>4. /\ b[0] = LittleEndian(n, 4)[1] /\ b[1] = LittleEndian(n, 4)[2]
        /\ b[2] = LittleEndian(n, 4)[3] /\ b[3] = LittleEndian(n, 4)[4]
    <3>1. /\ 0 \in 0 .. 3 /\ 1 \in 0 .. 3 /\ 2 \in 0 .. 3 /\ 3 \in 0 .. 3
          /\ 0 + 1 = 1 /\ 1 + 1 = 2 /\ 2 + 1 = 3 /\ 3 + 1 = 4
      OBVIOUS
    <3> QED BY <3>1
  <2>6. /\ b[0] = n % 256 /\ b[1] = n1 % 256 /\ b[2] = n2 % 256 /\ b[3] = n3 % 256
    BY <2>4, <2>b, <2>c, <2>d, <2>e
  <2>7. b[0] \in Byte /\ b[1] \in Byte /\ b[2] \in Byte /\ b[3] \in Byte
    BY DEF Reader!Buffer, Reader!Byte, Byte
  <2> QED BY <2>6, <2>7
<1>3. n3 < 128 /\ b3 = n3
  <2>1. n3 < 128
    BY SMT, <1>1
  <2> QED BY <1>2, <2>1
<1>b. b0 \in Nat /\ b1 \in Nat /\ b2 \in Nat /\ b3 \in Nat
  BY DEF Byte
<1>4. Reader!Int32(b) = b0 + 256 * b1 + 65536 * b2 + 16777216 * b3
  <2>1. ~(b3 >= 128)
    BY <1>3
  <2> QED BY <1>2, <2>1 DEF Reader!Int32
<1>5. n = b0 + 256 * (b1 + 256 * (b2 + 256 * b3))
  <2>1. n = 256 * n1 + b0 /\ n1 = 256 * n2 + b1 /\ n2 = 256 * n3 + b2
    BY SMT, <1>1, <1>2, <1>b
  <2> QED BY SMT, <1>3, <1>b, <2>1
<1> QED BY SMT, <1>4, <1>5, <1>b

\* The rest of the note's fields, in what is read of it.
LEMMA NumbersRead ==
    ASSUME WavOutInv, NoteBytes, FileIs(fp), NoteArguments
    PROVE  /\ Len(fp.data) >= 36 =>
                 /\ \A k \in 0 .. 3 : fp.data[24 + k + 1] = LittleEndian(fs, 4)[k + 1]
                 /\ fp.data[34 + 1] = nbit
           /\ Len(fp.data) >= 40 => \A k \in 1 .. 4 : fp.data[36 + k] = Reader!Data[k]
           /\ Len(fp.data) >= 44 =>
                 \A k \in 0 .. 3 : fp.data[40 + k + 1] = LittleEndian(2 * outSamples, 4)[k + 1]
           /\ fs \in Nat /\ fs < 128 * (256 * (256 * 256))
           /\ nbit \in 8 .. 39
           /\ 2 * outSamples \in Nat /\ 2 * outSamples < 128 * (256 * (256 * 256))
           /\ (2 * outSamples) \div (nbit \div 8) <= MaxLength
<1>1. PICK l \in Nat : l = Len(fp.data)
  BY DEF FileIs
<1>2. /\ Starts[8] = 24 /\ Starts[9] = 28 /\ Starts[11] = 34 /\ Starts[12] = 36
      /\ Starts[13] = 40 /\ Starts[14] = 44
  BY DEF Starts
<1>3. /\ Fields[8] = LittleEndian(fs, 4) /\ Fields[11] = Short(nbit)
      /\ Fields[13] = LittleEndian(2 * outSamples, 4)
  BY DEF Fields
<1>4. \A m \in 1 .. 13 : \A k \in 1 .. Starts[m + 1] - Starts[m] :
           Starts[m] + k <= l => fp.data[Starts[m] + k] = Fields[m][k]
  BY Zenon, <1>1 DEF NoteBytes
<1>5. nbit \in 8 .. 39
  BY Zenon DEF WavOutInv, NoteArguments
<1>6. Short(nbit)[1] = nbit
  <2>1. 256 ^ 0 = 1
    BY SMT
  <2>2. Short(nbit)[1] = ((nbit % 65536) \div 256 ^ (1 - 1)) % 256
    BY DEF Short, LittleEndian
  <2>3. 1 - 1 = 0 /\ ((nbit % 65536) \div 1) % 256 = nbit
    BY <1>5
  <2> QED BY SMT, <2>1, <2>2, <2>3
<1>7. ASSUME l >= 36
      PROVE  (\A k \in 0 .. 3 : fp.data[24 + k + 1] = LittleEndian(fs, 4)[k + 1]) /\ fp.data[34 + 1] = nbit
  <2>1. \A k \in 1 .. 4 : fp.data[24 + k] = LittleEndian(fs, 4)[k]
    <3>1. \A k \in 1 .. 28 - 24 : 24 + k <= l => fp.data[24 + k] = LittleEndian(fs, 4)[k]
      <4>1. 8 \in 1 .. 13 /\ 8 + 1 = 9
        OBVIOUS
      <4>2. \A k \in 1 .. Starts[8 + 1] - Starts[8] :
               Starts[8] + k <= l => fp.data[Starts[8] + k] = Fields[8][k]
        BY Zenon, <1>4, <4>1
      <4> QED BY <1>2, <1>3, <4>1, <4>2
    <3> QED BY <1>7, <3>1
  <2>2. fp.data[34 + 1] = nbit
    <3>1. \A k \in 1 .. 36 - 34 : 34 + k <= l => fp.data[34 + k] = Short(nbit)[k]
      <4>1. PICK m \in 1 .. 13 : m = 11 /\ m + 1 = 12
        OBVIOUS
      <4>2. \A k \in 1 .. Starts[m + 1] - Starts[m] :
               Starts[m] + k <= l => fp.data[Starts[m] + k] = Fields[m][k]
        BY Zenon, <1>4
      <4>3. Starts[m] = 34 /\ Starts[m + 1] = 36 /\ Fields[m] = Short(nbit)
        BY <1>2, <1>3, <4>1
      <4> QED BY <4>2, <4>3
    <3>2. 1 \in 1 .. 36 - 34 /\ 34 + 1 <= l
      BY <1>7
    <3> QED BY Zenon, <1>6, <3>1, <3>2
  <2>3. ASSUME NEW k \in 0 .. 3 PROVE fp.data[24 + k + 1] = LittleEndian(fs, 4)[k + 1]
    <3>1. k + 1 \in 1 .. 4 /\ 24 + (k + 1) = 24 + k + 1
      OBVIOUS
    <3> QED BY <2>1, <3>1
  <2> QED BY Zenon, <2>2, <2>3
<1>8. ASSUME l >= 40 PROVE \A k \in 1 .. 4 : fp.data[36 + k] = Reader!Data[k]
  <2>1. \A k \in 1 .. 40 - 36 : 36 + k <= l => fp.data[36 + k] = Fields[12][k]
    <3>1. PICK m \in 1 .. 13 : m = 12 /\ m + 1 = 13
      OBVIOUS
    <3>2. \A k \in 1 .. Starts[m + 1] - Starts[m] :
             Starts[m] + k <= l => fp.data[Starts[m] + k] = Fields[m][k]
      BY Zenon, <1>4
    <3>3. Starts[m] = 36 /\ Starts[m + 1] = 40 /\ Fields[m] = Fields[12]
      BY <1>2, <3>1
    <3> QED BY <3>2, <3>3
  <2>2. \A k \in 1 .. 4 : fp.data[36 + k] = Fields[12][k]
    BY <1>8, <2>1
  <2> QED BY Zenon, <2>2, FieldsWanted
<1>9. ASSUME l >= 44
      PROVE  \A k \in 0 .. 3 : fp.data[40 + k + 1] = LittleEndian(2 * outSamples, 4)[k + 1]
  <2>1. \A k \in 1 .. 44 - 40 : 40 + k <= l => fp.data[40 + k] = LittleEndian(2 * outSamples, 4)[k]
    <3>1. 13 \in 1 .. 13 /\ 13 + 1 = 14
      OBVIOUS
    <3> QED BY <1>2, <1>3, <1>4, <3>1
  <2>2. \A k \in 1 .. 4 : fp.data[40 + k] = LittleEndian(2 * outSamples, 4)[k]
    BY <1>9, <2>1
  <2>3. ASSUME NEW k \in 0 .. 3
        PROVE  fp.data[40 + k + 1] = LittleEndian(2 * outSamples, 4)[k + 1]
    <3>1. k + 1 \in 1 .. 4 /\ 40 + (k + 1) = 40 + k + 1
      OBVIOUS
    <3> QED BY <2>2, <3>1
  <2> QED BY Zenon, <2>3
<1>10. fs \in Nat /\ fs < 128 * (256 * (256 * 256))
  BY Zenon, RateAssumption DEF WavOutInv, NoteArguments
<1>11. /\ 2 * outSamples \in Nat /\ 2 * outSamples < 128 * (256 * (256 * 256))
       /\ (2 * outSamples) \div (nbit \div 8) <= MaxLength
  <2>1. outSamples \in Nat /\ outSamples = Len(y) /\ y \in Signals /\ nbit \in Bits
    BY Zenon, SignalIs DEF WavOutInv, outSamples
  <2>2. 2 * outSamples \in Nat
    BY <2>1
  <2> QED BY Zenon, <2>1, <2>2 DEF NoteArguments
<1> QED BY Zenon, <1>1, <1>5, <1>7, <1>8, <1>9, <1>10, <1>11

LEMMA NoteFormat ==
    ReaderInv /\ WavOutInv /\ NoteInv /\ NoteArguments
      /\ Reader!ReadFormat /\ UNCHANGED wavOutVars => NoteInv'
<1>. SUFFICES ASSUME ReaderInv, WavOutInv, NoteInv, NoteArguments,
                     Reader!ReadFormat, UNCHANGED wavOutVars PROVE NoteInv'
  BY Zenon
<1>1. rpc = "header" /\ checked = 6 /\ FileIs(fp) /\ forIntNumber \in Reader!Buffer
  BY ChecksAre DEF ReaderInv, ReaderTypes, Reader!ReadFormat
<1>2. PICK rate, mid, at :
         /\ rate = Reader!ReadInto(forIntNumber, 4, fp) /\ mid = Reader!Advance(4, fp)
         /\ at = Reader!SeekMemFile(6, mid)
  OBVIOUS
<1>3. /\ forIntNumber' = Reader!ReadInto(rate, 2, at) /\ fp' = Reader!Advance(2, at)
      /\ rNbit' = forIntNumber'[0] /\ rfs' = Reader!Int32(rate) /\ rpc' = "data"
  BY <1>2 DEF Reader!ReadFormat
<1>5. rate \in Reader!Buffer
  BY <1>1, <1>2, ReadIs
<1>6. FileIs(mid) /\ mid.data = fp.data
  BY <1>1, <1>2, ReadIs
<1>7. /\ FileIs(at) /\ at.data = fp.data
      /\ at.cur = IF mid.cur + 6 <= Len(fp.data) THEN mid.cur + 6 ELSE mid.cur
  BY <1>2, <1>6, SeekIs
<1>8. fp'.data = fp.data
  BY <1>3, <1>5, <1>7, ReadIs
<1>9. wavOutPc = "written" /\ NoteBytes
  BY <1>1 DEF NoteInv
<1>10. NoteBytes' /\ wavOutPc' = "written" /\ fs' = fs /\ nbit' = nbit
  BY <1>8, <1>9, NoteBytesStay DEF wavOutVars, note
<1>11. ASSUME Len(fp.data) >= 36 PROVE fp'.cur = 36 /\ rfs' = fs /\ rNbit' = nbit
  <2>1. PICK l \in Nat : l = Len(fp.data) /\ l >= 36
    BY <1>1, <1>11 DEF FileIs
  <2>2. fp.cur = 24
    <3>1. l >= 24 /\ Place(6) = 24
      BY <2>1 DEF Place
    <3> QED BY Zenon, <1>1, <2>1, <3>1 DEF NoteInv
  <2>3. PICK n4 \in 1 .. 4, n2 \in 1 .. 4 : n4 = 4 /\ n2 = 2
    OBVIOUS
  <2>4. mid.cur = 28 /\ \A k \in 0 .. 3 : rate[k] = fp.data[24 + k + 1]
    <3>1. fp.cur + n4 <= Len(fp.data) /\ n4 - 1 = 3 /\ 24 + n4 = 28
      BY <2>1, <2>2, <2>3
    <3>2. /\ Reader!Advance(n4, fp).cur = fp.cur + n4
          /\ (\A k \in 0 .. n4 - 1 : Reader!ReadInto(forIntNumber, n4, fp)[k] = fp.data[fp.cur + k + 1])
      BY Zenon, <1>1, <3>1, ReadWhole
    <3> QED BY Zenon, <1>2, <2>2, <2>3, <3>1, <3>2
  <2>5. at.cur = 34
    <3>1. mid.cur + 6 = 34 /\ 34 <= l
      BY <2>1, <2>4
    <3> QED BY Zenon, <1>7, <2>1, <3>1
  <2>6. fp'.cur = 36 /\ forIntNumber'[0] = fp.data[34 + 1]
    <3>1. at.cur + n2 <= Len(at.data) /\ 0 \in 0 .. n2 - 1 /\ 34 + n2 = 36
      BY <1>7, <2>1, <2>3, <2>5
    <3>2. /\ Reader!Advance(n2, at).cur = at.cur + n2
          /\ (\A k \in 0 .. n2 - 1 : Reader!ReadInto(rate, n2, at)[k] = at.data[at.cur + k + 1])
      BY Zenon, <1>5, <1>7, <3>1, ReadWhole
    <3>3. Reader!ReadInto(rate, n2, at)[0] = at.data[34 + 1]
      BY <2>5, <3>1, <3>2
    <3> QED BY Zenon, <1>3, <1>7, <2>3, <2>5, <3>1, <3>2, <3>3
  <2>7. /\ \A k \in 0 .. 3 : fp.data[24 + k + 1] = LittleEndian(fs, 4)[k + 1]
        /\ fp.data[34 + 1] = nbit /\ fs \in Nat /\ fs < 128 * (256 * (256 * 256))
    BY Zenon, <1>1, <1>9, <1>11, NumbersRead
  <2>8. Reader!Int32(rate) = fs
    <3>1. \A k \in 0 .. 3 : rate[k] = LittleEndian(fs, 4)[k + 1]
      BY Zenon, <2>4, <2>7
    <3> QED BY Zenon, <1>5, <2>7, <3>1, IntOfBytes
  <2> QED BY Zenon, <1>3, <2>6, <2>7, <2>8
<1> QED BY <1>3, <1>8, <1>10, <1>11 DEF NoteInv

LEMMA NoteData ==
    ReaderInv /\ WavOutInv /\ NoteInv /\ NoteArguments
      /\ Reader!CheckData /\ UNCHANGED wavOutVars => NoteInv'
<1>. SUFFICES ASSUME ReaderInv, WavOutInv, NoteInv, NoteArguments,
                     Reader!CheckData, UNCHANGED wavOutVars PROVE NoteInv'
  BY Zenon
<1>1. rpc = "data" /\ FileIs(fp) /\ dataCheck \in Reader!Buffer
  BY DEF ReaderInv, ReaderTypes, Reader!CheckData
<1>2. /\ dataCheck' = Reader!ReadInto(dataCheck, 4, fp) /\ fp' = Reader!Advance(4, fp)
      /\ IF Reader!Holds(dataCheck', Reader!Data)
         THEN rpc' = "length" /\ opened' = opened ELSE rpc' = "refused" /\ opened' = FALSE
      /\ rfs' = rfs /\ rNbit' = rNbit
  BY DEF Reader!CheckData, Reader!format
<1>3. fp'.data = fp.data
  BY <1>1, <1>2, ReadIs
<1>4. PICK l \in Nat : l = Len(fp.data)
  BY <1>1 DEF FileIs
<1>5. /\ wavOutPc = "written" /\ NoteBytes
      /\ (l >= 36 => fp.cur = 36 /\ rfs = fs /\ rNbit = nbit)
  BY <1>1, <1>4 DEF NoteInv
<1>6. NoteBytes' /\ wavOutPc' = "written" /\ fs' = fs /\ nbit' = nbit /\ outSamples' = outSamples
  BY <1>3, <1>5, NoteBytesStay DEF wavOutVars, note, outSamples
<1>7. CASE rpc' = "length"
  BY <1>2, <1>3, <1>4, <1>5, <1>6, <1>7 DEF NoteInv
<1>8. CASE rpc' = "refused"
  <2>1. ASSUME l >= 40 PROVE FALSE
    <3>1. PICK n \in 1 .. 4 : n = 4
      OBVIOUS
    <3>2. fp.cur + n <= Len(fp.data) /\ fp.cur = 36
      BY <1>4, <1>5, <2>1, <3>1
    <3>3. \A k \in 0 .. n - 1 : Reader!ReadInto(dataCheck, n, fp)[k] = fp.data[fp.cur + k + 1]
      BY Zenon, <1>1, <3>2, ReadWhole
    <3>4. \A k \in 1 .. 4 : fp.data[36 + k] = Reader!Data[k]
      <4>1. Len(fp.data) >= 40
        BY <1>4, <2>1
      <4> QED BY Zenon, <1>1, <1>5, <4>1, NumbersRead
    <3>5. ASSUME NEW k \in 1 .. 4 PROVE dataCheck'[k - 1] = Reader!Data[k]
      <4>1. k - 1 \in 0 .. n - 1 /\ 36 + (k - 1) + 1 = 36 + k
        BY <3>1
      <4>2. dataCheck'[k - 1] = fp.data[36 + (k - 1) + 1]
        BY <1>2, <3>1, <3>2, <3>3, <4>1
      <4> QED BY <3>4, <4>1, <4>2
    <3>6. Len(Reader!Data) = 4
      BY TagsAre
    <3>7. Reader!Holds(dataCheck', Reader!Data)
      BY <3>5, <3>6 DEF Reader!Holds
    <3> QED BY <1>2, <1>8, <3>7
  <2>2. ~AllThere'
    <3>1. outSamples \in Nat
      BY SignalIs
    <3>2. ~(l >= 44 + 2 * outSamples)
      BY <2>1, <3>1
    <3> QED BY <1>3, <1>4, <1>6, <3>2 DEF AllThere
  <2> QED BY <1>6, <1>8, <2>2 DEF NoteInv
<1> QED BY <1>2, <1>7, <1>8

LEMMA NoteLength ==
    ReaderInv /\ WavOutInv /\ NoteInv /\ NoteArguments
      /\ Reader!ReadLength /\ UNCHANGED wavOutVars => NoteInv'
<1>. SUFFICES ASSUME ReaderInv, WavOutInv, NoteInv, NoteArguments,
                     Reader!ReadLength, UNCHANGED wavOutVars PROVE NoteInv'
  BY Zenon
<1>1. rpc = "length" /\ fp.cur = 40 /\ FileIs(fp) /\ forIntNumber \in Reader!Buffer
  BY DEF ReaderInv, ReaderTypes, HeaderInv, Reader!ReadLength
<1>2. /\ forIntNumber' = Reader!ReadInto(forIntNumber, 4, fp) /\ fp' = Reader!Advance(4, fp)
      /\ rfs' = rfs /\ rNbit' = rNbit
      /\ rpc' = "malloc" \/ (rpc' = "died" /\ Bytes = 0)
      /\ Bytes # 0 => waveLength' = Reader!Quotient(Reader!Int32(forIntNumber'), Bytes)
  BY DEF Reader!ReadLength, Reader!format, Bytes
<1>3. fp'.data = fp.data
  BY <1>1, <1>2, ReadIs
<1>4. PICK l \in Nat : l = Len(fp.data)
  BY <1>1 DEF FileIs
<1>5. /\ wavOutPc = "written" /\ NoteBytes
      /\ (l >= 36 => rfs = fs /\ rNbit = nbit)
  BY <1>1, <1>4 DEF NoteInv
<1>6. NoteBytes' /\ wavOutPc' = "written" /\ fs' = fs /\ nbit' = nbit /\ outSamples' = outSamples
  BY <1>3, <1>5, NoteBytesStay DEF wavOutVars, note, outSamples
<1>7. ASSUME l >= 44
      PROVE  Bytes # 0 /\ waveLength' = (2 * outSamples) \div (nbit \div 8)
  <2>0. Len(fp.data) >= 44
    BY <1>4, <1>7
  <2>1. /\ \A k \in 0 .. 3 : fp.data[40 + k + 1] = LittleEndian(2 * outSamples, 4)[k + 1]
        /\ nbit \in 8 .. 39
        /\ 2 * outSamples \in Nat /\ 2 * outSamples < 128 * (256 * (256 * 256))
    BY Zenon, <1>1, <1>5, <2>0, NumbersRead
  <2>2. PICK q \in 1 .. 4 : q = nbit \div 8 /\ q = Bytes
    <3>1. rNbit = nbit
      BY <1>5, <1>7
    <3>2. nbit \div 8 \in 1 .. 4
      BY <2>1
    <3> QED BY <3>1, <3>2 DEF Bytes, Reader!quantizationByte
  <2>3. forIntNumber' \in Reader!Buffer
    BY <1>1, <1>2, ReadIs
  <2>4. \A k \in 0 .. 3 : forIntNumber'[k] = LittleEndian(2 * outSamples, 4)[k + 1]
    <3>1. PICK n \in 1 .. 4 : n = 4
      OBVIOUS
    <3>2. fp.cur + n <= Len(fp.data)
      BY <1>1, <2>0, <1>4, <3>1
    <3>3. \A k \in 0 .. n - 1 : Reader!ReadInto(forIntNumber, n, fp)[k] = fp.data[fp.cur + k + 1]
      BY Zenon, <1>1, <3>2, ReadWhole
    <3>4. \A k \in 0 .. 3 : forIntNumber'[k] = fp.data[40 + k + 1]
      BY <1>1, <1>2, <3>1, <3>3
    <3> QED BY Zenon, <2>1, <3>4
  <2>5. PICK N \in Nat : N = 2 * outSamples
    BY <2>1
  <2>6. Reader!Int32(forIntNumber') = N
    BY Zenon, <2>1, <2>3, <2>4, <2>5, IntOfBytes
  <2>7. Reader!Quotient(N, q) = N \div q
    BY DEF Reader!Quotient
  <2> QED BY <1>2, <2>2, <2>5, <2>6, <2>7
<1>8. CASE rpc' = "malloc"
  <2>1. (l >= 36 => rfs' = fs' /\ rNbit' = nbit')
    BY <1>2, <1>5, <1>6
  <2>2. (l >= 44 => waveLength' = (2 * outSamples') \div (nbit' \div 8))
    BY <1>6, <1>7
  <2> QED BY <1>3, <1>4, <1>6, <1>8, <2>1, <2>2 DEF NoteInv
<1>9. CASE rpc' = "died"
  <2>1. ~(l >= 44)
    BY <1>2, <1>7, <1>9
  <2>2. ~AllThere'
    <3>1. outSamples \in Nat
      BY SignalIs
    <3>2. ~(l >= 44 + 2 * outSamples)
      BY <2>1, <3>1
    <3> QED BY <1>3, <1>4, <1>6, <3>2 DEF AllThere
  <2>3. (l >= 36 => rfs' = fs' /\ rNbit' = nbit')
    BY <1>2, <1>5, <1>6
  <2> QED BY <1>3, <1>4, <1>6, <1>9, <2>2, <2>3 DEF NoteInv
<1> QED BY <1>2, <1>8, <1>9

LEMMA NoteAllocate ==
    ReaderInv /\ WavOutInv /\ NoteInv /\ NoteArguments
      /\ Reader!Allocate /\ UNCHANGED wavOutVars => NoteInv'
<1>. SUFFICES ASSUME ReaderInv, WavOutInv, NoteInv, NoteArguments,
                     Reader!Allocate, UNCHANGED wavOutVars PROVE NoteInv'
  BY Zenon
<1>1. /\ rpc = "malloc"
      /\ rpc' = "samples" \/ (rpc' = "refused" /\ waveLength \notin 0 .. MaxLength)
      /\ UNCHANGED <<fp, rfs, rNbit, waveLength>>
  BY DEF Reader!Allocate, Reader!format
<1>4. PICK l \in Nat : l = Len(fp.data) /\ FileIs(fp)
  BY DEF FileIs, ReaderInv, ReaderTypes
<1>5. /\ wavOutPc = "written" /\ NoteBytes
      /\ (l >= 36 => rfs = fs /\ rNbit = nbit)
      /\ (l >= 44 => waveLength = (2 * outSamples) \div (nbit \div 8))
  BY <1>1, <1>4 DEF NoteInv
<1>6. NoteBytes' /\ wavOutPc' = "written" /\ fs' = fs /\ nbit' = nbit /\ outSamples' = outSamples
  BY <1>1, <1>5, NoteBytesStay DEF wavOutVars, note, outSamples
<1>7. CASE rpc' = "samples"
  BY <1>1, <1>4, <1>5, <1>6, <1>7 DEF NoteInv
<1>8. CASE rpc' = "refused"
  <2>1. ~(l >= 44)
    <3>1. SUFFICES ASSUME l >= 44 PROVE FALSE
      OBVIOUS
    <3>2. /\ nbit \in 8 .. 39 /\ 2 * outSamples \in Nat
          /\ (2 * outSamples) \div (nbit \div 8) <= MaxLength
      BY Zenon, <1>4, <1>5, NumbersRead
    <3>3. PICK q \in 1 .. 4, N \in Nat : q = nbit \div 8 /\ N = 2 * outSamples
      <4>1. nbit \div 8 \in 1 .. 4
        BY <3>2
      <4> QED BY <3>2, <4>1
    <3>4. N \div q \in Nat
      OBVIOUS
    <3>5. waveLength = N \div q /\ N \div q <= MaxLength
      BY <1>5, <3>1, <3>2, <3>3
    <3>6. waveLength \in 0 .. MaxLength
      BY <3>4, <3>5, MaxLengthAssumption
    <3> QED BY <1>1, <1>8, <3>6
  <2>2. ~AllThere'
    <3>1. outSamples \in Nat
      BY SignalIs
    <3>2. ~(l >= 44 + 2 * outSamples)
      BY <2>1, <3>1
    <3> QED BY <1>1, <1>4, <1>6, <3>2 DEF AllThere
  <2> QED BY <1>6, <1>8, <2>2 DEF NoteInv
<1> QED BY <1>1, <1>7, <1>8

LEMMA NoteSample ==
    ReaderInv /\ WavOutInv /\ NoteInv /\ NoteArguments
      /\ Reader!ReadSample /\ UNCHANGED wavOutVars => NoteInv'
<1>. SUFFICES ASSUME ReaderInv, WavOutInv, NoteInv, NoteArguments,
                     Reader!ReadSample, UNCHANGED wavOutVars PROVE NoteInv'
  BY Zenon
<1>1. /\ rpc = "samples" /\ UNCHANGED <<rfs, rNbit, waveLength>>
      /\ \/ rpc' = "overrun" /\ fp' = fp /\ Bytes > 4
         \/ rpc' = "samples" /\ fp' = Reader!Advance(Bytes, fp)
  BY DEF Reader!ReadSample, Reader!format, Reader!TakeSample, Bytes
<1>4. PICK l \in Nat : l = Len(fp.data) /\ FileIs(fp) /\ forIntNumber \in Reader!Buffer
  BY DEF FileIs, ReaderInv, ReaderTypes
<1>3. fp'.data = fp.data
  <2>1. PICK n \in Nat : n = Bytes
    <3>1. rNbit \in Nat
      BY DEF ReaderInv, ReaderTypes, Byte
    <3> QED BY <3>1 DEF Bytes, Reader!quantizationByte
  <2>2. Reader!Advance(n, fp).data = fp.data
    BY Zenon, <1>4, ReadIs
  <2> QED BY Zenon, <1>1, <2>1, <2>2
<1>5. /\ wavOutPc = "written" /\ NoteBytes
      /\ (l >= 36 => rfs = fs /\ rNbit = nbit)
      /\ (l >= 44 => waveLength = (2 * outSamples) \div (nbit \div 8))
  BY <1>1, <1>4 DEF NoteInv
<1>6. NoteBytes' /\ wavOutPc' = "written" /\ fs' = fs /\ nbit' = nbit /\ outSamples' = outSamples
  BY <1>3, <1>5, NoteBytesStay DEF wavOutVars, note, outSamples
<1>7. CASE rpc' = "samples"
  BY <1>1, <1>3, <1>4, <1>5, <1>6, <1>7 DEF NoteInv
<1>8. CASE rpc' = "overrun"
  <2>1. ~(l >= 44)
    <3>1. SUFFICES ASSUME l >= 44 PROVE FALSE
      OBVIOUS
    <3>2. nbit \in 8 .. 39
      BY Zenon, <1>4, <1>5, NumbersRead
    <3>3. nbit \div 8 \in 1 .. 4
      BY <3>2
    <3>4. Bytes = nbit \div 8
      BY <1>5, <3>1 DEF Bytes, Reader!quantizationByte
    <3> QED BY <1>1, <1>8, <3>3, <3>4
  <2>2. ~AllThere'
    <3>1. outSamples \in Nat
      BY SignalIs
    <3>2. ~(l >= 44 + 2 * outSamples)
      BY <2>1, <3>1
    <3> QED BY <1>3, <1>4, <1>6, <3>2 DEF AllThere
  <2>3. (l >= 36 => rfs' = fs' /\ rNbit' = nbit')
    BY <1>1, <1>5, <1>6
  <2> QED BY <1>3, <1>4, <1>6, <1>8, <2>2, <2>3 DEF NoteInv
<1> QED BY <1>1, <1>7, <1>8

LEMMA NoteReturn ==
    ReaderInv /\ WavOutInv /\ NoteInv /\ Reader!Return /\ UNCHANGED wavOutVars => NoteInv'
<1>. SUFFICES ASSUME ReaderInv, WavOutInv, NoteInv,
                     Reader!Return, UNCHANGED wavOutVars PROVE NoteInv'
  BY Zenon
<1>1. /\ rpc = "samples" /\ rpc' = "done" /\ Len(waveForm) >= waveLength
      /\ UNCHANGED <<fp, rfs, rNbit, waveLength, waveForm>>
  BY DEF Reader!Return, Reader!format
<1>5. /\ wavOutPc = "written" /\ NoteBytes
      /\ (Len(fp.data) >= 36 => rfs = fs /\ rNbit = nbit)
      /\ (Len(fp.data) >= 44 => waveLength = (2 * outSamples) \div (nbit \div 8))
  BY <1>1 DEF NoteInv
<1>6. NoteBytes' /\ wavOutPc' = "written" /\ fs' = fs /\ nbit' = nbit /\ outSamples' = outSamples
  BY <1>1, <1>5, NoteBytesStay DEF wavOutVars, note, outSamples
<1> QED BY <1>1, <1>5, <1>6 DEF NoteInv

LEMMA NoteStep ==
    ReaderInv /\ WavOutInv /\ NoteInv /\ NoteArguments
      /\ Reader!Step /\ UNCHANGED wavOutVars => NoteInv'
BY NoteTag, NoteFormat, NoteData, NoteLength, NoteAllocate, NoteSample, NoteReturn DEF Reader!Step

LEMMA NoteIsAccepted == WavOutInv /\ NoteInv => NoteAccepted
<1>. SUFFICES ASSUME WavOutInv, NoteInv, wavOutPc = "written",
                     rpc \in {"refused", "died", "overrun"}
              PROVE  Len(fp.data) < Len(File)
  BY DEF NoteAccepted
<1>1. PICK N \in Nat : N = outSamples
  BY SignalIs
<1>2. Len(File) = 44 + 2 * N
  BY <1>1, FileParts DEF FileHolds
<1>3. ~(Len(fp.data) >= 44 + 2 * N) /\ Len(fp.data) <= 44 + 2 * N
  BY <1>1 DEF NoteInv, AllThere, NoteBytes
<1> QED BY <1>2, <1>3

\* Two bytes are the short they were made of, of either sign.
LEMMA ShortOfBytes ==
    ASSUME NEW n \in Int, n >= -32768, n <= 32767
    PROVE  /\ Short(n)[1] \in Byte /\ Short(n)[2] \in Byte
           /\ (IF Short(n)[2] >= 128 THEN (Short(n)[1] + 256 * Short(n)[2]) - 65536
                                     ELSE Short(n)[1] + 256 * Short(n)[2]) = n
<1>1. PICK u \in Nat : u = n % 65536 /\ u = IF n >= 0 THEN n ELSE n + 65536
  <2>1. CASE n >= 0
    BY SMT, <2>1
  <2>2. CASE ~(n >= 0)
    BY SMT, <2>2
  <2> QED BY <2>1, <2>2
<1>2. PICK a \in Nat, h \in Nat : a = u % 256 /\ h = (u \div 256) % 256 /\ u = a + 256 * h
                                  /\ a <= 255 /\ h <= 255
  BY SMT, <1>1
<1>3. Short(n)[1] = a /\ Short(n)[2] = h
  <2>1. 256 ^ 0 = 1 /\ 256 ^ 1 = 256
    BY SMT
  <2>2. \A k \in 1 .. 2 : Short(n)[k] = (u \div 256 ^ (k - 1)) % 256
    BY <1>1 DEF Short, LittleEndian
  <2>3. Short(n)[1] = (u \div 256 ^ 0) % 256 /\ Short(n)[2] = (u \div 256 ^ 1) % 256
    BY <2>2
  <2>4. (u \div 1) = u
    OBVIOUS
  <2> QED BY SMT, <1>2, <2>1, <2>3, <2>4
<1>4. h >= 128 <=> n < 0
  BY SMT, <1>1, <1>2
<1> QED BY <1>1, <1>2, <1>3, <1>4 DEF Byte

LEMMA NoteIsReadBack ==
    WavOutInv /\ ReaderInv /\ NoteInv /\ NoteArguments => NoteReadBack
<1>. SUFFICES ASSUME WavOutInv, ReaderInv, NoteInv, NoteArguments,
                     wavOutPc = "written", rpc = "done", nbit = 16
              PROVE  /\ rfs = fs
                     /\ Len(fp.data) >= 44 => waveLength = outSamples
                     /\ \A k \in 1 .. outSamples :
                           k <= waveLength /\ 44 + 2 * k <= Len(fp.data) =>
                              waveForm[k] = output[k]
  BY Zenon DEF NoteReadBack
<1>1. PICK l \in Nat, N \in Nat : l = Len(fp.data) /\ N = outSamples /\ FileIs(fp)
  BY SignalIs DEF FileIs, ReaderInv, ReaderTypes
<1>2. l >= 36
  <2>1. Reader!At(36, Reader!Data)
    BY DEF ReaderInv, Reader!HeaderIsInFile, Reader!Accepted
  <2> QED BY <1>1, <2>1, TagsAre DEF Reader!At
<1>3. rfs = fs /\ rNbit = 16 /\ Len(waveForm) >= waveLength /\ NoteBytes
      /\ (l >= 44 => waveLength = (2 * N) \div (16 \div 8))
  BY <1>1, <1>2 DEF NoteInv
<1>4. l >= 44 => waveLength = N
  <2>1. 16 \div 8 = 2 /\ (2 * N) \div 2 = N
    OBVIOUS
  <2> QED BY <1>3, <2>1
<1>5. ASSUME NEW k \in 1 .. outSamples, k <= waveLength, 44 + 2 * k <= Len(fp.data)
      PROVE  waveForm[k] = output[k]
  <2>1. PICK j \in Nat : j = k - 1 /\ k \in Nat /\ k \in 1 .. N /\ k = j + 1
    <3>1. k \in 1 .. N
      BY <1>1
    <3>2. k - 1 \in Nat /\ k \in Nat /\ k = (k - 1) + 1
      BY <3>1
    <3> QED BY <3>1, <3>2
  <2>2. Reader!quantizationByte = 2
    BY <1>3 DEF Reader!quantizationByte
  <2>3. j \in 0 .. Len(waveForm) - 1
    <3>1. waveForm \in Seq(Int) /\ waveLength \in Int
      BY DEF ReaderInv, ReaderTypes
    <3>2. Len(waveForm) \in Nat
      BY <3>1
    <3> QED BY <1>3, <1>5, <2>1, <3>1, <3>2
  <2>4. Reader!InFile(j)
    BY <1>1, <1>5, <2>1, <2>2 DEF Reader!InFile
  <2>5. waveForm[k] = Reader!Sample(j)
    <3>1. Reader!SamplesDecoded
      BY DEF ReaderInv, SamplesInv
    <3>2. \A m \in 0 .. Len(waveForm) - 1 : Reader!InFile(m) => waveForm[m + 1] = Reader!Sample(m)
      BY <1>3, <3>1 DEF Reader!SamplesDecoded
    <3> QED BY <2>1, <2>3, <2>4, <3>2
  <2>6. PICK o \in Int : o = output[k] /\ o >= -32768 /\ o <= 32767
    <3>1. output \in Seq(Shorts) /\ Len(output) = N
      BY <1>1 DEF WavOutInv
    <3>2. output[k] \in Shorts
      BY <2>1, <3>1, ElementOfSeq
    <3> QED BY <3>2, ShortsAre
  <2>7. PICK a \in Byte, h \in Byte :
          /\ a = Short(o)[1] /\ h = Short(o)[2]
          /\ (IF h >= 128 THEN (a + 256 * h) - 65536 ELSE a + 256 * h) = o
    BY <2>6, ShortOfBytes
  <2>8. fp.data[44 + (2 * k - 1)] = a /\ fp.data[44 + 2 * k] = h
    BY <1>1, <1>3, <1>5, <2>1, <2>6, <2>7 DEF NoteBytes
  <2>9. PICK first \in Nat : /\ first = 44 + j * 2 /\ first + 1 = 44 + (2 * k - 1)
                             /\ first + 2 = 44 + 2 * k
    <3>1. 44 + j * 2 \in Nat /\ (44 + j * 2) + 1 = 44 + (2 * k - 1)
          /\ (44 + j * 2) + 2 = 44 + 2 * k
      BY <2>1
    <3> QED BY <3>1
  <2>10. fp.data[first + 1] = a /\ fp.data[first + 2] = h
    BY Zenon, <2>8, <2>9
  <2>11. PICK b \in Reader!Buffer :
           /\ b = [i0 \in 0 .. 3 |->
                     IF i0 < Reader!quantizationByte THEN fp.data[first + i0 + 1] ELSE 0]
           /\ b[0] = a /\ b[1] = h
    <3>1. ASSUME NEW i0 \in 0 .. 3
          PROVE  (IF i0 < Reader!quantizationByte THEN fp.data[first + i0 + 1] ELSE 0) \in Byte
      <4>1. i0 = 0 \/ i0 = 1 \/ ~(i0 < 2)
        OBVIOUS
      <4>2. first + 0 + 1 = first + 1 /\ first + 1 + 1 = first + 2 /\ 0 \in Byte
        BY DEF Byte
      <4> QED BY <2>2, <2>10, <4>1, <4>2
    <3>2. first + 0 + 1 = first + 1 /\ first + 1 + 1 = first + 2
      OBVIOUS
    <3>3. [i0 \in 0 .. 3 |->
              IF i0 < Reader!quantizationByte THEN fp.data[first + i0 + 1] ELSE 0]
                \in Reader!Buffer
      BY <3>1 DEF Reader!Buffer, Reader!Byte, Byte
    <3> QED BY <2>2, <2>10, <3>2, <3>3
  <2>12. Reader!Magnitude(b) = a + 256 * h
    <3>1. PICK q \in 1 .. 4 : q = 2 /\ q = Bytes
      BY <2>2 DEF Bytes
    <3> QED BY <2>11, <3>1, MagnitudeIs
  <2>13. Reader!Sample(j) = IF h >= 128 THEN (a + 256 * h) - 65536 ELSE a + 256 * h
    <3>1. 2 ^ 16 = 65536 /\ 8 * Reader!quantizationByte = 16
      BY SMT, <2>2
    <3>2. Reader!Sample(j) =
             IF fp.data[first + Reader!quantizationByte] >= 128
             THEN Reader!Magnitude(b) - 2 ^ (8 * Reader!quantizationByte)
             ELSE Reader!Magnitude(b)
      <4>1. 44 + j * Reader!quantizationByte = first
        BY <2>2, <2>9
      <4> QED BY <2>11, <4>1 DEF Reader!Sample
    <3> QED BY <2>2, <2>10, <2>12, <3>1, <3>2
  <2> QED BY <2>5, <2>6, <2>7, <2>13
<1> QED BY <1>1, <1>3, <1>4, <1>5

\* A note is written and read back: its header is the format's although stores
\* cover each other, its shape and its level are the signal's, another process
\* accepts it whole, and reads every sample that is there as it was written.
THEOREM NotesAreWell == VolumesAudible /\ NoteArguments => (TripSpec => []NoteWell)
<1>. SUFFICES ASSUME VolumesAudible, NoteArguments PROVE TripSpec => []NoteWell
  OBVIOUS
<1> DEFINE Inv == TripInv /\ LevelInv /\ StoresInv /\ NoteInv
<1>1. TripInit => Inv
  <2>. SUFFICES ASSUME TripInit PROVE Inv
    OBVIOUS
  <2>1. TripInv
    BY TripStarts
  <2>2. LevelInv /\ StoresInv
    BY LevelStarts, StoresStart DEF TripInit
  <2>3. NoteInv
    BY DEF TripInit, ReaderIdle, NoteInv
  <2> QED BY <2>1, <2>2, <2>3
<1>2. Inv /\ [TripNext]_tripVars => Inv'
  <2>. SUFFICES ASSUME TripInv, LevelInv, StoresInv, NoteInv, [TripNext]_tripVars PROVE Inv'
    OBVIOUS
  <2>1. TripInv'
    BY TripStep
  <2>2. [Step]_wavOutVars
    BY DEF TripNext, WriteNote, OpenNote, ReadNote, ReadFinished, tripVars
  <2>3. LevelInv' /\ StoresInv'
    BY <2>2, LevelStep, StoresStep DEF TripInv
  <2>4. NoteInv'
    <3>1. CASE WriteNote
      <4>1. rpc = "idle" /\ rpc' = rpc
        <5>1. wavOutPc # "written"
          BY <3>1 DEF WriteNote, Step, MaxAmp, EndMax, WriteSample, EndOutput, Store, Write
        <5> QED BY <3>1, <5>1 DEF WriteNote, readerVars, NoteInv
      <4> QED BY <4>1 DEF NoteInv
    <3>2. CASE OpenNote
      <4>1. NoteBytes' /\ fp'.cur = 0 /\ UNCHANGED wavOutVars
        BY <3>2, OpenedNote DEF TripInv
      <4>2. rpc' = "header" /\ wavOutPc' = "written" /\ checked' = 0
        BY <3>2 DEF OpenNote, TripInv, TripIdle, wavOutVars
      <4> QED BY <4>1, <4>2 DEF NoteInv, Place
    <3>3. CASE ReadNote
      BY <3>3, NoteStep DEF ReadNote, TripInv
    <3>4. CASE UNCHANGED tripVars
      <4>1. UNCHANGED wavOutVars /\ UNCHANGED readerVars
        BY <3>4 DEF tripVars
      <4>2. /\ outSamples' = outSamples /\ wavOutPc' = wavOutPc /\ fs' = fs /\ nbit' = nbit
            /\ fp' = fp /\ checked' = checked /\ rfs' = rfs /\ rNbit' = rNbit
            /\ waveLength' = waveLength /\ waveForm' = waveForm /\ rpc' = rpc
        BY <4>1 DEF wavOutVars, note, outSamples, readerVars
      <4>3. NoteBytes' <=> NoteBytes
        BY <4>1, <4>2, NoteBytesStay
      <4> QED BY <4>2, <4>3 DEF NoteInv, AllThere
    <3> QED BY <3>1, <3>2, <3>3, <3>4 DEF TripNext, ReadFinished
  <2> QED BY <2>1, <2>3, <2>4
<1>3. Inv => NoteWell
  BY HeaderIsWell, ShapeIsKept, LevelIsFull, NoteIsAccepted, NoteIsReadBack DEF TripInv, NoteWell
<1> QED BY <1>1, <1>2, <1>3, PTL DEF TripSpec
=============================================================================
