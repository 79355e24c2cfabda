------------------------- MODULE FrequencyBinsProofs -------------------------
(***************************************************************************)
(* What FrequencyBins says of the band holds for every fft-size, frequency *)
(* and bandwidth, and for every number of ticks per bin; what it says of   *)
(* the weight of a spectrum holds for every num-to-average and number of   *)
(* chunks.                                                                 *)
(***************************************************************************)
EXTENDS FrequencyBins, TLAPS

-----------------------------------------------------------------------------
(* Arithmetic.                                                             *)

\* Integer division by a positive number.
LEMMA Division ==
    ASSUME NEW x \in Nat, NEW n \in Nat, n > 0
    PROVE  /\ x \div n \in Nat
           /\ n * (x \div n) <= x
           /\ x < n * (x \div n) + n
  <1>1. x \div n \in Int /\ x = n * (x \div n) + (x % n) /\ x % n \in 0 .. n - 1
    BY SMT
  <1>2. x \div n >= 0
    BY <1>1, SMT
  <1> QED BY <1>1, <1>2, SMT

\* A quotient is below every bound that the number is below.
LEMMA QuotientBelow ==
    ASSUME NEW x \in Nat, NEW n \in Nat, n > 0, NEW m \in Nat, x < m * n
    PROVE  x \div n < m
  <1>1. x \div n \in Nat /\ n * (x \div n) <= x
    BY Division
  <1>2. SUFFICES ASSUME x \div n >= m PROVE FALSE
    BY <1>1, SMT
  <1> DEFINE q == x \div n
  <1>3. q \in Nat /\ n * q <= x /\ q >= m
    BY <1>1, <1>2
  <1> HIDE DEF q
  <1>4. n * q >= n * m
    BY <1>3, SMT
  <1> QED BY <1>3, <1>4, SMT

\* Below the divisor, a number is its own remainder.
LEMMA ModSmall ==
    ASSUME NEW n \in Nat, n > 0, NEW a \in 0 .. n - 1
    PROVE  a % n = a
  BY SMT

\* The arithmetic of the band: c is the bin of the frequency f, n the number of
\* bins, h half of it, and i is 1 only for an even n.
LEMMA BandArithmetic ==
    ASSUME NEW t \in Nat, t > 1, NEW f \in Nat, NEW c \in Nat,
           t * c <= f, f < t * c + t,
           NEW n \in Nat, n > 0, NEW h \in Nat, NEW i \in {0, 1},
           n = 2 * h \/ (n = 2 * h + 1 /\ i = 0),
           NEW low \in Int, low = (c - h + i) * t,
           NEW high \in Int, high = low + n * t
    PROVE  /\ low <= f /\ f < high
           /\ -2 * t <= 2 * f - (low + high)
           /\ 2 * f - (low + high) <= 2 * t
  <1> DEFINE ct == t * c   ht == t * h
  <1>1. ct \in Nat /\ ht \in Nat /\ ct <= f /\ f < ct + t
    BY SMT
  <1>2. low = ct - ht + i * t
    BY SMT
  <1>3. CASE n = 2 * h
    <2>1. h >= 1
      BY <1>3, SMT
    <2>2. ht >= t
      BY <2>1, SMT
    <2>3. n * t = 2 * ht
      BY <1>3, SMT
    <2> HIDE DEF ct, ht
    <2>4. i * t = 0 \/ i * t = t
      BY SMT
    <2>5. low \in Int /\ (low = ct - ht \/ low = ct - ht + t)
      BY <1>1, <1>2, <2>4, SMT
    <2>6. high = low + 2 * ht
      BY <2>3
    <2> QED BY <1>1, <2>2, <2>5, <2>6, SMT
  <1>4. CASE n = 2 * h + 1 /\ i = 0
    <2>1. n * t = 2 * ht + t
      BY <1>4, SMT
    <2> HIDE DEF ct, ht
    <2>2. low = ct - ht
      BY <1>1, <1>2, <1>4, SMT
    <2>3. high = low + 2 * ht + t
      BY <1>1, <2>1, <2>2, SMT
    <2> QED BY <1>1, <2>2, <2>3, SMT
  <1> QED BY <1>3, <1>4

-----------------------------------------------------------------------------
(* The band.                                                               *)

\* The configuration stays what Init chose.
ConfigOK ==
    /\ fft_size \in 2 .. MaxFftSize
    /\ centerish_freq \in 0 .. fft_size * Ticks - 1
    /\ min_output_bandwidth \in 0 .. fft_size * Ticks + Ticks
    /\ spectrum_size \in Nat /\ spectrum_size >= NumOutputBins
    /\ num_to_average \in Nat

\* The array is as initialize allocates it, the averager's as the transform's
\* once there is something in the sum, and the counter counts what is in it.
AverageInv ==
    /\ array_size = 0 => average_size = 0 /\ ~running
    /\ array_size # 0 => array_size = NumOutputBins
                         /\ average_size \in {array_size, spectrum_size}
    /\ first \in {0, FirstOutputIndex}
    /\ running \in BOOLEAN
    /\ average_sum \in Nat /\ input_counter = average_sum
    /\ ~running => average_sum = 0
    /\ average_sum > 0 => average_size = array_size /\ first = FirstOutputIndex

\* A spectrum is of the band and has its weight.
SpectrumOK(s) ==
    s # NoSpectrum => /\ s.bins = array_size /\ array_size = NumOutputBins
                      /\ first = FirstOutputIndex
                      /\ s.per \in Nat /\ s.per > 0
                      /\ s.weight = Terms * s.per

\* What is broadcast is computed from the configuration.
BandInv ==
    /\ SpectrumOK(spectrum) /\ SpectrumOK(shown)
    /\ Sent => /\ minimum_frequency = FirstOutputIndex * Ticks
               /\ maximum_frequency = minimum_frequency + spectrum_size * Ticks

Inv == ConfigOK /\ AverageInv /\ BandInv

\* The band has at least one bin and no more than the transform.
LEMMA BinsInBand ==
    ASSUME fft_size \in 2 .. MaxFftSize,
           min_output_bandwidth \in 0 .. fft_size * Ticks + Ticks
    PROVE  NumOutputBins \in 1 .. fft_size
  <1> USE BinsAssumption
  <1>1. fft_size \in Nat /\ fft_size >= 2 /\ fft_size * Ticks + Ticks \in Nat
    BY SMT
  <1>2. min_output_bandwidth \in Nat
    BY <1>1, SMT
  <1>3. CASE min_output_bandwidth < Ticks
    BY <1>1, <1>3, SMT DEF NumOutputBins
  <1>4. CASE min_output_bandwidth >= Ticks
    <2> DEFINE q == min_output_bandwidth \div Ticks
    <2>1. q \in Nat /\ min_output_bandwidth < Ticks * q + Ticks
      BY <1>2, Division
    <2>2. NumOutputBins = IF min_output_bandwidth = 0 \/ q > fft_size
                          THEN fft_size ELSE q
      BY <1>2, <1>4, SMT DEF NumOutputBins
    <2> HIDE DEF q
    <2>3. q # 0
      BY <1>2, <1>4, <2>1, SMT
    <2> QED BY <1>1, <2>1, <2>2, <2>3, SMT
  <1> QED BY <1>2, <1>3, <1>4, SMT

LEMMA NumOutputBinsRange == ConfigOK => NumOutputBins \in 1 .. fft_size
  BY BinsInBand DEF ConfigOK

\* The middle bin is one of the transform, and with a frequency it is the bin
\* of it.
LEMMA CenterBinRange ==
    ConfigOK => /\ CenterBin \in 0 .. fft_size - 1
                /\ centerish_freq > 0 =>
                       /\ Ticks * CenterBin <= centerish_freq
                       /\ centerish_freq < Ticks * CenterBin + Ticks
  <1> SUFFICES ASSUME ConfigOK
               PROVE  /\ CenterBin \in 0 .. fft_size - 1
                      /\ centerish_freq > 0 =>
                             /\ Ticks * CenterBin <= centerish_freq
                             /\ centerish_freq < Ticks * CenterBin + Ticks
    OBVIOUS
  <1> USE BinsAssumption
  <1>1. fft_size \in Nat /\ fft_size >= 2 /\ fft_size * Ticks \in Nat
    BY SMT DEF ConfigOK
  <1>2. centerish_freq \in Nat /\ centerish_freq < fft_size * Ticks
    BY <1>1, SMT DEF ConfigOK
  <1>3. CASE centerish_freq > 0
    <2>1. CenterBin = centerish_freq \div Ticks
      BY <1>3 DEF CenterBin
    <2>2. /\ CenterBin \in Nat /\ CenterBin < fft_size
          /\ Ticks * CenterBin <= centerish_freq
          /\ centerish_freq < Ticks * CenterBin + Ticks
      BY <1>1, <1>2, <2>1, Division, QuotientBelow
    <2> QED BY <1>1, <2>2, SMT
  <1>4. CASE ~(centerish_freq > 0)
    <2>1. CenterBin = (fft_size - 1) \div 2 + 1
      BY <1>4 DEF CenterBin
    <2> QED BY <1>1, <1>4, <2>1, SMT
  <1> QED BY <1>3, <1>4

\* An unsigned number is below its limit.
LEMMA FirstOutputIndexRange ==
    ConfigOK => FirstOutputIndex \in 0 .. UnsignedLimit - 1
  <1> SUFFICES ASSUME ConfigOK
               PROVE  FirstOutputIndex \in 0 .. UnsignedLimit - 1
    OBVIOUS
  <1> DEFINE n == NumOutputBins   c == CenterBin   i == IF UpperHalf THEN 1 ELSE 0
  <1>1. n \in Nat /\ c \in Nat /\ i \in {0, 1}
    BY NumOutputBinsRange, CenterBinRange, BinsAssumption, SMT DEF ConfigOK
  <1>2. FirstOutputIndex = (c - n \div 2 + i) % UnsignedLimit
    BY DEF FirstOutputIndex
  <1> HIDE DEF n, c, i
  <1>3. c - n \div 2 + i \in Int
    BY <1>1, SMT
  <1> QED BY <1>2, <1>3, BinsAssumption, SMT

\* Without a wrap, the index is what its formula says.
LEMMA FirstOutputIndexExact ==
    ASSUME ConfigOK, CenterBin >= NumOutputBins \div 2
    PROVE  FirstOutputIndex =
               CenterBin - NumOutputBins \div 2 + (IF UpperHalf THEN 1 ELSE 0)
  <1> DEFINE n == NumOutputBins   c == CenterBin   i == IF UpperHalf THEN 1 ELSE 0
  <1> USE BinsAssumption
  <1>1. n \in 1 .. fft_size /\ c \in 0 .. fft_size - 1 /\ i \in {0, 1}
    BY NumOutputBinsRange, CenterBinRange
  <1>2. FirstOutputIndex = (c - n \div 2 + i) % UnsignedLimit /\ c >= n \div 2
    BY DEF FirstOutputIndex
  <1>3. fft_size \in Nat /\ fft_size <= MaxFftSize
    BY SMT DEF ConfigOK
  <1> HIDE DEF n, c, i
  <1>4. c - n \div 2 + i \in 0 .. UnsignedLimit - 1
    BY <1>1, <1>2, <1>3, SMT
  <1>5. FirstOutputIndex = c - n \div 2 + i
    BY <1>2, <1>4, ModSmall, SMT
  <1> QED BY <1>5 DEF n, c, i

-----------------------------------------------------------------------------
(* The invariant.                                                          *)

LEMMA InvInit == Init => Inv
  <1> SUFFICES ASSUME Init PROVE Inv
    OBVIOUS
  <1>1. fft_size \in Nat /\ NumOutputBins \in 1 .. fft_size
    <2>1. fft_size \in 2 .. MaxFftSize
      BY DEF Init
    <2> QED BY <2>1, BinsInBand, BinsAssumption, SMT DEF Init
  <1>2. PICK spare \in 0 .. MaxSpare : spectrum_size = NumOutputBins + spare
    BY DEF Init
  <1>3. spectrum_size \in Nat /\ spectrum_size >= NumOutputBins
    BY <1>1, <1>2, BinsAssumption, SMT
  <1>4. ConfigOK
    BY <1>3, BinsAssumption, SMT DEF Init, ConfigOK
  <1>5. AverageInv
    <2>1. 0 \in Nat /\ ~(0 > 0)
      BY SMT
    <2> QED BY <2>1 DEF Init, AverageInv
  <1>6. BandInv
    BY DEF Init, BandInv, SpectrumOK, Sent
  <1> QED BY <1>4, <1>5, <1>6 DEF Inv

\* A spectrum sent has the weight it should, whatever the count.
LEMMA SentWeight ==
    ASSUME NEW n \in Nat, n > 0, num_to_average \in Nat
    PROVE  /\ Rescaled(n, n).per \in Nat /\ Rescaled(n, n).per > 0
           /\ Rescaled(n, n).weight = Terms * Rescaled(n, n).per
  <1>1. CASE n = num_to_average
    BY <1>1, SMT DEF Rescaled, Terms
  <1>2. CASE n # num_to_average
    BY <1>2, SMT DEF Rescaled
  <1> QED BY <1>1, <1>2

LEMMA InvStep == Inv /\ [Next]_vars => Inv'
  <1> SUFFICES ASSUME ConfigOK, AverageInv, BandInv, [Next]_vars PROVE Inv'
    BY DEF Inv
  <1>1. /\ ConfigOK' /\ NumOutputBins' = NumOutputBins /\ Terms' = Terms
        /\ FirstOutputIndex' = FirstOutputIndex
        /\ spectrum_size' = spectrum_size
    <2>1. UNCHANGED config
      BY DEF Next, Initialize, HandleStart, HandleRun, HandleStop, Broadcast, vars
    <2> QED BY <2>1 DEF config, ConfigOK, NumOutputBins, FirstOutputIndex,
                        CenterBin, UpperHalf, Terms
  <1>2. NumOutputBins \in Nat /\ NumOutputBins > 0 /\ num_to_average \in Nat
    BY NumOutputBinsRange, SMT DEF ConfigOK
  <1>3. CASE Initialize
    <2>1. /\ spectrum = NoSpectrum /\ shown = NoSpectrum
          /\ average_sum = 0 /\ ~running
      BY <1>2, <1>3, SMT DEF Initialize, AverageInv, BandInv, SpectrumOK
    <2>2. AverageInv'
      BY <1>1, <1>2, <1>3, <2>1, SMT DEF Initialize, InitializeAverager, AverageInv
    <2>3. BandInv'
      BY <1>3, <2>1 DEF Initialize, BandInv, SpectrumOK, Sent, NoSpectrum, broadcast_vars
    <2> QED BY <1>1, <2>2, <2>3 DEF Inv
  <1>4. CASE HandleStart
    <2>1. AverageInv'
      BY <1>1, <1>4, SMT DEF HandleStart, AverageInv
    <2>2. BandInv'
      BY <1>1, <1>4 DEF HandleStart, BandInv, SpectrumOK, Sent, broadcast_vars, NoSpectrum
    <2> QED BY <1>1, <2>1, <2>2 DEF Inv
  <1>5. CASE HandleRun
    <2>1. /\ running /\ first' = FirstOutputIndex /\ average_size' = array_size
          /\ UNCHANGED <<array_size, running, shown, minimum_frequency, maximum_frequency>>
      BY <1>5 DEF HandleRun, CopyBand, broadcast_vars
    <2>2. array_size = NumOutputBins /\ array_size # 0
      BY <1>2, <2>1, SMT DEF AverageInv
    <2>3. running' /\ running' \in BOOLEAN
      BY <2>1 DEF AverageInv
    <2>4. CASE /\ input_counter + 1 = num_to_average
               /\ SendOutput(array_size, average_sum + 1, input_counter + 1)
      <3>1. AverageInv'
        <4>1. 0 \in Nat /\ ~(0 > 0)
          BY SMT
        <4>2. average_sum' = 0 /\ input_counter' = 0
          BY <2>4 DEF SendOutput
        <4> QED BY <1>1, <2>1, <2>2, <2>3, <4>1, <4>2 DEF AverageInv
      <3>2. input_counter + 1 = average_sum + 1 /\ average_sum + 1 \in Nat /\ average_sum + 1 > 0
        BY SMT DEF AverageInv
      <3>3. SpectrumOK(spectrum)'
        <4> DEFINE n == average_sum + 1
        <4>1. spectrum' = [bins |-> array_size, weight |-> Rescaled(n, n).weight,
                           per |-> Rescaled(n, n).per]
          BY <2>4, <3>2 DEF SendOutput
        <4>2. n \in Nat /\ n > 0
          BY <3>2
        <4> HIDE DEF n
        <4> QED BY <1>1, <1>2, <2>1, <2>2, <4>1, <4>2, SentWeight DEF SpectrumOK
      <3>4. SpectrumOK(shown)'
        BY <1>1, <2>1, <2>2 DEF BandInv, SpectrumOK, NoSpectrum
      <3> QED BY <1>1, <2>1, <3>1, <3>3, <3>4 DEF Inv, BandInv, Sent, NoSpectrum
    <2>5. CASE /\ average_sum' = average_sum + 1
               /\ input_counter' = input_counter + 1
               /\ UNCHANGED spectrum
      <3>1. AverageInv'
        <4>1. average_sum' \in Nat /\ input_counter' = average_sum'
          BY <2>5, SMT DEF AverageInv
        <4> QED BY <1>1, <2>1, <2>2, <2>3, <4>1 DEF AverageInv
      <3>2. BandInv'
        BY <1>1, <2>1, <2>2, <2>5 DEF BandInv, SpectrumOK, Sent, NoSpectrum
      <3> QED BY <1>1, <3>1, <3>2 DEF Inv
    <2> QED BY <1>5, <2>4, <2>5 DEF HandleRun
  <1>6. CASE HandleStop
    <2>1. /\ running /\ running' = FALSE
          /\ UNCHANGED <<array_size, first, average_size, shown, minimum_frequency, maximum_frequency>>
      BY <1>6 DEF HandleStop, broadcast_vars
    <2>2. array_size = NumOutputBins /\ array_size # 0
      BY <1>2, <2>1, SMT DEF AverageInv
    <2>3. CASE input_counter > 0 /\ SendOutput(average_size, average_sum, input_counter)
      <3>1. AverageInv'
        <4>1. 0 \in Nat /\ ~(0 > 0)
          BY SMT
        <4>2. average_sum' = 0 /\ input_counter' = 0
          BY <2>3 DEF SendOutput
        <4> QED BY <1>1, <2>1, <2>2, <4>1, <4>2 DEF AverageInv
      <3>2. /\ input_counter = average_sum /\ average_sum \in Nat /\ average_sum > 0
            /\ average_size = array_size /\ first = FirstOutputIndex
        <4>1. input_counter = average_sum /\ average_sum \in Nat
          BY DEF AverageInv
        <4>2. average_sum > 0
          BY <2>3, <4>1
        <4> QED BY <4>1, <4>2 DEF AverageInv
      <3>3. spectrum' = [bins |-> array_size, weight |-> Rescaled(average_sum, average_sum).weight,
                         per |-> Rescaled(average_sum, average_sum).per]
        BY <2>3, <3>2 DEF SendOutput
      <3>4. SpectrumOK(spectrum)'
        BY <1>1, <1>2, <2>1, <2>2, <3>2, <3>3, SentWeight DEF SpectrumOK
      <3>5. SpectrumOK(shown)'
        BY <1>1, <2>1, <2>2 DEF BandInv, SpectrumOK, NoSpectrum
      <3> QED BY <1>1, <2>1, <3>1, <3>4, <3>5 DEF Inv, BandInv, Sent, NoSpectrum
    <2>4. CASE input_counter = 0 /\ UNCHANGED <<average_sum, input_counter, spectrum>>
      <3>1. AverageInv'
        <4>1. 0 \in Nat /\ ~(0 > 0)
          BY SMT
        <4>2. input_counter = average_sum
          BY DEF AverageInv
        <4>3. average_sum' = 0 /\ input_counter' = 0
          BY <2>4, <4>2
        <4> QED BY <1>1, <2>1, <2>2, <4>1, <4>3 DEF AverageInv
      <3>2. BandInv'
        BY <1>1, <2>1, <2>2, <2>4 DEF BandInv, SpectrumOK, Sent, NoSpectrum
      <3> QED BY <1>1, <3>1, <3>2 DEF Inv
    <2> QED BY <1>6, <2>3, <2>4 DEF HandleStop
  <1>7. CASE Broadcast
    <2>1. /\ spectrum # NoSpectrum /\ shown' = spectrum /\ spectrum' = NoSpectrum
          /\ minimum_frequency' = FirstOutputIndex * Ticks
          /\ maximum_frequency' = minimum_frequency' + spectrum_size * Ticks
          /\ UNCHANGED <<array_size, first, running, average_size, average_sum, input_counter>>
      BY <1>7 DEF Broadcast, average_vars, MinOutputFrequency
    <2>2. AverageInv'
      BY <1>1, <2>1 DEF AverageInv
    <2>3. BandInv'
      BY <1>1, <2>1 DEF BandInv, SpectrumOK, Sent, NoSpectrum
    <2> QED BY <1>1, <2>2, <2>3 DEF Inv
  <1>8. CASE UNCHANGED vars
    BY <1>1, <1>8 DEF vars, average_vars, broadcast_vars, Inv, AverageInv, BandInv,
                      SpectrumOK, Sent, NoSpectrum
  <1> QED BY <1>3, <1>4, <1>5, <1>6, <1>7, <1>8 DEF Next

LEMMA Invariance == Spec => []Inv
  BY InvInit, InvStep, PTL DEF Spec

\* Once the frequencies are broadcast they are those of the band.
LEMMA SentBand ==
    Inv /\ Sent => /\ array_size = NumOutputBins
                   /\ first = FirstOutputIndex
                   /\ minimum_frequency = FirstOutputIndex * Ticks
                   /\ maximum_frequency = minimum_frequency + spectrum_size * Ticks
  BY DEF Inv, BandInv, SpectrumOK, Sent

-----------------------------------------------------------------------------
(* The theorems.                                                           *)

\* What is copied and broadcast fits the array that was allocated.
THEOREM BinsTypeCorrect == Spec => []TypeOK
  <1>1. Inv => TypeOK
    <2> SUFFICES ASSUME Inv PROVE TypeOK
      OBVIOUS
    <2> USE BinsAssumption
    <2>1. /\ NumOutputBins \in 1 .. fft_size
          /\ FirstOutputIndex \in 0 .. UnsignedLimit - 1
          /\ fft_size \in Nat
      BY NumOutputBinsRange, FirstOutputIndexRange, SMT DEF Inv, ConfigOK
    <2>2. /\ array_size \in 0 .. fft_size /\ first \in 0 .. UnsignedLimit - 1
          /\ running \in BOOLEAN /\ average_sum \in Nat /\ input_counter \in Nat
      BY <2>1, SMT DEF Inv, AverageInv
    <2>3. average_size \in 0 .. spectrum_size
      BY <2>1, SMT DEF Inv, ConfigOK, AverageInv
    <2>4. ASSUME NEW s \in {spectrum, shown} \ {NoSpectrum}
          PROVE  s.bins = array_size /\ s.bins > 0
      BY <2>1, SMT DEF Inv, BandInv, SpectrumOK
    <2>5. Sent => minimum_frequency = first * Ticks
      BY SentBand
    <2> QED BY <2>2, <2>3, <2>4, <2>5 DEF TypeOK
  <1> QED BY <1>1, Invariance, PTL

\* However a spectrum comes to be sent, it is a sum of the same weight, that of
\* num-to-average chunks.
THEOREM WeightKept == Spec => []SpectrumWeight
  <1>1. Inv => SpectrumWeight
    BY DEF Inv, BandInv, SpectrumOK, SpectrumWeight, Sent
  <1> QED BY <1>1, Invariance, PTL

\* A band that fits the transform is around the frequency it was asked for.
THEOREM BandAround == Spec => []BandAroundFrequency
  <1>1. Inv => BandAroundFrequency
    <2> SUFFICES ASSUME Inv, Sent, Fits, Matching
                 PROVE  /\ first + array_size <= TransformedBins
                        /\ minimum_frequency <= centerish_freq
                        /\ centerish_freq < maximum_frequency
                        /\ LET off == 2 * centerish_freq
                                      - (minimum_frequency + maximum_frequency) IN
                           -2 * Ticks <= off /\ off <= 2 * Ticks
      BY DEF BandAroundFrequency
    <2> DEFINE n == NumOutputBins   c == CenterBin   h == n \div 2
               i == IF UpperHalf THEN 1 ELSE 0
    <2> USE BinsAssumption
    <2>1. ConfigOK /\ centerish_freq > 0 /\ c >= h /\ c + h < TransformedBins
      BY DEF Inv, Fits
    <2>2. n \in 1 .. fft_size /\ c \in 0 .. fft_size - 1 /\ i \in {0, 1}
      BY <2>1, NumOutputBinsRange, CenterBinRange
    <2>3. fft_size \in Nat /\ fft_size * Ticks \in Nat
      BY <2>1, SMT DEF ConfigOK
    <2>4. centerish_freq \in Nat /\ Ticks * c <= centerish_freq
                                 /\ centerish_freq < Ticks * c + Ticks
      BY <2>1, <2>3, CenterBinRange, SMT DEF ConfigOK
    <2>5. i = 0 \/ n % 2 = 0
      BY DEF UpperHalf
    <2>6. /\ array_size = n
          /\ first = c - h + i
          /\ minimum_frequency = (c - h + i) * Ticks
          /\ maximum_frequency = minimum_frequency + n * Ticks
      BY <2>1, SentBand, FirstOutputIndexExact DEF Matching
    <2>7. h \in Nat /\ (n = 2 * h \/ (n = 2 * h + 1 /\ i = 0))
      <3> HIDE DEF c, i
      <3>1. n \in Nat
        BY <2>2, <2>3, SMT
      <3>2. \A m \in Nat : m \div 2 \in Nat
                           /\ (m = 2 * (m \div 2) \/ m = 2 * (m \div 2) + 1)
                           /\ (m % 2 = 0 => m = 2 * (m \div 2))
        BY SMT
      <3> QED BY <2>5, <3>1, <3>2
    <2> HIDE DEF n, c, h, i
    <2>8. /\ n \in Nat /\ n > 0 /\ c \in Nat
          /\ minimum_frequency \in Int /\ maximum_frequency \in Int
      BY <2>2, <2>3, <2>6, <2>7, SMT
    <2>9. first + array_size <= TransformedBins
      <3>1. TransformedBins \in Nat
        BY <2>3, SMT DEF TransformedBins
      <3> QED BY <2>1, <2>2, <2>3, <2>6, <2>7, <3>1, SMT
    <2>10. /\ minimum_frequency <= centerish_freq
           /\ centerish_freq < maximum_frequency
           /\ -2 * Ticks <= 2 * centerish_freq - (minimum_frequency + maximum_frequency)
           /\ 2 * centerish_freq - (minimum_frequency + maximum_frequency) <= 2 * Ticks
      BY <2>2, <2>4, <2>6, <2>7, <2>8, BandArithmetic
    <2> QED BY <2>9, <2>10
  <1> QED BY <1>1, Invariance, PTL

\* The bandwidth asked for is rounded down to whole bins, but to one at least.
LEMMA WholeBins == Spec => []WholeBinsOfBandwidth
  <1>1. Inv => WholeBinsOfBandwidth
    <2> SUFFICES ASSUME Inv, Sent, Matching, 0 < min_output_bandwidth,
                        min_output_bandwidth <= fft_size * Ticks
                 PROVE  LET width == maximum_frequency - minimum_frequency IN
                        /\ width > min_output_bandwidth - Ticks
                        /\ width <= min_output_bandwidth \/ width = Ticks
      BY DEF WholeBinsOfBandwidth
    <2> DEFINE b == min_output_bandwidth   n == NumOutputBins
               width == maximum_frequency - minimum_frequency
    <2> USE BinsAssumption
    <2>1. fft_size \in Nat /\ fft_size >= 2 /\ fft_size * Ticks + Ticks \in Nat
      BY SMT DEF Inv, ConfigOK
    <2>2. b \in Nat
      BY <2>1, SMT DEF Inv, ConfigOK
    <2>3. n \in Nat /\ FirstOutputIndex \in Nat
      BY <2>1, NumOutputBinsRange, FirstOutputIndexRange, SMT DEF Inv
    <2>4. width = n * Ticks
      BY <2>3, SentBand, SMT DEF Matching
    <2>5. CASE b < Ticks
      <3>1. n = 1
        BY <2>1, <2>5, SMT DEF NumOutputBins
      <3> QED BY <2>2, <2>4, <2>5, <3>1, SMT
    <2>6. CASE b >= Ticks
      <3> DEFINE q == b \div Ticks
      <3>1. q \in Nat /\ Ticks * q <= b /\ b < Ticks * q + Ticks
        BY <2>2, Division
      <3>2. n = IF q > fft_size THEN fft_size ELSE q
        BY <2>2, <2>6, SMT DEF NumOutputBins
      <3> HIDE DEF q, n
      <3>3. ~(q > fft_size)
        <4>1. SUFFICES ASSUME q >= fft_size + 1 PROVE FALSE
          BY <2>1, <3>1, SMT
        <4>2. Ticks * q >= Ticks * (fft_size + 1)
          BY <2>1, <3>1, <4>1, SMT
        <4>3. Ticks * (fft_size + 1) > fft_size * Ticks
          BY <2>1, SMT
        <4> QED BY <2>1, <2>2, <3>1, <4>2, <4>3, SMT
      <3>4. width = Ticks * q
        BY <2>4, <3>1, <3>2, <3>3, SMT
      <3> HIDE DEF width
      <3>5. width > b - Ticks /\ width <= b
        BY <2>2, <3>1, <3>4, SMT
      <3> QED BY <3>5 DEF width
    <2> QED BY <2>2, <2>5, <2>6, SMT
  <1> QED BY <1>1, Invariance, PTL

\* With neither a frequency nor a bandwidth the band is the whole transform.
LEMMA WholeBand == Spec => []FullBand
  <1>1. Inv => FullBand
    <2> SUFFICES ASSUME Inv, Sent, Matching, centerish_freq = 0, min_output_bandwidth = 0,
                        fft_size % 2 = 0
                 PROVE  first = 0 /\ maximum_frequency = fft_size * Ticks
      BY DEF FullBand
    <2> USE BinsAssumption
    <2>1. ConfigOK /\ fft_size \in Nat /\ fft_size >= 2
      BY SMT DEF Inv, ConfigOK
    <2>2. NumOutputBins = fft_size /\ CenterBin = (fft_size - 1) \div 2 + 1
      BY SMT DEF NumOutputBins, CenterBin
    <2>3. CenterBin = fft_size \div 2 /\ fft_size \div 2 \in Nat
      BY <2>1, <2>2, SMT
    <2>4. (fft_size \div 2) * Ticks \in Nat
      BY <2>3, SMT
    <2>5. ~UpperHalf
      <3>1. 2 * (0 - (fft_size \div 2) * Ticks) <= 0
        BY <2>4, SMT
      <3>2. ~(2 * (0 - (fft_size \div 2) * Ticks) > Ticks)
        BY <2>4, <3>1, SMT
      <3> QED BY <2>2, <3>2 DEF UpperHalf
    <2>6. FirstOutputIndex = 0
      BY <2>1, <2>2, <2>3, <2>5, FirstOutputIndexExact, SMT
    <2>7. fft_size * Ticks \in Nat
      BY <2>1, SMT
    <2> QED BY <2>2, <2>6, <2>7, SentBand, SMT DEF Matching
  <1> QED BY <1>1, Invariance, PTL

\* For every transform the bandwidth is rounded down to whole bins (so it is not
\* always covered), and without one the band is the full one.
THEOREM BandwidthRounded == Spec => []BandwidthRoundedDown
  BY WholeBins, WholeBand, PTL DEF BandwidthRoundedDown

=============================================================================
