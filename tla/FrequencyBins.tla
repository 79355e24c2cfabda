---------------------------- MODULE FrequencyBins ----------------------------
(***************************************************************************)
(* What is in a spectrum: the band that frequency_transform cuts out of    *)
(* the transform (src/source/daq/frequency_transform.cc), chosen by a      *)
(* frequency and a least bandwidth; the sum that power_averager            *)
(* (src/source/daq/power_averager.cc) makes of the bands of a run and how  *)
(* it scales it; and what spectrum_relay says the frequencies are.         *)
(*                                                                         *)
(* Frequencies are counted in ticks, Ticks of them in the width of a bin   *)
(* (samples-per-sec / fft-size); the rounding of float is left out.        *)
(* Bin i is the frequencies from i * Ticks up to (i + 1) * Ticks.  Power   *)
(* is counted in chunks: every chunk adds its own, once, to each bin.      *)
(* The streams between the nodes are in SpectrumPath; here a chunk goes    *)
(* through transform and averager in a step, and one spectrum waits for    *)
(* the relay.                                                              *)
(***************************************************************************)
EXTENDS Integers

CONSTANTS
    Ticks,          \* ticks per bin
    MaxFftSize,     \* bound: fft-size
    UnsignedLimit,  \* UINT_MAX + 1
    MaxAverage,     \* bound: num-to-average
    MaxChunks,      \* bound: chunks summed up before a spectrum is sent
    MaxSpare        \* bound: bins of spectrum-size beyond those of the band

ASSUME BinsAssumption ==
    /\ Ticks \in Nat /\ Ticks > 1
    /\ MaxFftSize \in Nat /\ MaxFftSize > 1
    /\ UnsignedLimit \in Nat /\ UnsignedLimit > 2 * MaxFftSize
    /\ MaxAverage \in Nat /\ MaxChunks \in Nat /\ MaxSpare \in Nat

VARIABLES
    fft_size, centerish_freq, min_output_bandwidth, \* the configuration
    spectrum_size, num_to_average,
    array_size,     \* slots of the transform's output, 0 before initialize
    first,          \* first bin copied to it
    running,        \* between s_start and s_stop
    average_size, average_sum, input_counter,       \* power_averager's
    spectrum,       \* waits for the relay
    shown, minimum_frequency, maximum_frequency     \* as broadcast

config == <<fft_size, centerish_freq, min_output_bandwidth, spectrum_size, num_to_average>>
average_vars == <<average_size, average_sum, input_counter>>
broadcast_vars == <<shown, minimum_frequency, maximum_frequency>>
vars == <<config, array_size, first, running, average_vars, spectrum, broadcast_vars>>

\* Mutant: what std::min guards against.
NumOutputBinsUncut ==
    IF min_output_bandwidth = 0 THEN fft_size
    ELSE IF min_output_bandwidth < Ticks THEN 1
    ELSE min_output_bandwidth \div Ticks

\* Mutant: one bin too many.
NumOutputBinsMore ==
    LET wanted == min_output_bandwidth \div Ticks + 1 IN
    IF min_output_bandwidth = 0 \/ wanted > fft_size THEN fft_size ELSE wanted

\* num_output_bins: the bandwidth in bins, less 1, is truncated towards zero
\* before the 1 is added again, so that less than a bin gives 1.
NumOutputBins ==
    LET wanted == IF min_output_bandwidth < Ticks THEN 1
                  ELSE min_output_bandwidth \div Ticks IN
    IF min_output_bandwidth = 0 \/ wanted > fft_size THEN fft_size ELSE wanted

\* The bin of the frequency, or the middle of the full band.
CenterBin ==
    IF centerish_freq > 0 THEN centerish_freq \div Ticks
    ELSE (fft_size - 1) \div 2 + 1

\* Mutant: an odd number of bins.
UpperHalfOdd ==
    /\ NumOutputBins % 2 = 1
    /\ 2 * (centerish_freq - (NumOutputBins \div 2) * Ticks) > Ticks

\* "even number of bins && target is in upper half": but the distance is taken
\* from a frequency half a band above 0, not from the middle of the bin, so that
\* an even band well above 0 is always moved up.
UpperHalf ==
    /\ NumOutputBins % 2 = 0
    /\ 2 * (centerish_freq - (NumOutputBins \div 2) * Ticks) > Ticks

\* first_output_index, an unsigned number.
FirstOutputIndex ==
    (CenterBin - NumOutputBins \div 2 + (IF UpperHalf THEN 1 ELSE 0))
        % UnsignedLimit

NoSpectrum == [bins |-> 0, weight |-> 0, per |-> 0]

\* min_output_frequency.
MinOutputFrequency == FirstOutputIndex * Ticks

\* Any fft-size; a frequency and a bandwidth within the band of the transform.
\* spectrum-size "needs to match" the band (src/examples): a larger one has bins
\* to spare, a smaller one is overrun by the copy and is no configuration here.
Init ==
    /\ fft_size \in 2 .. MaxFftSize
    /\ centerish_freq \in 0 .. fft_size * Ticks - 1
    /\ min_output_bandwidth \in 0 .. fft_size * Ticks + Ticks
    /\ \E spare \in 0 .. MaxSpare : spectrum_size = NumOutputBins + spare
    /\ num_to_average \in 0 .. MaxAverage
    /\ array_size = 0 /\ first = 0 /\ running = FALSE
    /\ average_size = 0 /\ average_sum = 0 /\ input_counter = 0
    /\ spectrum = NoSpectrum /\ shown = NoSpectrum
    /\ minimum_frequency = 0 /\ maximum_frequency = 0

\* The averager allocates its sum and its output's arrays, by configuration.
InitializeAverager == average_size' = spectrum_size

\* The transform allocates its output's arrays.
Initialize ==
    /\ array_size = 0
    /\ array_size' = NumOutputBins
    /\ InitializeAverager
    /\ UNCHANGED <<config, first, running, average_sum, input_counter, spectrum, broadcast_vars>>

\* s_start, passed on by the transform; handle_start.
HandleStart ==
    /\ array_size > 0 /\ ~running
    /\ running' = TRUE
    /\ average_sum' = 0 /\ input_counter' = 0
    /\ UNCHANGED <<config, array_size, first, average_size, spectrum, broadcast_vars>>

\* max(1, num_to_average): the chunks a spectrum is scaled to.
Terms == IF num_to_average = 0 THEN 1 ELSE num_to_average

\* Power of a bin, in chunks: weight / per.  Any count but the full one is
\* scaled to the weight of a full one.
Rescaled(sum, count) ==
    IF count = num_to_average THEN [weight |-> sum, per |-> 1]
    ELSE [weight |-> Terms * sum, per |-> count]

\* Mutant: the sum is not filled with 0 after it is copied.
SendOutputKept(size, sum, count) ==
    /\ spectrum = NoSpectrum
    /\ spectrum' = [bins |-> size, weight |-> Rescaled(sum, count).weight,
                    per |-> Rescaled(sum, count).per]
    /\ average_sum' = sum /\ input_counter' = 0

\* send_output, with the sum it finds; size is that of the averager's array,
\* whose bytes are copied.
SendOutput(size, sum, count) ==
    /\ spectrum = NoSpectrum
    /\ spectrum' = [bins |-> size, weight |-> Rescaled(sum, count).weight,
                    per |-> Rescaled(sum, count).per]
    /\ average_sum' = 0 /\ input_counter' = 0

\* The transform's s_run, but for the transform.
CopyBand == first' = FirstOutputIndex

\* s_run: the transform copies the band; handle_run resizes the sum to it, adds
\* it, and sends the spectrum when the count is full.
HandleRun ==
    /\ running /\ input_counter < MaxChunks
    /\ CopyBand
    /\ average_size' = array_size
    /\ \/ /\ input_counter + 1 = num_to_average
          /\ SendOutput(array_size, average_sum + 1, input_counter + 1)
       \/ /\ input_counter + 1 # num_to_average
          /\ average_sum' = average_sum + 1
          /\ input_counter' = input_counter + 1
          /\ UNCHANGED spectrum
    /\ UNCHANGED <<config, array_size, running, broadcast_vars>>

\* s_stop: handle_stop sends what there is.
HandleStop ==
    /\ running
    /\ running' = FALSE
    /\ \/ /\ input_counter > 0
          /\ SendOutput(average_size, average_sum, input_counter)
       \/ /\ input_counter = 0
          /\ UNCHANGED <<average_sum, input_counter, spectrum>>
    /\ UNCHANGED <<config, array_size, first, average_size, broadcast_vars>>

\* The relay broadcasts as many bins as the averager's output has, and the
\* frequencies: the least from the transform (set at s_start), the maximum
\* from the size of that output.
Broadcast ==
    /\ spectrum # NoSpectrum
    /\ shown' = spectrum
    /\ minimum_frequency' = MinOutputFrequency
    /\ maximum_frequency' = minimum_frequency' + spectrum_size * Ticks
    /\ spectrum' = NoSpectrum
    /\ UNCHANGED <<config, array_size, first, running, average_vars>>

Next == Initialize \/ HandleStart \/ HandleRun \/ HandleStop \/ Broadcast

Spec == Init /\ [][Next]_vars

-----------------------------------------------------------------------------
(* Properties.                                                             *)

\* The transform of real input has the bins up to half its size (fftwf r2c);
\* the rest of its array is never written.
TransformedBins == fft_size \div 2 + 1

\* The band asked for, on whole bins, is within what is transformed.
Fits ==
    /\ centerish_freq > 0 /\ min_output_bandwidth > 0
    /\ CenterBin >= NumOutputBins \div 2
    /\ CenterBin + NumOutputBins \div 2 < TransformedBins

\* spectrum-size is the number of bins of the band.
Matching == spectrum_size = array_size

Sent == shown # NoSpectrum

\* The arrays have a bin at least and no more than the transform, what is
\* copied from one to the next fits it.
TypeOK ==
    /\ array_size \in 0 .. fft_size
    /\ first \in 0 .. UnsignedLimit - 1
    /\ running \in BOOLEAN
    /\ average_size \in 0 .. spectrum_size
    /\ average_sum \in Nat /\ input_counter \in Nat
    /\ \A s \in {spectrum, shown} \ {NoSpectrum} :
           s.bins = array_size /\ s.bins > 0
    /\ Sent => minimum_frequency = first * Ticks

\* A band that fits is cut out of the bins the transform writes, and the
\* frequency asked for is within what is broadcast, at most a bin from its
\* middle.
BandAroundFrequency ==
    Sent /\ Fits /\ Matching =>
        /\ first + array_size <= TransformedBins
        /\ minimum_frequency <= centerish_freq
        /\ centerish_freq < maximum_frequency
        /\ LET off == 2 * centerish_freq - (minimum_frequency + maximum_frequency) IN
           -2 * Ticks <= off /\ off <= 2 * Ticks

\* The whole bins that the bandwidth asked for has room for, and one where it
\* has room for none: the band is short of it by less than a bin.
WholeBinsOfBandwidth ==
    Sent /\ Matching
    /\ 0 < min_output_bandwidth /\ min_output_bandwidth <= fft_size * Ticks =>
        LET width == maximum_frequency - minimum_frequency IN
        /\ width > min_output_bandwidth - Ticks
        /\ width <= min_output_bandwidth \/ width = Ticks

\* With neither set the band is the whole of an even transform, which is twice
\* what the transform of real input writes.
FullBand ==
    Sent /\ Matching
    /\ centerish_freq = 0 /\ min_output_bandwidth = 0 /\ fft_size % 2 = 0 =>
        first = 0 /\ maximum_frequency = fft_size * Ticks

\* The bandwidth is rounded down to whole bins, and without one the band is
\* the full one.
BandwidthRoundedDown == WholeBinsOfBandwidth /\ FullBand

\* What the class says of it: a number of bins "covering at least this width".
\* No run checks it: num_output_bins rounds down, so that it is false of every
\* bandwidth above a bin's that is not a number of bins.
BandCoversBandwidth ==
    Sent /\ Matching /\ min_output_bandwidth <= fft_size * Ticks =>
        maximum_frequency - minimum_frequency >= min_output_bandwidth

\* Every spectrum broadcast is a sum, not the average the class speaks of, and
\* always of the same weight: that of num-to-average chunks (of one with
\* num-to-average 0), whether its count was full or the run cut it short.
\* Nothing of a spectrum sent before is in it, and none of its own is lost.
SpectrumWeight == Sent => shown.per > 0 /\ shown.weight = Terms * shown.per

=============================================================================
