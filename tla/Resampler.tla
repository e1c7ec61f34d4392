------------------------------ MODULE Resampler ------------------------------
(***************************************************************************)
(* The resampler of the driver (src/resampler.hpp) and the polyphase FIR   *)
(* filter under it (src/fir_resampler.hpp).  A stream comes in chunks of   *)
(* any size; the filter keeps the last rows and its phase from one chunk   *)
(* to the next, the resampler crops the rows that the filter's delay adds  *)
(* at both ends.                                                           *)
(*                                                                         *)
(* Row number n of the input has the value n, a zero added by the filter   *)
(* the value 0; a row of the output is the phase and the window of input   *)
(* values it is the weighted sum of.  The weights are left out.  One       *)
(* channel stands for all: they are fed rows of the same number.           *)
(***************************************************************************)
EXTENDS Integers, Sequences, SequencesExt

CONSTANTS
  RsHalfLength,  \* 10 in default_filter_length()
  RsMaxRate,     \* max_sample_rate(), 48000
  RsRates,       \* sample rates set in the driver, below RsMaxRate
  RsUps, RsDowns, RsModes,  \* options of other users (test/driver/resampler.cpp)
  RsChunks,      \* bound: sizes of chunks
  RsMaxFed       \* bound: rows of a stream

RsAssumption ==
  /\ RsHalfLength \in Nat \ {0, 1} /\ RsMaxRate \in Nat \ {0} /\ RsRates \subseteq Nat \ {0}
  /\ RsUps \subseteq Nat \ {0} /\ RsDowns \subseteq Nat \ {0}
  /\ RsModes \subseteq {"zero", "constant", "symmetric", "reflect", "periodic"}
  /\ RsChunks \subseteq Nat \ {0}

VARIABLES
  rsOptions,  \* Resampler_options
  rsState,    \* state_: the input values before the next chunk
  rsPhase, rsOffset, rsApplied,    \* coefs_phase_, apply_offset_, is_applied_
  rsSkip,     \* unskipped_leading_count
  rsRows,     \* the table that the last call has returned
  rsAt,       \* "on", "flushed" or "dead" (std::terminate)
  rsFirst, rsFed, rsMade, rsKept,  \* history: size of the first chunk, rows
                                   \* in, rows out of the filter, rows returned
  rsSized     \* history: the size of the buffer and what was written to it

filterVars == <<rsState, rsPhase, rsOffset, rsApplied>>
columnVars == <<rsSkip, rsRows, rsAt>>
rsVars == <<rsOptions, filterVars, columnVars, rsFirst, rsFed, rsMade, rsKept, rsSized>>

DefaultFilterLength(up, down) == 2 * RsHalfLength * (IF up > down THEN up ELSE down) + 1

\* What set_resampler() sets: the length stays what the constructor of the
\* options has computed for the factors 1 and 1.
DriverOptions(rate) ==
  LET gcd == CHOOSE d \in 1 .. rate :
               /\ rate % d = 0 /\ RsMaxRate % d = 0
               /\ \A e \in (d + 1) .. rate : ~(rate % e = 0 /\ RsMaxRate % e = 0)
  IN [up |-> rate \div gcd, down |-> RsMaxRate \div gcd, length |-> DefaultFilterLength(1, 1),
      mode |-> "zero", crop |-> TRUE]

ToolOptions ==
  {[up |-> u, down |-> d, length |-> DefaultFilterLength(u, d), mode |-> m, crop |-> c] :
     u \in RsUps, d \in RsDowns, m \in RsModes, c \in BOOLEAN}

\* coefs_per_phase_ - 1: the coefficients are padded to a multiple of the up
\* factor, by a whole multiple when there is nothing to pad.
History(o) == (o.length + (o.up - (o.length % o.up))) \div o.up - 1

\* output_sequence_size()
OutputSize(size) ==
  LET np == size * rsOptions.up IN
    np \div rsOptions.down
      + IF rsPhase + rsOptions.up * rsOffset < np % rsOptions.down THEN 1 ELSE 0

LeadingSkip(o) == ((History(o) * o.up + o.down - 1) \div o.down) \div 2

Zeros(n) == [i \in 1 .. n |-> 0]

RsInit ==
  /\ rsOptions \in {DriverOptions(r) : r \in RsRates} \cup ToolOptions
  /\ rsState = Zeros(History(rsOptions))
  /\ rsPhase = 0 /\ rsOffset = 0 /\ rsApplied = FALSE
  /\ rsSkip = IF rsOptions.crop THEN LeadingSkip(rsOptions) ELSE 0
  /\ rsRows = <<>> /\ rsAt = "on" /\ rsFirst = 0 /\ rsFed = 0 /\ rsMade = 0 /\ rsKept = 0
  /\ rsSized = <<0, 0>>

-----------------------------------------------------------------------------
\* The filter

ReflectLeft(s) ==
  IF Len(s) < 3 THEN s
  ELSE [Reverse(Append(Tail(s), Last(s))) EXCEPT ![1] = s[Len(s) - 1]]
ReflectRight(s) ==
  IF Len(s) < 3 THEN s
  ELSE [Append(Tail(Reverse(s)), s[1]) EXCEPT ![Len(s)] = s[2]]

\* The state buffer before the first chunk: what precedes the stream.
Extrapolated(chunk) ==
  LET count  == IF Len(chunk) < Len(rsState) THEN Len(chunk) ELSE Len(rsState)
      copied == Zeros(Len(rsState) - count) \o SubSeq(chunk, 1, count)
  IN CASE rsOptions.mode = "zero"      -> rsState
       [] rsOptions.mode = "constant"  -> [i \in DOMAIN rsState |-> chunk[1]]
       [] rsOptions.mode = "symmetric" -> Reverse(copied)
       [] rsOptions.mode = "reflect"   -> ReflectLeft(copied)
       [] rsOptions.mode = "periodic"  -> copied

\* What follows the stream.
Extra ==
  CASE rsOptions.mode = "zero"      -> Zeros(Len(rsState))
    [] rsOptions.mode = "constant"  -> [i \in DOMAIN rsState |-> Last(rsState)]
    [] rsOptions.mode = "symmetric" -> Reverse(rsState)
    [] rsOptions.mode = "reflect"   -> ReflectRight(rsState)
    [] rsOptions.mode = "periodic"  -> rsState

\* The loop over a chunk of this size: where each output is taken, and last
\* where the loop ends, behind the chunk.  A row of the input has at most as
\* many outputs as the up factor.
Advanced(c) ==
  LET phase == c.phase + rsOptions.down
  IN [in |-> c.in + phase \div rsOptions.up, phase |-> phase % rsOptions.up]
Cursors(size) ==
  LET at[k \in 0 .. size * rsOptions.up] ==
        IF k = 0 THEN [in |-> rsOffset, phase |-> rsPhase] ELSE Advanced(at[k - 1])
      end == Min({k \in DOMAIN at : at[k].in >= size})
  IN [k \in 1 .. end + 1 |-> at[k - 1]]

BugNextState(before, chunk) ==
  IF Len(chunk) < Len(before)
  THEN SubSeq(before, 1, Len(before) - Len(chunk)) \o chunk
  ELSE SubSeq(chunk, Len(chunk) - Len(before) + 1, Len(chunk))

\* The last values of the state and the chunk, whichever is shorter.
NextState(before, chunk) ==
  LET all == before \o chunk IN SubSeq(all, Len(chunk) + 1, Len(all))

\* Fir_resampler::apply() on a chunk that is not empty, after what precedes it.
Filter(before, chunk) ==
  LET last == Last(Cursors(Len(chunk))) IN
    /\ rsPhase' = last.phase
    /\ rsOffset' = last.in - Len(chunk)
    /\ rsState' = NextState(before, chunk)
    /\ rsApplied' = TRUE

\* The rows it writes.
Filtered(before, chunk) ==
  LET all == before \o chunk
      Made(c) == [phase |-> c.phase, window |-> SubSeq(all, c.in + 1, c.in + 1 + Len(before))]
      cursors == Front(Cursors(Len(chunk)))
  IN [k \in DOMAIN cursors |-> Made(cursors[k])]

-----------------------------------------------------------------------------
\* The resampler

\* The leading rows are cropped from the first calls, however many it takes.
Cropped(skip, rows) ==
  LET count == IF skip < Len(rows) THEN skip ELSE Len(rows)
  IN [rows |-> SubSeq(rows, count + 1, Len(rows)), left |-> skip - count]

\* apply(); an empty chunk changes nothing.
RsApply ==
  \E size \in RsChunks :
    LET chunk  == [i \in 1 .. size |-> rsFed + i]
        before == IF rsApplied THEN rsState ELSE Extrapolated(chunk)
        rows   == Filtered(before, chunk)
        result == Cropped(rsSkip, rows)
    IN /\ rsAt = "on" /\ rsFed + size <= RsMaxFed
       /\ Filter(before, chunk)
       /\ rsSized' = <<OutputSize(size), Len(rows)>>
       /\ rsRows' = result.rows /\ rsSkip' = result.left
       /\ rsFirst' = IF rsApplied THEN rsFirst ELSE size
       /\ rsFed' = rsFed + size /\ rsMade' = rsMade + Len(rows)
       /\ rsKept' = rsKept + Len(result.rows)
       /\ UNCHANGED <<rsOptions, rsAt>>

TrailingSkip(size) == (size + (size % 2)) \div 2

\* flush(): one more state of the filter, cropped at its end.  It asserts that
\* something is left, and an assertion that fails ends the process.
RsFlush ==
  LET size == OutputSize(Len(rsState))
      skip == IF rsOptions.crop THEN TrailingSkip(size) ELSE 0
      rows == Filtered(rsState, Extra)
  IN /\ rsAt = "on"
     /\ \/ /\ ~rsApplied
           /\ rsAt' = "flushed" /\ rsRows' = <<>>
           /\ UNCHANGED <<rsState, rsPhase, rsOffset, rsApplied, rsMade, rsKept, rsSized>>
        \/ /\ rsApplied /\ rsOptions.crop /\ skip >= size
           /\ rsAt' = "dead"
           /\ UNCHANGED <<rsState, rsPhase, rsOffset, rsApplied, rsRows, rsMade, rsKept, rsSized>>
        \/ /\ rsApplied /\ (rsOptions.crop => skip < size)
           /\ rsAt' = "flushed"
           /\ IF Extra = <<>> THEN UNCHANGED <<rsState, rsPhase, rsOffset, rsApplied>>
              ELSE Filter(rsState, Extra)
           /\ rsSized' = <<size, Len(rows)>>
           /\ rsRows' = SubSeq(rows, 1, size - skip)
           /\ rsMade' = rsMade + Len(rows) /\ rsKept' = rsKept + Len(rsRows')
     /\ UNCHANGED <<rsOptions, rsSkip, rsFirst, rsFed>>

RsNext == RsApply \/ RsFlush
RsSpec == RsInit /\ [][RsNext]_rsVars

-----------------------------------------------------------------------------
Ceiling(n, d) == (n + d - 1) \div d

\* The value at place p of the stream extended to both sides, for a stream of
\* which the first chunk fills the state.
Extended(p) ==
  LET h == History(rsOptions) IN
    CASE p \in 1 .. rsFed -> p
      [] p < 1 /\ rsOptions.mode = "zero" -> 0
      [] p < 1 /\ rsOptions.mode = "constant" -> 1
      [] p < 1 /\ rsOptions.mode = "symmetric" -> 1 - p
      [] p < 1 /\ rsOptions.mode = "reflect" -> 2 - p
      [] p < 1 /\ rsOptions.mode = "periodic" -> h + p
      [] p > rsFed /\ rsOptions.mode = "zero" -> 0
      [] p > rsFed /\ rsOptions.mode = "constant" -> rsFed
      [] p > rsFed /\ rsOptions.mode = "symmetric" -> 2 * rsFed + 1 - p
      [] p > rsFed /\ rsOptions.mode = "reflect" -> 2 * rsFed - p
      [] p > rsFed /\ rsOptions.mode = "periodic" -> p - h

\* Reflection knows one row too few: the farthest place has another value.
Farthest(p) == rsOptions.mode = "reflect" /\ p \in {1 - History(rsOptions), rsFed + History(rsOptions)}

\* How a stream is cut into chunks does not show: the row number k returned,
\* counted from the cropped ones, has the phase and the window that filtering
\* the whole extended stream at once gives it, and rows follow each other
\* without gap or repetition over all calls up to and including flush().
ChunksDoNotShow ==
  LET h    == History(rsOptions)
      from == (IF rsOptions.crop THEN LeadingSkip(rsOptions) ELSE 0) + rsKept - Len(rsRows)
  IN (rsSkip = 0 /\ (rsOptions.mode \in {"zero", "constant"} \/ (rsFirst >= h /\ h >= 3))) =>
       \A k \in DOMAIN rsRows :
         LET up == (from + k - 1) * rsOptions.down IN
           /\ rsRows[k].phase = up % rsOptions.up
           /\ \A j \in 1 .. h + 1 :
                LET p == up \div rsOptions.up - h + j
                IN Farthest(p) \/ rsRows[k].window[j] = Extended(p)

\* The buffer that a call allocates is filled exactly: the size computed ahead
\* agrees with what the filter's loop writes, at every phase and offset.
BuffersFit == rsSized[1] = rsSized[2]

\* A stream that outlasts the filter's delay keeps its length: after flush()
\* the rows returned are as many as the factors ask for, or one less.
LengthKept ==
  (rsAt = "flushed" /\ rsApplied /\ rsSkip = 0) =>
    LET wanted == Ceiling(rsFed * rsOptions.up, rsOptions.down) IN
      IF rsOptions.crop THEN rsKept \in {wanted - 1, wanted}
      ELSE rsKept = Ceiling((rsFed + History(rsOptions)) * rsOptions.up, rsOptions.down)

\* With a filter of the default length for its factors, flush() always has
\* more rows than it crops.
DefaultLengthSuffices ==
  rsOptions.length = DefaultFilterLength(rsOptions.up, rsOptions.down) => rsAt # "dead"

\* A measurement at any sample rate that the driver accepts ends without
\* ending the process (src/driver_settings.hpp:94).
FlushSurvives == rsAt # "dead"

\* Safety: chunks do not show, nothing is lost or added, every buffer is filled
\* exactly, and a filter of the default length survives flush(), after any
\* sequence of calls.
StreamIsWhole == ChunksDoNotShow /\ LengthKept /\ BuffersFit /\ DefaultLengthSuffices
=============================================================================
