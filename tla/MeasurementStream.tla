------------------------- MODULE MeasurementStream -------------------------
(***************************************************************************)
(* The pipeline of Measurement implements RecordStream: seen from the      *)
(* handler, reader thread, queue, resampler and burst buffer are one FIFO. *)
(***************************************************************************)
EXTENDS Measurement

\* The rows on their way in the session that runs, the oldest first, and the
\* one its reader thread has in its hand.
InFlight ==
  burst \o held \o (IF session = 0 THEN <<>> ELSE batch[session]) \o queue

InReader == IF session = 0 THEN <<>> ELSE inHand[session]

Stream == INSTANCE RecordStream WITH
  Capacity <- QueueCapacity, on <- running, arrived <- InReader,
  stream <- InFlight, out <- delivered

\* Every step of the threads and of the API calls is a step of the abstract
\* stream or leaves it unchanged: no order of steps makes the queue, the
\* resampler, the burst buffer and the flush reorder, repeat or leak data, and
\* a data set that record_queue_ has taken is thrown away by nothing but
\* stop_measurement().
ImplementsStream == Stream!Spec
=============================================================================
