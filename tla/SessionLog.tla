------------------------------ MODULE SessionLog ------------------------------
(***************************************************************************)
(* The bounded log of one fake-shell session                                *)
(* (modules/fakeshell/logging.go).  A log is a record                       *)
(*   on       whether LogConfig.Enable chose a sessionLogger                *)
(*   given    the events passed to Log so far (history)                     *)
(*   records  what the file holds: [type, of], of the number of the event   *)
(*   bytes, events, trunc, closed, err  the fields of sessionLogger; err is *)
(*            writeErr # nil                                                *)
(*   writes   how many times Write was called                               *)
(* failAt is the number of the Write that fails, having written all but     *)
(* one of its bytes (a short write is the same error), 0 for none.          *)
(***************************************************************************)
EXTENDS Integers, Sequences

CONSTANTS MaxLogEventBytes, MaxLogEventsPerSession, MaxLogBytesPerSession,
          TruncationMarkerReserve,
          MarkerBytes,     \* the length of the truncation marker's line
          TooLargeBytes,   \* the length of the event_too_large line
          EventBytes,      \* an event without arguments and metadata
          MetadataBytes    \* one entry of its metadata

\* The lengths of the lines the code writes, against the constants it chose.
ASSUME LogSizes ==
  /\ {MaxLogEventBytes, MaxLogEventsPerSession, MaxLogBytesPerSession, TruncationMarkerReserve,
      MarkerBytes, TooLargeBytes, EventBytes, MetadataBytes} \subseteq Nat \ {0}
  /\ MarkerBytes <= TruncationMarkerReserve /\ MarkerBytes <= MaxLogEventBytes
  /\ TooLargeBytes <= MaxLogEventBytes
  /\ TruncationMarkerReserve <= MaxLogBytesPerSession

NewSessionLogger(enable) ==
  [on |-> enable, given |-> <<>>, records |-> <<>>, bytes |-> 0, events |-> 0,
   trunc |-> FALSE, closed |-> FALSE, err |-> FALSE, writes |-> 0]

\* l.w.Write and recordWriteResult: a failure keeps the bytes that were written
\* and stops the log; a full write counts as an event.
WriteLine(l, record, size, failAt) ==
  IF l.writes + 1 = failAt
  THEN [l EXCEPT !.writes = @ + 1, !.bytes = @ + size - 1, !.err = TRUE]
  ELSE [l EXCEPT !.writes = @ + 1, !.bytes = @ + size, !.events = @ + 1,
                 !.records = Append(@, record)]

\* marshalEvent: what the line of an event takes after its fields were bounded.
LineBytes(ev) == EventBytes + ev.args + MetadataBytes * ev.metadata

WriteTruncationMarker(l, failAt) ==
  [WriteLine(l, [type |-> "truncated", of |-> Len(l.given)], MarkerBytes, failAt) EXCEPT !.trunc = TRUE]

\* A mutant of ByteCeiling: no room is kept for the marker.
ByteCeilingWhole == MaxLogBytesPerSession

\* Events are admitted while the marker still fits behind them.
ByteCeiling == MaxLogBytesPerSession - TruncationMarkerReserve

\* sessionLogger.Log
Log(l, ev, failAt) ==
  LET taken == [l EXCEPT !.given = Append(@, ev)]
      oversized == LineBytes(ev) > MaxLogEventBytes
      size == IF oversized THEN TooLargeBytes ELSE LineBytes(ev)
      record == [type |-> IF oversized THEN "event_too_large" ELSE ev.type, of |-> Len(taken.given)]
  IN IF ~l.on THEN l
     ELSE IF l.closed \/ l.err \/ l.trunc THEN taken
     ELSE IF l.events >= MaxLogEventsPerSession \/ l.bytes + size > ByteCeiling
     THEN WriteTruncationMarker(taken, failAt)
     ELSE WriteLine(taken, record, size, failAt)

Close(l) == IF l.on THEN [l EXCEPT !.closed = TRUE] ELSE l

-----------------------------------------------------------------------------

\* The file never outgrows its cap; its records are the events in their order,
\* one for each (an event that was too large has a record saying so); and when an
\* event is missing, the file ends with the marker that says it was cut, unless a
\* write failed.
LogSound(l) ==
  LET marked == l.records # <<>> /\ l.records[Len(l.records)].type = "truncated"
      told == Len(l.records) - (IF marked THEN 1 ELSE 0)
  IN /\ l.bytes <= MaxLogBytesPerSession
     /\ \A i \in 1..told : /\ l.records[i].of = i
                           /\ l.records[i].type \in {l.given[i].type, "event_too_large"}
     /\ told < Len(l.given) => marked \/ l.err
=============================================================================
