------------------------------ MODULE BandWidth ------------------------------
(***************************************************************************)
(* BandWidth (common/src/band_width.rs): the meter of a connection.  It    *)
(* adds bytes up for a span of at least MinSpan milliseconds that begins   *)
(* with the first bytes after the last measurement, and divides by whole   *)
(* seconds.                                                                *)
(*                                                                         *)
(* The caller passes the time, which does not go back; 0, the mark of a    *)
(* span that has not begun, lies in 1970.                                  *)
(***************************************************************************)
EXTENDS Naturals

CONSTANTS
    Second,   \* milliseconds in a second: 1000
    MinSpan,  \* min_span_ms
    Lens,     \* numbers of bytes that are added
    LastNow,  \* bound: the last millisecond
    MaxBytes  \* bound: bytes in a span

\* A span shorter than a second would be divided by zero.
ASSUME MeterAssumption ==
    /\ Second \in Nat \ {0}
    /\ MinSpan \in Nat /\ MinSpan >= Second
    /\ Lens \subseteq Nat
    /\ LastNow \in Nat /\ MaxBytes \in Nat

VARIABLES
    now,             \* the caller's clock
    begin,           \* when the span began, 0 before it has
    bytesTotal,      \* bytes_total
    bytesPerSecond,  \* bytes_per_second
    span,            \* history: the bytes of the span and when they began
    measured         \* history: the bytes and milliseconds last measured

meterVars == <<now, begin, bytesTotal, bytesPerSecond, span, measured>>

NoSpan == [bytes |-> 0, from |-> 0]

MeterInit ==
    /\ now = 1
    /\ begin = 0 /\ bytesTotal = 0 /\ bytesPerSecond = 0
    /\ span = NoSpan
    /\ measured = [bytes |-> 0, ms |-> 0]

PassTime ==
    /\ now < LastNow
    /\ now' = now + 1
    /\ UNCHANGED <<begin, bytesTotal, bytesPerSecond, span, measured>>

Rate(bytes, ms) == bytes \div (ms \div Second)

BytesLeftKept(bytes) == bytes  \* mutant: the counter is not reset
BytesLeft(bytes) == 0

AddBytes(len) ==
    LET first == IF begin = 0 THEN now ELSE begin
        total == bytesTotal + len
        ms == now - first
        seen == [bytes |-> span.bytes + len,
                 from |-> IF span.from = 0 THEN now ELSE span.from]
    IN /\ total <= MaxBytes
       /\ \/ /\ ms < MinSpan
             /\ begin' = first
             /\ bytesTotal' = total
             /\ span' = seen
             /\ UNCHANGED <<bytesPerSecond, measured>>
          \/ /\ ms >= MinSpan
             /\ bytesPerSecond' = Rate(total, ms)
             /\ begin' = 0
             /\ bytesTotal' = BytesLeft(total)
             /\ span' = NoSpan
             /\ measured' = [bytes |-> seen.bytes, ms |-> now - seen.from]
       /\ UNCHANGED now

MeterNext == PassTime \/ \E len \in Lens : AddBytes(len)

MeterSpec == MeterInit /\ [][MeterNext]_meterVars

-----------------------------------------------------------------------------
(* Properties                                                              *)

\* The meter never shows a whole byte per second less than was added, and
\* cutting off the started second makes it show less than twice as much.
RateIsWithinTwice ==
    measured.ms > 0 =>
        /\ (bytesPerSecond + 1) * measured.ms > Second * measured.bytes
        /\ bytesPerSecond * measured.ms <= 2 * Second * measured.bytes
=============================================================================
