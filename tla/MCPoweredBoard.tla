----------------------------- MODULE MCPoweredBoard -----------------------------
(***************************************************************************)
(* The composition on small values, with the properties of what is only    *)
(* computed.  These are checked over samples, once, before any call.       *)
(***************************************************************************)
EXTENDS PoweredBoard, Clock

-----------------------------------------------------------------------------
\* A layout that reads what another one has written.
Inverts(reads, layout) ==
    \A v \in Single(FieldsOf(layout)) :
        LET back == Unpacked(reads, Packed(layout, v))
        IN  \A f \in FieldsOf(reads) : back[f] = v[f]

\* The header that beacon_read_multiple_ptr fills has the values that the board has put
\* into its registers by the comments of the register map, and so do the scalers of
\* beacon_read_status, each one at its place, also the last one, whose register is half
\* empty.  The other fields of a status and of the firmware information are read whole,
\* from bits of their own.  Nothing that is taken from a register is lost but the upper
\* three of the eight bits for the day of the firmware, which a day of a month leaves 0.
\* Each field of a setting is read back as itself, at any value.
RecordsTrue ==
    calls = 0 =>
    /\ Inverts(HeaderReads, HeaderLayout)
    /\ Inverts(ScalerReads, ScalerLayout) /\ FieldsOf(ScalerReads) = FieldsOf(ScalerLayout)
    /\ \A s \in Settings : \A v \in Single(FieldsOf(Writes[s])) :
           Unpacked(Reads[s], Packed(Writes[s], v)) = Held(s, v)
    /\ \A pieces \in {HeaderReads, ScalerReads, StatusReads, FwinfoReads} : ReadWhole(pieces)
    /\ \A pieces \in {HeaderReads, ScalerReads, StatusReads} : Lost(pieces) = {}
    /\ Lost(FwinfoReads) = {Field("day", 5)} \X (5 .. 7)

-----------------------------------------------------------------------------
Instants(secs) == [sec : secs, nsec : 0 .. NS - 1]

\* The start time that a reset takes is in the middle of the times before and after it,
\* and the approximate time of a trigger as far from its true time as the start time is
\* from that of the reset: at most half of what the reset took, and a nanosecond.
\* (While the sum of the two seconds fits 32 bits, that is until 2038; and but for the
\* triggers in the last ticks of a second, which are given one second too much.)
TimesTrue ==
    calls = 0 =>
    \A A, B \in Instants(0 .. 2) :
        Total(A) <= Total(B) /\ A.sec + B.sec < U32 =>
            LET start == AvgTime(A, B)
            IN  /\ Total(start) = (Total(A) + Total(B)) \div 2
                /\ start.nsec \in 0 .. NS
                /\ \A ticks \in 0 .. 2 * HZ :
                       LET t == ApproxTriggerTime(start, ticks)
                       IN  Total(t) = Total(start) + ((ticks * NS) \div HZ)
                                      + (IF RoundsUp(ticks) THEN NS ELSE 0)
=============================================================================
