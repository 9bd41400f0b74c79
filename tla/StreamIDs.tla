----------------------------- MODULE StreamIDs ------------------------------
(***************************************************************************)
(* The IDs of stream entries and how XADD generates them                   *)
(* (redis/stream/core.go).                                                 *)
(***************************************************************************)
EXTENDS Integers

CONSTANTS MaxMs, MaxSeq   \* the largest value of each uint64 half of an ID

ASSUME WidthAssumption == MaxMs \in Nat /\ MaxSeq \in Nat

StreamID == (0 .. MaxMs) \X (0 .. MaxSeq)
MinStreamID == <<0, 0>>
MaxStreamID == <<MaxMs, MaxSeq>>

\* a.Compare(b) < 0
Before(a, b) == a[1] < b[1] \/ (a[1] = b[1] /\ a[2] < b[2])

Later(a, b) == IF Before(a, b) THEN b ELSE a

\* The ID of an XADD with "*" at clock time now.  The clock may stand still or
\* go back.  MinStreamID, the result of a wrapped increment, is an error.
generateStreamID(last, now) ==
    CASE now > last[1] -> <<now, 0>>
      [] now <= last[1] /\ last[2] < MaxSeq -> <<last[1], last[2] + 1>>
      [] OTHER -> <<(last[1] + 1) % (MaxMs + 1), 0>>

\* The ID of an XADD with "ms-*"; a smaller ms is an error.
generateStreamIDWithMs(last, ms) ==
    CASE ms > last[1] -> <<ms, 0>>
      [] ms = last[1] -> <<ms, (last[2] + 1) % (MaxSeq + 1)>>
      [] OTHER -> MinStreamID
=============================================================================
