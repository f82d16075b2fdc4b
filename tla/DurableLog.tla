------------------------------- MODULE DurableLog -------------------------------
(*****************************************************************************)
(* What the write path promises for every message that was written, whatever *)
(* happens to the consumer.  A message is owed from its XADD until it may be *)
(* forgotten; it may be forgotten when its row is kept in a Parquet file.    *)
(*                                                                           *)
(* There is no action for a delivery, a crash, a restart, a replay, a pause  *)
(* or a failed flush: they change nothing of what is owed and kept.  Only    *)
(* MAXLEN may drop a message, and never one of the newest MaxLen.            *)
(*****************************************************************************)
EXTENDS Integers

CONSTANT MaxLen

VARIABLES
    written,     \* how many messages were written: they are 1..written
    dropped,     \* the stream has dropped its entries up to this one
    owed,        \* messages that will be delivered, again or for the first time
    kept         \* messages with a row in a Parquet file

vars == <<written, dropped, owed, kept>>

Init == written = 0 /\ dropped = 0 /\ owed = {} /\ kept = {}

\* A message is written.  The stream may drop some more of its oldest entries: those
\* that were not delivered yet are owed no longer.
Append(t) ==
    /\ t = dropped \/ written + 1 - t >= MaxLen
    /\ written' = written + 1
    /\ dropped' = t
    /\ written' \in owed' /\ owed' \subseteq owed \cup {written'}
    /\ \A m \in owed \ owed' : dropped < m /\ m <= t
    /\ UNCHANGED kept

\* Rows reach the disk for good, and what was there already is forgotten.
Settle ==
    /\ kept \subseteq kept' /\ kept' \subseteq 1..written
    /\ owed' \subseteq owed /\ owed \ owed' \subseteq kept
    /\ UNCHANGED <<written, dropped>>

\* The operator destroys the group: all that the stream has is delivered again.
Again ==
    /\ owed' = (dropped + 1)..written
    /\ UNCHANGED <<written, dropped, kept>>

Next ==
    \/ \E t \in dropped..(written + 1) : Append(t)
    \/ Settle
    \/ Again

Spec == Init /\ [][Next]_vars

================================================================================
