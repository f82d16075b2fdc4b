------------------------------ MODULE OnlineStore ------------------------------
(*****************************************************************************)
(* What the online store promises to those who read it, whatever happens to  *)
(* segments, pointers and processes behind it.  A message is served when the *)
(* segment that schema:current names reflects its write; it is confirmed     *)
(* when it left the consumer group's pending list, so that nothing will      *)
(* replay it any more.                                                       *)
(*                                                                           *)
(* There is no action for a schema upgrade: to a reader an upgrade is a step *)
(* that changes nothing but who holds the store.  And nobody takes the store *)
(* from those who use it: it goes with its last holder.                      *)
(*****************************************************************************)
EXTENDS FiniteSets

CONSTANT Msgs

VARIABLES
    up,          \* does schema:current name a segment that is completely filled?
    served,      \* messages the named segment reflects ({} when not up)
    confirmed,   \* messages that are acknowledged
    holders      \* who has the named segment open ({} when not up)

vars == <<up, served, confirmed, holders>>

TypeOK ==
    /\ up \in BOOLEAN
    /\ served \subseteq Msgs
    /\ confirmed \subseteq Msgs
    /\ up <=> holders # {}

Init == up = TRUE /\ served = {} /\ confirmed = {} /\ holders # {}

\* The consumer applies a message to the segment readers see.
Serve(m) ==
    /\ up
    /\ served' = served \cup {m}
    /\ UNCHANGED <<up, confirmed, holders>>

\* Messages are acknowledged: a store that is up must already serve them.
Confirm(S) ==
    /\ up => S \subseteq served
    /\ confirmed' = confirmed \cup S
    /\ UNCHANGED <<up, served, holders>>

\* Processes open and close the segment, or an upgrade hands the store over: it
\* always has a holder.
Turnover ==
    /\ up
    /\ holders' # {}
    /\ UNCHANGED <<up, served, confirmed>>

\* The pointer goes away, with the last holder of its segment.
Withdraw ==
    /\ up
    /\ \E p \in holders : holders = {p}
    /\ up' = FALSE
    /\ served' = {}
    /\ holders' = {}
    /\ UNCHANGED confirmed

\* Hydration rebuilds the store from the offline side: nothing confirmed misses.
Restore(S) ==
    /\ ~up
    /\ confirmed \subseteq S
    /\ up' = TRUE
    /\ served' = S
    /\ holders' # {}
    /\ UNCHANGED confirmed

Next ==
    \/ \E m \in Msgs : Serve(m)
    \/ \E S \in SUBSET Msgs : Confirm(S) \/ Restore(S)
    \/ Turnover \/ Withdraw

Spec == Init /\ [][Next]_vars

================================================================================
