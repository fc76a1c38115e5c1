---------------------------- MODULE SlidingWindow ----------------------------
(***************************************************************************)
(* What a loss window promises: the figures it publishes are those of the  *)
(* last Size outcomes since the window was created, oldest first.          *)
(***************************************************************************)
EXTENDS Naturals, Sequences, FiniteSets

CONSTANTS Size, Outcomes, Bad

VARIABLES recent,   \* the last Size outcomes, oldest first
          total,    \* published number of outcomes
          lost      \* published number of bad ones

vars == <<recent, total, lost>>

\* The window after one more outcome: the oldest one falls out when it is full.
Slide(w, o) == Append(IF Len(w) < Size THEN w ELSE Tail(w), o)

LostIn(w) == Cardinality({k \in 1 .. Len(w) : w[k] = Bad})

Init == recent = << >> /\ total = 0 /\ lost = 0

Record(o) == /\ recent' = Slide(recent, o)
             /\ total' = Len(recent')
             /\ lost' = LostIn(recent')

Clear == recent' = << >> /\ total' = 0 /\ lost' = 0

Next == Clear \/ \E o \in Outcomes : Record(o)

Spec == Init /\ [][Next]_vars

=============================================================================
