-------------------------------- MODULE Ring --------------------------------
(***************************************************************************)
(* The ring buffer of probe outcomes behind both loss windows: LossStats   *)
(* (dim/ping.go) and TCPStats (dim/tcp.go) hold the same three fields and  *)
(* update them the same way.  The Go slice is allocated on the first       *)
(* outcome with every slot at its zero value; a ring here has its slots    *)
(* from the start, and no slot beyond the valid prefix is ever counted.    *)
(***************************************************************************)
EXTENDS Naturals, FiniteSets

CONSTANTS Size,      \* number of slots
          Outcomes,  \* what a slot can hold
          Zero       \* the zero value of a slot

Slots == 0 .. Size - 1

Rings == [slots : [Slots -> Outcomes], pos : Slots, filled : BOOLEAN]

NewRing == [slots |-> [i \in Slots |-> Zero], pos |-> 0, filled |-> FALSE]

\* Mutant of Put: the wrap-around is only remembered until the next outcome.
PutForgetsWrap(r, o) ==
  LET next == (r.pos + 1) % Size
  IN  [slots |-> [r.slots EXCEPT ![r.pos] = o], pos |-> next, filled |-> next = 0]

\* Overwrite the slot at pos, advance it, and note the first wrap-around.
Put(r, o) ==
  LET next == (r.pos + 1) % Size
  IN  [slots  |-> [r.slots EXCEPT ![r.pos] = o],
       pos    |-> next,
       filled |-> r.filled \/ next = 0]

\* How many slots hold an outcome.
Valid(r) == IF r.filled THEN Size ELSE r.pos

\* The slots that hold an outcome in S, and their number.
Holding(r, S) == {i \in 0 .. Valid(r) - 1 : r.slots[i] \in S}

CountOf(r, S) == Cardinality(Holding(r, S))

=============================================================================
