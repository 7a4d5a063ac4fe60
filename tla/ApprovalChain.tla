---------------------------- MODULE ApprovalChain ----------------------------
(***************************************************************************)
(* What the response workflow promises, without requests, rows or roles:   *)
(* a text climbs a chain of gates, each passed by someone who neither      *)
(* wrote it nor judged it in its present form, and only a text that        *)
(* cleared the whole chain is put on file.                                 *)
(***************************************************************************)
EXTENDS Naturals, Sequences

CONSTANTS People,   \* whoever may write or judge
          Chain     \* the gates, first to last

VARIABLES
  place,     \* where it is: none, draft, a gate, approved or withdrawn
  makers,    \* who opened it or wrote any of it
  judges,    \* who judged it in its present form
  cleared,   \* the gates that passed it in its present form
  filed      \* it is the answer on file with the authority

chainVars == << place, makers, judges, cleared, filed >>

Gates    == 1..Len(Chain)
Gate(g)  == [kind |-> "gate", number |-> g]
Place(k) == [kind |-> k, number |-> 0]
AtGate   == \E g \in Gates : place = Gate(g)

\* One gate up; the gate above the last is approval.
Above(g) == IF g = Len(Chain) THEN Place("approved") ELSE Gate(g + 1)
\* One gate down; below the first is the draft.
Below(g) == IF g = 1 THEN Place("draft") ELSE Gate(g - 1)

ChainInit ==
  /\ place = Place("none")
  /\ makers = {} /\ judges = {} /\ cleared = {}
  /\ filed = FALSE

Open(p) ==
  /\ place = Place("none")
  /\ place' = Place("draft")
  /\ makers' = {p}
  /\ UNCHANGED << judges, cleared, filed >>

\* A new form of the text: no earlier judgement counts for it.
Revise(p) ==
  /\ place = Place("draft")
  /\ makers' = makers \cup {p}
  /\ judges' = {} /\ cleared' = {}
  /\ UNCHANGED << place, filed >>

Enter ==
  /\ place = Place("draft")
  /\ place' = Gate(1)
  /\ UNCHANGED << makers, judges, cleared, filed >>

Judge(p) ==
  /\ p \notin makers \cup judges
  /\ judges' = judges \cup {p}
  /\ UNCHANGED << makers, filed >>

\* A gate is only reached by a text every gate below it has cleared.
Pass(p, g) ==
  /\ place = Gate(g)
  /\ \A below \in 1..(g - 1) : Chain[below] \in cleared
  /\ Judge(p)
  /\ cleared' = cleared \cup {Chain[g]}
  /\ place' = Above(g)

SendBack(p, g) ==
  /\ place = Gate(g)
  /\ Judge(p)
  /\ place' = Below(g)
  /\ UNCHANGED cleared

GiveUp ==
  /\ AtGate \/ place = Place("draft")
  /\ place' = Place("withdrawn")
  /\ UNCHANGED << makers, judges, cleared, filed >>

File ==
  /\ ~filed
  /\ place = Place("approved")
  /\ \A g \in Gates : Chain[g] \in cleared
  /\ filed' = TRUE
  /\ UNCHANGED << place, makers, judges, cleared >>

\* The authority asks for a clarification: the notice is open again.
Unfile ==
  /\ filed
  /\ filed' = FALSE
  /\ UNCHANGED << place, makers, judges, cleared >>

ChainNext ==
  \/ \E p \in People : Open(p) \/ Revise(p)
  \/ \E p \in People, g \in Gates : Pass(p, g) \/ SendBack(p, g)
  \/ Enter \/ GiveUp \/ File \/ Unfile

ChainSpec == ChainInit /\ [][ChainNext]_chainVars
=============================================================================
