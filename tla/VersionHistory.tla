--------------------------- MODULE VersionHistory ---------------------------
(***************************************************************************)
(* What the documents of a name promise of their versions, without         *)
(* requests, tasks, statuses or texts: the files a document has had, in    *)
(* order.  A history is only ever added to.  What is added is a file no    *)
(* document has had or, when an old version is restored, one of the same   *)
(* document's; nothing is restored into another document, no version is    *)
(* replaced, and a document that is dropped does not come back.            *)
(***************************************************************************)
EXTENDS Naturals, Sequences

CONSTANTS Docs, Files

VARIABLES
  history,   \* of each document, the file of each version; empty if it is gone
  used       \* documents that there are or were

historyVars == << history, used >>

\* The files some document has.
Held == {f \in Files : \E d \in Docs : \E n \in DOMAIN history[d] : history[d][n] = f}

HistoryInit ==
  /\ history = [d \in Docs |-> << >>]
  /\ used = {}

\* The file is one that no document has.
Open(d, f) ==
  /\ d \notin used
  /\ history' = [history EXCEPT ![d] = << f >>]
  /\ used' = used \cup {d}

Extend(d, f) ==
  /\ history[d] # << >>
  /\ history' = [history EXCEPT ![d] = Append(@, f)]
  /\ UNCHANGED used

\* Any version but the current one becomes the next.
Restore(d, n) ==
  /\ n \in 1..(Len(history[d]) - 1)
  /\ history' = [history EXCEPT ![d] = Append(@, @[n])]
  /\ UNCHANGED used

Drop(D) ==
  /\ history' = [d \in Docs |-> IF d \in D THEN << >> ELSE history[d]]
  /\ UNCHANGED used

HistoryNext ==
  /\ history' # history
  /\ \/ \E f \in Files \ Held, d \in Docs : Open(d, f) \/ Extend(d, f)
     \/ \E d \in Docs : \E n \in 1..Len(history[d]) : Restore(d, n)
     \/ \E D \in SUBSET Docs : Drop(D)

HistorySpec == HistoryInit /\ [][HistoryNext]_historyVars
=============================================================================
