-------------------------- MODULE MCAccountSessions --------------------------
(* Instances of AccountSessions for TLC. *)
EXTENDS AccountSessions, TLC

CONSTANTS gita, lou, lou2, s1, s2

\* Lou's address may be registered once more when his account is deleted.
MCEmailOf == (gita :> "gita") @@ (lou :> "lou") @@ (lou2 :> "lou")

MCSymmetry == Permutations({s1, s2})

Seen(a) == state[a] # "absent" \/ a \in {slot[s].who : s \in Slots}

\* The second row of the address comes when the first one is there or about to
\* be, and goes on only where no code and no second sign-in is issued.
SecondRow == Seen(lou2) => Seen(lou) /\ codes = << >> /\ Len(tokens) < 2

\* Who is locked out can do less than others and nothing else, so that a lock-out
\* goes on only while no request is in progress.
LockedOut == locked # {} => \A s \in Slots : slot[s] = Free

MCBounds == SecondRow /\ LockedOut
=============================================================================
