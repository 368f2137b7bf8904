--------------------------- MODULE GovernedActions ---------------------------
(***************************************************************************)
(* What the governance of an action promises, whichever store implements   *)
(* it: an engagement is authorised once, with a number of units; each      *)
(* grant of an action takes one of them, is made once per action and never *)
(* after a withdrawal; only a granted action is launched, once, and ends   *)
(* once.                                                                   *)
(***************************************************************************)
EXTENDS Naturals

CONSTANTS Engagements, Actions

VARIABLES
    authorised, \* engagements that were given units
    free,       \* free[e]: the units e has left
    withdrawn,  \* engagements whose authorisation was withdrawn
    granted,    \* granted <<engagement, action>> pairs
    launched,   \* granted actions whose process was started
    ended       \* launched actions whose process is gone

vars == <<authorised, free, withdrawn, granted, launched, ended>>

Init ==
    /\ authorised = {}
    /\ free = [e \in Engagements |-> 0]
    /\ withdrawn = {}
    /\ granted = {}
    /\ launched = {}
    /\ ended = {}

\* A set of engagements gets its units; some may be withdrawn already.
Authorise(E) ==
    /\ E \cap authorised = {}
    /\ authorised' = authorised \cup E
    /\ free' \in [Engagements -> Nat]
    /\ \A e \in Engagements \ E : free'[e] = free[e]
    /\ withdrawn \subseteq withdrawn'
    /\ withdrawn' \subseteq withdrawn \cup E
    /\ UNCHANGED <<granted, launched, ended>>

Withdraw(e) ==
    /\ withdrawn' = withdrawn \cup {e}
    /\ UNCHANGED <<authorised, free, granted, launched, ended>>

Grant(k) ==
    /\ k \notin granted
    /\ k[1] \in authorised \ withdrawn
    /\ free[k[1]] > 0
    /\ free' = [free EXCEPT ![k[1]] = @ - 1]
    /\ granted' = granted \cup {k}
    /\ UNCHANGED <<authorised, withdrawn, launched, ended>>

Launch(k) ==
    /\ k \in granted \ launched
    /\ launched' = launched \cup {k}
    /\ UNCHANGED <<authorised, free, withdrawn, granted, ended>>

End(k) ==
    /\ k \in launched \ ended
    /\ ended' = ended \cup {k}
    /\ UNCHANGED <<authorised, free, withdrawn, granted, launched>>

Next ==
    \/ \E E \in SUBSET Engagements : Authorise(E)
    \/ \E e \in Engagements : Withdraw(e)
    \/ \E k \in Engagements \X Actions : Grant(k) \/ Launch(k) \/ End(k)

Spec == Init /\ [][Next]_vars

=============================================================================
