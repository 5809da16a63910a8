----------------------------- MODULE FetchOnce -----------------------------
(***************************************************************************)
(* What one walk promises its resolver about fetching: every coordinate    *)
(* has one answer, decided once, and whoever asks is told that answer or,  *)
(* when the walk is being stopped, that it gave up.  How the answer comes  *)
(* about - leads, waits, recovered panics - is not visible here.           *)
(***************************************************************************)
CONSTANTS Callers, Coords, Answers, Undecided, GaveUp

VARIABLES answer,    \* coordinate -> the decided answer, or Undecided
          asking,    \* the callers with a call outstanding
          want,      \* the coordinate each caller asked for last
          told,      \* what each caller's last call was told
          stopping   \* the walk is being stopped

vars == <<answer, asking, want, told, stopping>>

Init ==
    /\ answer = [c \in Coords |-> Undecided]
    /\ asking = {}
    /\ want \in [Callers -> Coords]
    /\ told = [p \in Callers |-> Undecided]
    /\ stopping = FALSE

Ask(p, c) ==
    /\ p \notin asking
    /\ asking' = asking \cup {p}
    /\ want' = [want EXCEPT ![p] = c]
    /\ told' = [told EXCEPT ![p] = Undecided]
    /\ UNCHANGED <<answer, stopping>>

Decide(c) ==
    /\ answer[c] = Undecided
    /\ \E a \in Answers : answer' = [answer EXCEPT ![c] = a]
    /\ UNCHANGED <<asking, want, told, stopping>>

Tell(p) ==
    /\ p \in asking
    /\ answer[want[p]] # Undecided
    /\ told' = [told EXCEPT ![p] = answer[want[p]]]
    /\ asking' = asking \ {p}
    /\ UNCHANGED <<answer, want, stopping>>

GiveUp(p) ==
    /\ p \in asking
    /\ stopping
    /\ told' = [told EXCEPT ![p] = GaveUp]
    /\ asking' = asking \ {p}
    /\ UNCHANGED <<answer, want, stopping>>

BeginStop ==
    /\ ~stopping
    /\ stopping' = TRUE
    /\ UNCHANGED <<answer, asking, want, told>>

Next ==
    \/ \E p \in Callers : \/ \E c \in Coords : Ask(p, c)
                          \/ Tell(p)
                          \/ GiveUp(p)
    \/ \E c \in Coords : Decide(c)
    \/ BeginStop

Spec == Init /\ [][Next]_vars
===========================================================================
