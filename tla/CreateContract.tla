--------------------------- MODULE CreateContract ---------------------------
(***************************************************************************)
(* What the deploy call is promised of one provider create: a request that *)
(* may land late, a resource, and one verdict.  An error that does not say *)
(* operation_may_continue closes the matter: nothing more will land.  One  *)
(* that does not say resource_may_exist means that nothing is there.       *)
(* Provisioning relies on this as its operator Honest.                     *)
(***************************************************************************)
VARIABLES landing, exists, verdict
vars == <<landing, exists, verdict>>

Verdict == [by : {"open", "result", "error", "cancelled"},
            mayExist : BOOLEAN, mayContinue : BOOLEAN]

\* Before the call has ended it promises nothing.
Open == [by |-> "open", mayExist |-> TRUE, mayContinue |-> TRUE]

Init == ~landing /\ ~exists /\ verdict = Open

Send == /\ ~landing /\ ~exists /\ verdict.mayContinue
        /\ landing' = TRUE /\ UNCHANGED <<exists, verdict>>

Land == /\ landing /\ verdict.mayContinue
        /\ landing' = FALSE /\ exists' = TRUE /\ UNCHANGED verdict

Drop == landing /\ landing' = FALSE /\ UNCHANGED <<exists, verdict>>

Remove == verdict # Open /\ exists' = FALSE /\ UNCHANGED <<landing, verdict>>

\* verdict' is primed: the promise is about the step that makes it.
Answer ==
    /\ verdict = Open /\ verdict' \in Verdict \ {Open}
    /\ verdict'.mayContinue \/ ~landing
    /\ verdict'.mayExist \/ ~exists
    /\ UNCHANGED <<landing, exists>>

\* The outstanding create turns out to be over (a cancelled one, drained).
Close == /\ verdict # Open /\ ~landing
         /\ verdict' = [verdict EXCEPT !.mayContinue = FALSE]
         /\ UNCHANGED <<landing, exists>>

Next == Send \/ Land \/ Drop \/ Remove \/ Answer \/ Close

Spec == Init /\ [][Next]_vars
=============================================================================
