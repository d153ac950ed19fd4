----------------------------- MODULE SubmitOnce -----------------------------
(***************************************************************************)
(* What the generation queue promises about one POST /prompt per           *)
(* generation, with no database, worker, cancellation or crash in sight:   *)
(* a generation waits, is being sent, and is then either known to be sent  *)
(* or in doubt.  The one request is made while it is being sent, nothing   *)
(* ever returns to waiting, and doubt is lifted without a second request.  *)
(***************************************************************************)
EXTENDS Naturals

CONSTANT Gen

VARIABLES state,   \* [Gen -> {"waiting", "sending", "sent", "doubt"}]
          sends    \* [Gen -> Nat], requests made

Init == /\ state \in [Gen -> {"waiting", "doubt"}]
        /\ sends = [g \in Gen |-> 0]

Move(g, from, to) == /\ state[g] = from
                     /\ state' = [state EXCEPT ![g] = to]
                     /\ UNCHANGED sends

Begin(g) == Move(g, "waiting", "sending")

Send(g) == /\ state[g] = "sending"
           /\ sends[g] = 0
           /\ sends' = [sends EXCEPT ![g] = 1]
           /\ UNCHANGED state

\* Only a generation whose request was made is recorded as sent.
Confirm(g) == sends[g] = 1 /\ Move(g, "sending", "sent")

\* After a restart several generations may come into doubt at once.
Doubt(G) == /\ G # {}
            /\ \A g \in G : state[g] = "sending"
            /\ state' = [g \in Gen |-> IF g \in G THEN "doubt" ELSE state[g]]
            /\ UNCHANGED sends

Resolve(g) == Move(g, "doubt", "sent")

\* Prompt ids found to disagree put a generation back in doubt.
Reopen(g) == Move(g, "sent", "doubt")

Next == \/ \E g \in Gen : Begin(g) \/ Send(g) \/ Confirm(g) \/ Resolve(g) \/ Reopen(g)
        \/ \E G \in SUBSET Gen : Doubt(G)

Spec == Init /\ [][Next]_<<state, sends>>
=============================================================================
