--------------------------- MODULE CommitConfirm ---------------------------
(***************************************************************************)
(* What a commit-confirmed change promises, whoever drives it: a router    *)
(* leaves its good configuration only for the one that is on offer, and    *)
(* only inside a trial; a trial ends by accepting what runs or by going    *)
(* back; and one that has left the good configuration does end.            *)
(***************************************************************************)
CONSTANTS Config, NoOffer

VARIABLES
  good,     \* the configuration to fall back to
  running,  \* the configuration in effect
  offer     \* what the trial is of, NoOffer outside a trial

vars == <<good, running, offer>>

TypeOK == {good, running} \subseteq Config /\ offer \in Config \union {NoOffer}

Init == good \in Config /\ running = good /\ offer = NoOffer

Open(c) == offer = NoOffer /\ offer' = c /\ UNCHANGED <<good, running>>
Try == offer # NoOffer /\ running' = offer /\ UNCHANGED <<good, offer>>
Accept == offer # NoOffer /\ good' = running /\ offer' = NoOffer /\ UNCHANGED running
Undo == offer # NoOffer /\ running' = good /\ offer' = NoOffer /\ UNCHANGED good

Next == (\E c \in Config : Open(c)) \/ Try \/ Accept \/ Undo

Safety == Init /\ [][Next]_vars
Spec == Safety /\ WF_vars(running # good /\ (Accept \/ Undo))
=============================================================================
