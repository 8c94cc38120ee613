-------------------------- MODULE EngineRefinement --------------------------
(***************************************************************************)
(* The transaction engine implements CommitConfirm.  A trial lasts from    *)
(* commit.sh marking the state to confirm.sh marking it, or to the end of  *)
(* the restore that rollback.sh runs.                                      *)
(***************************************************************************)
EXTENDS EngineProperties

CONSTANT NoOffer  \* what is on offer outside a trial

ASSUME OfferAssumption == NoOffer \notin Configs

OnTrial == state = "committed" \/ Restoring

Abstract == INSTANCE CommitConfirm
              WITH Config <- Configs,
                   good <- IF OnTrial THEN snap.config ELSE live,
                   running <- live,
                   offer <- IF OnTrial THEN Offered ELSE NoOffer

\* The router's own steps, and nothing of the provider's, are enough for the trial to end.
ImplementsCommitConfirm == Abstract!Spec
=============================================================================
