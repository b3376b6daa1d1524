---------------------------- MODULE MCRecReview ----------------------------
(* Values for model-checking the dialogue of a review: the deadline leaves *)
(* room for two unanswered Sets, a Play and two probes.                    *)
EXTENDS RecReview
=============================================================================
