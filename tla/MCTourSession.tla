---------------------------- MODULE MCTourSession ----------------------------
(* The instance of TourSession: a tour that joins and one that speaks. *)
EXTENDS TourSession, TLC

CONSTANTS join, voice

Steps == (join :> <<"load", "query">>) @@ (voice :> <<"load", "suggest", "audio">>)
Lookups == (join :> {"rates"}) @@ (voice :> {})
=============================================================================
