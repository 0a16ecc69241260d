------------------------ MODULE MCDatumUncertainty ------------------------
(* TLC's instance of DatumUncertainty. *)
EXTENDS DatumUncertainty

\* A gale, a breeze and a calm, along one line and both ways.
MCWinds == {-40, -15, 0, 15, 40}
=============================================================================
