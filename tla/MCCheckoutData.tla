--------------------------- MODULE MCCheckoutData ---------------------------
(* Streets of up to three lines that match either expression, both, none,  *)
(* and that have an empty line.                                           *)
EXTENDS CheckoutData

CONSTANTS mc, vi

MCStreets ==
  {<< <<"word", "number">> >>,
   << <<"number", "short", "word">> >>,
   << <<"number", "number", "word", "number">> >>,
   << <<"odd", "number">>, <<"short">> >>,
   << <<"word">>, <<"number", "short">> >>,
   << <<"word">>, <<>> >>,
   << <<"word", "word">>, <<"number">>, <<"odd">> >>}

MCTerms == (mc :> {<<0, 2>>, <<5000, 3>>}) @@ (vi :> {<<5000, 3>>, <<9000, 6>>})
=============================================================================
