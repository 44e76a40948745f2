--------------------------- MODULE MCMultishipping ---------------------------
(* New cards and two other methods, together and in pairs. *)
EXTENDS Multishipping

CONSTANTS card, klarna, ideal

AllPages == {{card, klarna, ideal}, {card, klarna}, {klarna, ideal}}
=============================================================================
