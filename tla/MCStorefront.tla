---------------------------- MODULE MCStorefront ----------------------------
(* Checkout pages of two methods each, of pairs of scripts that meet in a    *)
(* way of their own.                                                        *)
EXTENDS Storefront

CONSTANTS card, token1, token2, method, wallet, cashapp, paypal, amazon, pos

KindOf ==
  [r \in Renderers |->
     CASE r = card -> "cc"
       [] r \in {token1, token2} -> "vault"
       [] r = method -> "pm"
       [] r = wallet -> "wallet"
       [] r = cashapp -> "cashapp"
       [] r = paypal -> "paypal"
       [] r = amazon -> "amazon"
       [] OTHER -> "pos"]

AllRenderers ==
  {card, token1, token2, method, wallet, cashapp, paypal, amazon, pos}

(* A terminal's button can be used whenever the page is not covered: it is  *)
(* the method that meets the others' gaps.                                 *)
Pairs ==
  {{card, token2}} \cup
  {{pos, r} : r \in {card, token1, method, wallet, cashapp, paypal, amazon}}

(* The component of Amazon Pay is built twice at a time. *)
Builds == [r \in Renderers |-> IF r = amazon THEN 2 ELSE 1]
=============================================================================
