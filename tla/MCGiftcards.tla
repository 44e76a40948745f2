---------------------------- MODULE MCGiftcards ----------------------------
(* Two gift cards: neither covers the higher total alone, both do together, *)
(* and one covers the lower; the limit of the other is below its balance.  *)
EXTENDS Giftcards

CONSTANTS small, large

BalanceOf == [c \in Cards |-> IF c = small THEN 6 ELSE 7]
LimitOf   == [c \in Cards |-> IF c = small THEN 3 ELSE 0]

StoredRows == {[id |-> 100, card |-> small], [id |-> 101, card |-> large]}
=============================================================================
