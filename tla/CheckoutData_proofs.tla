--------------------------- MODULE CheckoutData_proofs ---------------------------
(***************************************************************************)
(* For any streets, settings, totals and installments: splitting a street  *)
(* keeps its lines, amounts survive the way to the server, and what        *)
(* the card form offers is what the server accepts.  What the recursion of *)
(* FlattenSeq computes is proved by induction over the number of lines,    *)
(* with the predicate as a set.                                            *)
(***************************************************************************)
EXTENDS CheckoutData, FiniteSums, SequenceTheorems

(* What is offered are plans of the card's type, for the total at the time. *)
PlansOfType == installments \subseteq Plans(creditCardType, offered)

IInv == TypeOK /\ PlansOfType

(* Plans are pairs of an amount and a number. *)
LEMMA PlansType ==
  ASSUME NEW type, NEW amount
  PROVE  Plans(type, amount) \subseteq Nat \X Nat
<1>1. CASE type \in Brands
  <2>1. Terms[type] \subseteq Nat \X (Nat \ {0})
    BY <1>1, DataAssumption
  <2> QED
    BY <1>1, <2>1 DEF Plans
<1>2. CASE type \notin Brands
  BY <1>2 DEF Plans
<1> QED
  BY <1>1, <1>2

(* The server accepts every plan for an amount, also for a greater one. *)
LEMMA PlansValid ==
  ASSUME NEW type, NEW amount \in Nat, NEW more \in Nat, more >= amount,
         NEW t \in Plans(type, amount)
  PROVE  InstallmentsValid(t[2], type, more)
<1>1. type \in Brands /\ t \in Terms[type] /\ amount >= t[1]
  BY DEF Plans
<1>2. t[1] \in Nat
  BY <1>1, DataAssumption
<1> QED
  BY <1>1, <1>2 DEF InstallmentsValid

(* Amounts are numbers. *)
LEMMA AmountsType == TypeOK => total \in Nat /\ baseTotal \in Nat
BY DataAssumption DEF TypeOK

(* Before a card is entered nothing is offered. *)
LEMMA InitIInv == Init => IInv
BY DEF Init, IInv, TypeOK, PlansOfType

(* An address or the cart may change without the card form. *)
LEMMA QuoteIInv == IInv /\ (EditAddress \/ ChangeCart) => IInv'
<1> SUFFICES ASSUME IInv, EditAddress \/ ChangeCart PROVE IInv'
  OBVIOUS
<1>1. UNCHANGED <<creditCardType, installments, offered>>
  BY DEF EditAddress, ChangeCart, card
<1>2. PlansOfType'
  BY <1>1 DEF IInv, PlansOfType, Plans
<1>3. CASE EditAddress
  <2>1. TypeOK'
    BY <1>3 DEF IInv, TypeOK, EditAddress, settings, amounts, card
  <2> QED
    BY <1>2, <2>1 DEF IInv
<1>4. CASE ChangeCart
  <2>1. TypeOK'
    BY <1>4 DEF IInv, TypeOK, ChangeCart, settings, card
  <2> QED
    BY <1>2, <2>1 DEF IInv
<1> QED
  BY <1>3, <1>4

(* A form that is built anew offers nothing. *)
LEMMA BuildCardIInv == IInv /\ BuildCard => IInv'
<1> SUFFICES ASSUME IInv, BuildCard PROVE IInv'
  OBVIOUS
<1>1. total \in Nat
  BY AmountsType DEF IInv
<1>2. TypeOK'
  BY <1>1 DEF IInv, TypeOK, BuildCard, settings, amounts
<1>3. PlansOfType'
  BY DEF BuildCard, PlansOfType
<1> QED
  BY <1>2, <1>3 DEF IInv

(* A brand clears what is offered, replaces it or is the brand it was. *)
LEMMA OnBrandIInv ==
  ASSUME IInv, NEW type \in Brands \cup {None}, OnBrand(type)
  PROVE  IInv'
<1>1. total \in Nat
  BY AmountsType DEF IInv
<1>2. /\ creditCardType' = type
      /\ UNCHANGED <<houseNumberStreetLine, customerStreetLinesEnabled, chargedCurrency,
                     billing, currency, total, baseTotal>>
  BY DEF OnBrand, settings, amounts
<1>3. /\ installments' \subseteq Nat \X Nat /\ offered' \in Nat
      /\ installments' \subseteq Plans(creditCardType', offered')
  <2>1. CASE installments' = {} /\ offered' = total
    BY <1>1, <2>1
  <2>2. CASE installments' = Plans(type, total) /\ offered' = total
    BY <1>1, <1>2, <2>2, PlansType
  <2>3. CASE type = creditCardType /\ UNCHANGED <<installments, offered>>
    BY <1>2, <2>3 DEF IInv, TypeOK, PlansOfType
  <2> QED
    BY <2>1, <2>2, <2>3 DEF OnBrand
<1>4. TypeOK'
  BY <1>2, <1>3 DEF IInv, TypeOK
<1>5. PlansOfType'
  BY <1>3 DEF PlansOfType, Plans
<1> QED
  BY <1>4, <1>5 DEF IInv

(* Every step keeps the invariant. *)
LEMMA NextIInv == IInv /\ [Next]_vars => IInv'
<1> SUFFICES ASSUME IInv, [Next]_vars PROVE IInv'
  OBVIOUS
<1>1. CASE EditAddress \/ ChangeCart
  BY <1>1, QuoteIInv
<1>2. CASE BuildCard
  BY <1>2, BuildCardIInv
<1>3. CASE \E type \in Brands \cup {None} : OnBrand(type)
  BY <1>3, OnBrandIInv
<1>4. CASE UNCHANGED vars
  BY <1>4 DEF IInv, TypeOK, PlansOfType, Plans, vars, settings, amounts, card
<1> QED
  BY <1>1, <1>2, <1>3, <1>4 DEF Next

(* The invariant holds of every state. *)
LEMMA Invariance == Spec => []IInv
BY InitIInv, NextIInv, PTL DEF Spec

-----------------------------------------------------------------------------
(* The quote, the settings and the card form hold what they are meant to.  *)
THEOREM TypeCorrect == Spec => []TypeOK
<1>1. IInv => TypeOK
  BY DEF IInv
<1> QED
  BY <1>1, Invariance, PTL

(* The server accepts what is offered for a card when it charges no less   *)
(* than the total of the offer, for any installments, totals and either    *)
(* setting of the charged currency (adyen-cc-method.js 119-170,            *)
(* InstallmentValidator.php 102-124, ChargedCurrency.php 69).              *)
THEOREM OffersAreAccepted == Spec => []OffersAccepted
<1>1. IInv => OffersAccepted
  <2> SUFFICES ASSUME IInv, Charged >= offered, NEW t \in installments
               PROVE  InstallmentsValid(t[2], creditCardType, Charged)
    BY DEF OffersAccepted
  <2>1. t \in Plans(creditCardType, offered)
    BY DEF IInv, PlansOfType
  <2>2. Charged \in Nat /\ offered \in Nat
    BY AmountsType DEF IInv, TypeOK, Charged
  <2> QED
    BY <2>1, <2>2, PlansValid
<1> QED
  BY <1>1, Invariance, PTL

(* An amount survives the page's conversion and the server's way back to    *)
(* within half a minor unit, whatever its size and currency, but for the    *)
(* four whose entries in the two tables differ (currencyHelper.js 13-48,    *)
(* Data.php 389).                                                           *)
THEOREM AmountsSurvive == Spec => []AmountRestored
<1>1. IInv => AmountRestored
  <2> DEFINE value == FormatAmount(total, currency)
  <2> SUFFICES ASSUME total \in Nat, currency \notin {"IQD", "MRO", "BYR", "GHC"}
               PROVE  /\ 2 * (OriginalAmount(value, currency) - total) <= MinorUnit(currency)
                      /\ 2 * (total - OriginalAmount(value, currency)) <= MinorUnit(currency)
    BY AmountsType DEF IInv, AmountRestored
  <2>1. CASE currency \in NoDecimals
    <3>1. MinorUnit(currency) = 1000
      BY <2>1 DEF MinorUnit, DecimalNumbers
    <3>2. value = (total + 500) \div 1000
      BY <3>1 DEF FormatAmount
    <3>3. OriginalAmount(value, currency) = value * 1000
      BY <2>1 DEF OriginalAmount, NoDecimals, ThreeDecimals
    <3> HIDE DEF value
    <3>4. /\ value * 1000 <= total + 500
          /\ total + 500 < value * 1000 + 1000
      BY <3>2
    <3> QED
      BY <3>1, <3>2, <3>3, <3>4
  <2>2. CASE currency \in ThreeDecimals
    <3>1. currency \notin NoDecimals
      BY <2>2 DEF NoDecimals, ThreeDecimals
    <3>2. MinorUnit(currency) = 1
      BY <2>2, <3>1 DEF MinorUnit, DecimalNumbers
    <3>3. value = total
      BY <3>2 DEF FormatAmount
    <3>4. OriginalAmount(value, currency) = value * 1
      BY <2>2, <3>1 DEF OriginalAmount
    <3> HIDE DEF value
    <3> QED
      BY <3>2, <3>3, <3>4
  <2>3. CASE currency \notin NoDecimals \cup ThreeDecimals
    <3>1. MinorUnit(currency) = 10
      BY <2>3 DEF MinorUnit, DecimalNumbers
    <3>2. value = (total + 5) \div 10
      BY <3>1 DEF FormatAmount
    <3>3. OriginalAmount(value, currency) = value * 10
      BY <2>3 DEF OriginalAmount
    <3> HIDE DEF value
    <3>4. value * 10 <= total + 5 /\ total + 5 < value * 10 + 10
      BY <3>2
    <3> QED
      BY <3>1, <3>2, <3>3, <3>4
  <2> QED
    BY <2>1, <2>2, <2>3
<1> QED
  BY <1>1, Invariance, PTL

-----------------------------------------------------------------------------
(* Joining lines: the recursive function of FlattenSeq exists, is unique    *)
(* and joins what is joined from the parts.                                *)

Flattens(f, lines) ==
  f = [i \in 1..Len(lines) |-> IF i = 1 THEN lines[i] ELSE f[i - 1] \o lines[i]]

(* There is such a function for every sequence of lines. *)
LEMMA FlattenExists ==
  ASSUME NEW lines, Len(lines) \in Nat
  PROVE  \E f : Flattens(f, lines)
<1> DEFINE Upto(f, n) ==
             f = [i \in 1..n |-> IF i = 1 THEN lines[i] ELSE f[i - 1] \o lines[i]]
           T == {n \in Nat : \E f : Upto(f, n)}
<1>1. 0 \in T
  <2>1. Upto([i \in 1..0 |-> lines[i]], 0)
    <3>1. 1..0 = {}
      OBVIOUS
    <3> QED
      BY <3>1, Zenon
  <2> QED
    BY <2>1
<1>2. ASSUME NEW n \in Nat, n \in T
      PROVE  n + 1 \in T
  <2>1. PICK f : Upto(f, n)
    BY <1>2
  <2> DEFINE g == [i \in 1..(n + 1) |-> IF i = 1 THEN lines[i] ELSE f[i - 1] \o lines[i]]
  <2>2. ASSUME NEW i \in 1..(n + 1), i # 1
        PROVE  g[i - 1] = f[i - 1]
    <3>1. i - 1 \in 1..n /\ i - 1 \in 1..(n + 1)
      BY <2>2
    <3>2. f[i - 1] = IF i - 1 = 1 THEN lines[i - 1] ELSE f[(i - 1) - 1] \o lines[i - 1]
      BY <2>1, <3>1, Zenon
    <3>3. g[i - 1] = IF i - 1 = 1 THEN lines[i - 1] ELSE f[(i - 1) - 1] \o lines[i - 1]
      BY <3>1, Zenon
    <3> QED
      BY <3>2, <3>3
  <2>3. g = [i \in 1..(n + 1) |-> IF i = 1 THEN lines[i] ELSE g[i - 1] \o lines[i]]
    <3> DEFINE h == [i \in 1..(n + 1) |-> IF i = 1 THEN lines[i] ELSE g[i - 1] \o lines[i]]
    <3>1. \A i \in 1..(n + 1) : g[i] = h[i]
      <4> SUFFICES ASSUME NEW i \in 1..(n + 1)
                   PROVE  g[i] = h[i]
        OBVIOUS
      <4>1. g[i] = IF i = 1 THEN lines[i] ELSE f[i - 1] \o lines[i]
        BY Zenon
      <4>2. h[i] = IF i = 1 THEN lines[i] ELSE g[i - 1] \o lines[i]
        BY Zenon
      <4> HIDE DEF g, h
      <4> QED
        BY <2>2, <4>1, <4>2
    <3>2. g = [i \in 1..(n + 1) |-> g[i]]
      BY Zenon
    <3> HIDE DEF g
    <3>3. h = [i \in 1..(n + 1) |-> h[i]]
      BY Zenon
    <3> HIDE DEF h
    <3>4. g = h
      BY <3>1, <3>2, <3>3, Zenon
    <3> QED
      BY <3>4 DEF h
  <2> HIDE DEF g
  <2>4. \E k : Upto(k, n + 1)
    BY <2>3, Zenon
  <2>5. n + 1 \in Nat
    OBVIOUS
  <2> HIDE DEF Upto
  <2> QED
    BY <2>4, <2>5
<1> HIDE DEF T
<1>3. Nat \subseteq T
  BY <1>1, <1>2, NatSetInduction
<1>4. Len(lines) \in T
  BY <1>3
<1> QED
  BY <1>4 DEF T, Flattens

(* Two sequences that have n items in common *)
Agree(a, b, n) == \A i \in 1..n : a[i] = b[i]

(* Two such functions agree as far as their lines agree. *)
LEMMA FlattenAgrees ==
  ASSUME NEW a, NEW b, NEW f, NEW g, Flattens(f, a), Flattens(g, b),
         Len(a) \in Nat, Len(b) \in Nat, NEW n \in Nat, n <= Len(a), n <= Len(b),
         Agree(a, b, n)
  PROVE  \A i \in 1..n : f[i] = g[i]
<1> DEFINE T == {m \in Nat : m \in 1..n => f[m] = g[m]}
<1>f. \A i \in 1..n : f[i] = IF i = 1 THEN a[i] ELSE f[i - 1] \o a[i]
  <2>1. \A i \in 1..n : i \in 1..Len(a)
    OBVIOUS
  <2>2. \A i \in 1..Len(a) : f[i] = IF i = 1 THEN a[i] ELSE f[i - 1] \o a[i]
    BY Zenon DEF Flattens
  <2> QED
    BY <2>1, <2>2
<1>g. \A i \in 1..n : g[i] = IF i = 1 THEN b[i] ELSE g[i - 1] \o b[i]
  <2>1. \A i \in 1..n : i \in 1..Len(b)
    OBVIOUS
  <2>2. \A i \in 1..Len(b) : g[i] = IF i = 1 THEN b[i] ELSE g[i - 1] \o b[i]
    BY Zenon DEF Flattens
  <2> QED
    BY <2>1, <2>2
<1>1. 0 \in T
  OBVIOUS
<1>2. ASSUME NEW m \in Nat, m \in T
      PROVE  m + 1 \in T
  <2> SUFFICES ASSUME m + 1 \in 1..n
               PROVE  f[m + 1] = g[m + 1]
    OBVIOUS
  <2>1. f[m + 1] = IF m + 1 = 1 THEN a[m + 1] ELSE f[(m + 1) - 1] \o a[m + 1]
    BY <1>f
  <2>2. g[m + 1] = IF m + 1 = 1 THEN b[m + 1] ELSE g[(m + 1) - 1] \o b[m + 1]
    BY <1>g
  <2>3. a[m + 1] = b[m + 1]
    BY DEF Agree
  <2>4. (m + 1) - 1 = m /\ (m + 1 = 1 \/ m \in 1..n)
    OBVIOUS
  <2>5. m + 1 = 1 \/ f[m] = g[m]
    BY <1>2, <2>4
  <2> QED
    BY <2>1, <2>2, <2>3, <2>4, <2>5
<1> HIDE DEF T
<1>3. Nat \subseteq T
  BY <1>1, <1>2, NatSetInduction
<1>4. \A i \in 1..n : i \in T
  BY <1>3
<1> QED
  BY <1>4 DEF T

(* FlattenSeq is the value of such a function for the last line. *)
LEMMA FlattenIs ==
  ASSUME NEW lines, Len(lines) \in Nat, Len(lines) # 0
  PROVE  \E f : Flattens(f, lines) /\ FlattenSeq(lines) = f[Len(lines)]
<1>1. \E f : Flattens(f, lines)
  BY FlattenExists
<1> QED
  BY <1>1, Zenon DEF FlattenSeq, Flattens

(* Nothing is joined from no lines, and a line is joined at the end. *)
LEMMA FlattenAppend ==
  ASSUME NEW S, NEW lines \in Seq(Seq(S)), NEW e \in Seq(S),
         FlattenSeq(lines) \in Seq(S)
  PROVE  FlattenSeq(Append(lines, e)) = FlattenSeq(lines) \o e
<1> DEFINE more == Append(lines, e)
           n == Len(lines)
<1>1. /\ n \in Nat /\ Len(more) = n + 1
      /\ \A i \in 1..n : more[i] = lines[i]
      /\ more[n + 1] = e
  BY AppendProperties, LenProperties
<1> HIDE DEF more
<1>2. PICK g : Flattens(g, more) /\ FlattenSeq(more) = g[n + 1]
  <2>1. Len(more) \in Nat /\ Len(more) # 0
    BY <1>1
  <2>2. \E g : Flattens(g, more) /\ FlattenSeq(more) = g[Len(more)]
    BY <2>1, FlattenIs, Zenon
  <2> QED
    BY <1>1, <2>2
<1>3. g[n + 1] = IF n + 1 = 1 THEN more[n + 1] ELSE g[(n + 1) - 1] \o more[n + 1]
  <2>1. n + 1 \in 1..Len(more)
    BY <1>1
  <2> HIDE DEF n
  <2> QED
    BY <1>2, <2>1, Zenon DEF Flattens
<1>4. CASE n = 0
  <2>1. FlattenSeq(lines) = << >>
    <3>1. lines = << >>
      BY <1>4, EmptySeq
    <3> QED
      BY <1>4, <3>1, Zenon DEF FlattenSeq
  <2>2. g[n + 1] = e
    BY <1>1, <1>3, <1>4
  <2>3. << >> \o e = e
    BY ConcatEmptySeq
  <2> QED
    BY <1>2, <2>1, <2>2, <2>3 DEF more
<1>5. CASE n # 0
  <2>1. PICK f : Flattens(f, lines) /\ FlattenSeq(lines) = f[n]
    BY <1>1, <1>5, FlattenIs, Zenon
  <2>2. \A i \in 1..n : f[i] = g[i]
    <3>1. n <= Len(lines) /\ n <= Len(more) /\ Len(more) \in Nat
      BY <1>1
    <3>2. Agree(lines, more, n)
      BY <1>1 DEF Agree
    <3>3. Len(lines) \in Nat
      BY <1>1
    <3>4. Flattens(f, lines) /\ Flattens(g, more) /\ n \in Nat
      BY <1>1, <1>2, <2>1
    <3> HIDE DEF n
    <3> QED
      BY <3>1, <3>2, <3>3, <3>4, FlattenAgrees
  <2>3. n \in 1..n /\ (n + 1) - 1 = n /\ n + 1 # 1
    BY <1>1, <1>5
  <2>4. g[n + 1] = g[n] \o e
    BY <1>1, <1>3, <2>3
  <2> QED
    BY <1>2, <2>1, <2>2, <2>3, <2>4 DEF more
<1> QED
  BY <1>4, <1>5

(* It does not matter which two of three are joined first. *)
Associate(x, y, z) == (x \o y) \o z = x \o (y \o z)

(* For lines, it does not. *)
LEMMA JoinAssociates ==
  ASSUME NEW S, NEW x \in Seq(S), NEW y \in Seq(S), NEW z \in Seq(S)
  PROVE  Associate(x, y, z)
BY ConcatAssociative DEF Associate

(* What is joined from two lists of lines. *)
LEMMA FlattenConcat ==
  ASSUME NEW S, NEW a \in Seq(Seq(S))
  PROVE  \A b \in Seq(Seq(S)) :
            /\ FlattenSeq(b) \in Seq(S)
            /\ FlattenSeq(a) \in Seq(S) => FlattenSeq(a \o b) = FlattenSeq(a) \o FlattenSeq(b)
<1> DEFINE J(b) == /\ FlattenSeq(b) \in Seq(S)
                   /\ FlattenSeq(a) \in Seq(S) =>
                        FlattenSeq(a \o b) = FlattenSeq(a) \o FlattenSeq(b)
           T == {n \in Nat : \A b \in Seq(Seq(S)) : Len(b) = n => J(b)}
<1>1. 0 \in T
  <2> SUFFICES ASSUME NEW b \in Seq(Seq(S)), Len(b) = 0
               PROVE  J(b)
    OBVIOUS
  <2>1. b = << >>
    BY EmptySeq
  <2>2. FlattenSeq(b) = << >>
    BY <2>1, Zenon DEF FlattenSeq
  <2>3. a \o << >> = a /\ << >> \in Seq(S)
    BY ConcatEmptySeq, EmptySeq
  <2>4. FlattenSeq(a) \in Seq(S) => FlattenSeq(a) \o << >> = FlattenSeq(a)
    BY ConcatEmptySeq
  <2> QED
    BY <2>1, <2>2, <2>3, <2>4
<1>2. ASSUME NEW n \in Nat, n \in T
      PROVE  n + 1 \in T
  <2> SUFFICES ASSUME NEW b \in Seq(Seq(S)), Len(b) = n + 1
               PROVE  J(b)
    OBVIOUS
  <2>1. PICK c \in Seq(Seq(S)), e \in Seq(S) : b = Append(c, e)
    <3>1. b # << >>
      BY EmptySeq
    <3> QED
      BY <3>1, SequenceEmptyOrAppend
  <2>2. Len(c) = n
    BY <2>1, AppendProperties, LenProperties
  <2>3. J(c)
    BY <1>2, <2>2
  <2>4. FlattenSeq(b) = FlattenSeq(c) \o e /\ FlattenSeq(b) \in Seq(S)
    BY <2>1, <2>3, FlattenAppend, ConcatProperties
  <2>5. ASSUME FlattenSeq(a) \in Seq(S)
        PROVE  FlattenSeq(a \o b) = FlattenSeq(a) \o FlattenSeq(b)
    <3>1. a \o b = Append(a \o c, e) /\ a \o c \in Seq(Seq(S))
      <4>1. b = c \o <<e>> /\ <<e>> \in Seq(Seq(S))
        BY <2>1, AppendIsConcat
      <4>2. a \o b = (a \o c) \o <<e>>
        BY <4>1, ConcatAssociative
      <4>3. a \o c \in Seq(Seq(S))
        BY ConcatProperties
      <4> QED
        BY <4>2, <4>3, AppendIsConcat
    <3>2. FlattenSeq(a \o c) = FlattenSeq(a) \o FlattenSeq(c)
      BY <2>3, <2>5
    <3>3. FlattenSeq(a \o c) \in Seq(S)
      BY <2>3, <2>5, <3>2, ConcatProperties
    <3>4. FlattenSeq(a \o b) = (FlattenSeq(a) \o FlattenSeq(c)) \o e
      BY <3>1, <3>2, <3>3, FlattenAppend
    <3>c. FlattenSeq(c) \in Seq(S)
      BY <2>3
    <3>5. (FlattenSeq(a) \o FlattenSeq(c)) \o e = FlattenSeq(a) \o (FlattenSeq(c) \o e)
      <4>1. Associate(FlattenSeq(a), FlattenSeq(c), e)
        BY <2>1, <2>5, <3>c, JoinAssociates
      <4> QED
        BY <4>1, Zenon DEF Associate
    <3> QED
      BY <2>4, <3>4, <3>5, Zenon
  <2> QED
    BY <2>4, <2>5
<1> HIDE DEF T
<1>3. Nat \subseteq T
  BY <1>1, <1>2, NatSetInduction
<1>4. \A b \in Seq(Seq(S)) : Len(b) \in T
  BY <1>3, LenProperties
<1> QED
  BY <1>4 DEF T

(* Joined lines are a line, and joining distributes over concatenation. *)
LEMMA JoinedParts ==
  ASSUME NEW S, NEW a \in Seq(Seq(S)), NEW b \in Seq(Seq(S))
  PROVE  Joined(a) \in Seq(S) /\ Joined(a \o b) = Joined(a) \o Joined(b)
BY FlattenConcat DEF Joined

(* A single line is joined to itself. *)
LEMMA JoinedOne ==
  ASSUME NEW S, NEW e \in Seq(S)
  PROVE  Joined(<<e>>) = e
<1>1. << >> \in Seq(Seq(S)) /\ << >> \in Seq(S)
  BY EmptySeq
<1>2. FlattenSeq(<< >>) = << >>
  BY EmptySeq, Zenon DEF FlattenSeq
<1>3. FlattenSeq(Append(<< >>, e)) = << >> \o e
  BY <1>1, <1>2, FlattenAppend
<1> QED
  BY <1>1, <1>3, ConcatEmptySeq DEF Joined

-----------------------------------------------------------------------------
(* Counting the tokens of a kind. *)

Count(t, ts) == Cardinality({i \in DOMAIN ts : ts[i] = t})

(* Of two lines that are joined, the tokens add up. *)
LEMMA CountConcat ==
  ASSUME NEW S, NEW x \in Seq(S), NEW y \in Seq(S), NEW t
  PROVE  /\ Count(t, x) \in Nat /\ Count(t, y) \in Nat
         /\ Count(t, x \o y) = Count(t, x) + Count(t, y)
<1> DEFINE m == Len(x)
           n == Len(y)
           w == x \o y
           A == {i \in 1..m : x[i] = t}
           B == {i \in 1..n : y[i] = t}
           C == {i \in (m + 1)..(m + n) : w[i] = t}
<1>1. m \in Nat /\ n \in Nat /\ DOMAIN x = 1..m /\ DOMAIN y = 1..n
  BY LenProperties
<1>2. /\ Len(w) = m + n /\ DOMAIN w = 1..(m + n)
      /\ \A i \in 1..(m + n) : w[i] = IF i <= m THEN x[i] ELSE y[i - m]
  BY ConcatProperties, LenProperties
<1> HIDE DEF w, m, n
<1>3. IsFiniteSet(A) /\ IsFiniteSet(B) /\ IsFiniteSet(C)
  <2>1. /\ 1 \in Int /\ m \in Int /\ n \in Int /\ m + 1 \in Int /\ m + n \in Int
    BY <1>1
  <2>2. IsFiniteSet(1..m) /\ IsFiniteSet(1..n) /\ IsFiniteSet((m + 1)..(m + n))
    BY <2>1, FS_Interval, Zenon
  <2>3. A \in SUBSET (1..m) /\ B \in SUBSET (1..n) /\ C \in SUBSET ((m + 1)..(m + n))
    OBVIOUS
  <2> QED
    BY <2>2, <2>3, FS_Subset
<1>4. {i \in DOMAIN w : w[i] = t} = A \cup C
  BY <1>1, <1>2
<1>5. A \cap C = {}
  BY <1>1
<1>6. Cardinality(C) = Cardinality(B)
  <2> DEFINE f == [i \in B |-> i + m]
  <2>1. f \in [B -> C]
    <3> SUFFICES ASSUME NEW i \in B
                 PROVE  i + m \in C
      BY Zenon
    <3>1. /\ i + m \in (m + 1)..(m + n) /\ i + m \in 1..(m + n)
          /\ ~(i + m <= m) /\ (i + m) - m = i /\ y[i] = t
      BY <1>1
    <3>2. w[i + m] = y[i]
      BY <1>2, <3>1
    <3> QED
      BY <3>1, <3>2
  <2>2. \A i, j \in B : f[i] = f[j] => i = j
    BY <1>1
  <2>3. \A k \in C : \E i \in B : f[i] = k
    <3> SUFFICES ASSUME NEW k \in C
                 PROVE  \E i \in B : f[i] = k
      OBVIOUS
    <3>1. k - m \in B /\ (k - m) + m = k
      BY <1>1, <1>2
    <3> QED
      BY <3>1
  <2> HIDE DEF f, B, C
  <2>4. f \in Bijection(B, C)
    BY <2>1, <2>2, <2>3, Zenon DEF Bijection, Injection, Surjection, IsInjective
  <2> QED
    BY <1>3, <2>4, FS_Bijection, Zenon DEF ExistsBijection
<1>7. /\ Cardinality(A) \in Nat /\ Cardinality(B) \in Nat
      /\ Cardinality(A \cup C) = Cardinality(A) + Cardinality(C)
  <2> HIDE DEF A, B, C
  <2>1. /\ Cardinality(A) \in Nat /\ Cardinality(B) \in Nat
        /\ Cardinality(A \cup C) = Cardinality(A) + Cardinality(C) - Cardinality(A \cap C)
    BY <1>3, FS_CardinalityType, FS_Union
  <2>2. Cardinality(A \cap C) = 0
    BY <1>5, FS_EmptySet
  <2> QED
    BY <1>6, <2>1, <2>2
<1>8. Count(t, x) = Cardinality(A) /\ Count(t, y) = Cardinality(B)
  BY <1>1 DEF Count
<1>9. Count(t, w) = Cardinality(A \cup C)
  BY <1>4 DEF Count
<1> HIDE DEF A, B, C
<1>10. Count(t, w) = Count(t, x) + Count(t, y)
  BY <1>6, <1>7, <1>8, <1>9
<1> QED
  BY <1>7, <1>8, <1>10 DEF w

-----------------------------------------------------------------------------
(* Splitting keeps the tokens. *)

House(parts) == IF parts.house = NotAvailable THEN <<>> ELSE parts.house

(* The parts hold the tokens of a line. *)
Kept(parts, line) ==
  \A t \in Tokens : Count(t, parts.street) + Count(t, House(parts)) = Count(t, line)

(* What stands for a missing number is no number a shopper enters. *)
LEMMA NoSuchHouse == NotAvailable \notin Seq(Tokens)
<1> SUFFICES ASSUME NotAvailable \in Seq(Tokens) PROVE FALSE
  OBVIOUS
<1>1. 1 \in 1..Len(NotAvailable) /\ NotAvailable[1] = "N/A"
  BY DEF NotAvailable
<1>2. NotAvailable[1] \in Tokens
  BY <1>1, ElementOfSeq
<1> QED
  BY <1>1, <1>2 DEF Tokens

(* A line that is its parts one after the other, in either order *)
LEMMA SplitKeeps ==
  ASSUME NEW x \in Seq(Tokens), NEW y \in Seq(Tokens), NEW w,
         w = x \o y \/ w = y \o x
  PROVE  Kept(Parts(x, y), w)
<1>1. House(Parts(x, y)) = y /\ Parts(x, y).street = x
  BY NoSuchHouse DEF House, Parts
<1>2. ASSUME NEW t \in Tokens
      PROVE  Count(t, x) + Count(t, y) = Count(t, w)
  <2>1. /\ Count(t, x) \in Nat /\ Count(t, y) \in Nat
        /\ Count(t, x \o y) = Count(t, x) + Count(t, y)
    BY CountConcat
  <2>2. Count(t, y \o x) = Count(t, y) + Count(t, x)
    BY CountConcat
  <2>3. CASE w = x \o y
    BY <2>1, <2>3
  <2>4. CASE w = y \o x
    <3> DEFINE p == y \o x
    <3>1. Count(t, p) = Count(t, y) + Count(t, x) /\ w = p
      BY <2>2, <2>4
    <3> HIDE DEF p
    <3> QED
      BY <2>1, <3>1
  <2> QED
    BY <2>3, <2>4
<1> QED
  BY <1>1, <1>2 DEF Kept

(* A street without a house number *)
LEMMA WholeKeeps ==
  ASSUME NEW x \in Seq(Tokens), NEW y \in {NotAvailable, << >>}
  PROVE  Kept(Parts(x, y), x)
<1>1. House(Parts(x, y)) = << >> /\ Parts(x, y).street = x
  BY DEF House, Parts
<1>2. ASSUME NEW t \in Tokens
      PROVE  Count(t, x) + Count(t, << >>) = Count(t, x)
  <2>1. << >> \in Seq(Tokens) /\ x \o << >> = x
    BY EmptySeq, ConcatEmptySeq
  <2>2. Count(t, x \o << >>) = Count(t, x) + Count(t, << >>)
    BY <2>1, CountConcat, Zenon
  <2> QED
    BY <2>1, <2>2
<1> QED
  BY <1>1, <1>2 DEF Kept

(* A line is its first tokens and the others. *)
LEMMA Halves ==
  ASSUME NEW S, NEW ts \in Seq(S), NEW k \in 0..Len(ts)
  PROVE  /\ SubSeq(ts, 1, k) \in Seq(S) /\ SubSeq(ts, k + 1, Len(ts)) \in Seq(S)
         /\ SubSeq(ts, 1, k) \o SubSeq(ts, k + 1, Len(ts)) = ts
<1>1. Len(ts) \in Nat /\ \A i \in 1..Len(ts) : ts[i] \in S
  BY LenProperties, ElementOfSeq
<1>2. SubSeq(ts, 1, k) \in Seq(S)
  BY <1>1, SubSeqProperties
<1>3. SubSeq(ts, k + 1, Len(ts)) \in Seq(S)
  BY <1>1, SubSeqProperties
<1>4. SubSeq(ts, 1, k) \o SubSeq(ts, k + 1, Len(ts)) = SubSeq(ts, 1, Len(ts))
  <2>1. /\ 1 \in 1..(Len(ts) + 1) /\ k \in (1 - 1)..Len(ts)
        /\ Len(ts) \in k..Len(ts)
    BY <1>1
  <2> QED
    BY <2>1, ConcatAdjacentSubSeq
<1>5. SubSeq(ts, 1, Len(ts)) = ts
  BY SubSeqFull
<1> QED
  BY <1>2, <1>3, <1>4, <1>5

(* The greatest of some numbers up to a bound is one of them. *)
LEMMA MaxIsMember ==
  ASSUME NEW n \in Int, NEW P \in SUBSET (1..n), P # {}
  PROVE  Max(P) \in P
<1> DEFINE T == {m \in Nat : P \cap (1..m) # {} =>
                    \E k \in P \cap (1..m) : \A y \in P \cap (1..m) : k >= y}
<1>1. 0 \in T
  OBVIOUS
<1>2. ASSUME NEW m \in Nat, m \in T
      PROVE  m + 1 \in T
  <2>1. CASE m + 1 \in P
    <3>1. m + 1 \in P \cap (1..(m + 1)) /\ \A y \in P \cap (1..(m + 1)) : m + 1 >= y
      BY <2>1
    <3> QED
      BY <3>1
  <2>2. CASE m + 1 \notin P
    <3>1. P \cap (1..(m + 1)) = P \cap (1..m)
      BY <2>2
    <3> QED
      BY <1>2, <3>1
  <2> QED
    BY <2>1, <2>2
<1> HIDE DEF T
<1>3. Nat \subseteq T
  BY <1>1, <1>2, NatSetInduction
<1>4. n \in T /\ P \cap (1..n) = P
  <2>1. n \in Nat
    <3>1. PICK k \in P : k \in 1..n
      OBVIOUS
    <3> QED
      BY <3>1
  <2> QED
    BY <1>3, <2>1
<1>5. \E k \in P : \A y \in P : k >= y
  BY <1>4 DEF T
<1> QED
  BY <1>5, Zenon DEF Max

(* The expressions keep the tokens, whichever of them fits. *)
LEMMA RegexKeeps ==
  ASSUME NEW ts \in Seq(Tokens)
  PROVE  Kept(StreetAndHouseNumberWithRegex(ts), ts)
<1> DEFINE n == Len(ts)
<1>1. n \in Nat
  BY LenProperties
<1>2. ASSUME NEW P \in SUBSET (1..(n - 1)), P # {}
      PROVE  Max(P) \in 0..Len(ts)
  <2>1. Max(P) \in P
    <3>1. n - 1 \in Int
      BY <1>1
    <3> QED
      BY <1>2, <3>1, MaxIsMember, Zenon
  <2>2. \A k \in 1..(n - 1) : k \in 0..Len(ts)
    BY <1>1
  <2> QED
    BY <2>1, <2>2, Zenon
<1>h. ASSUME NEW k \in 0..Len(ts)
      PROVE  /\ Kept(Parts(SubSeq(ts, 1, k), SubSeq(ts, k + 1, Len(ts))), ts)
             /\ Kept(Parts(SubSeq(ts, k + 1, Len(ts)), SubSeq(ts, 1, k)), ts)
  <2>1. /\ SubSeq(ts, 1, k) \in Seq(Tokens) /\ SubSeq(ts, k + 1, Len(ts)) \in Seq(Tokens)
        /\ SubSeq(ts, 1, k) \o SubSeq(ts, k + 1, Len(ts)) = ts
    BY Halves
  <2> QED
    BY <2>1, SplitKeeps, Zenon
<1>3. CASE StreetFirst(ts) # {}
  <2> DEFINE k == Max(StreetFirst(ts))
  <2>1. k \in 0..Len(ts)
    BY <1>2, <1>3, Zenon DEF StreetFirst
  <2>2. StreetAndHouseNumberWithRegex(ts)
          = Parts(SubSeq(ts, 1, k), SubSeq(ts, k + 1, Len(ts)))
    BY <1>3, Zenon DEF StreetAndHouseNumberWithRegex
  <2> HIDE DEF k
  <2> QED
    BY <1>h, <2>1, <2>2
<1>4. CASE StreetFirst(ts) = {} /\ NumberFirst(ts) # {}
  <2> DEFINE k == Max(NumberFirst(ts))
  <2>1. k \in 0..Len(ts)
    BY <1>2, <1>4, Zenon DEF NumberFirst
  <2>2. StreetAndHouseNumberWithRegex(ts)
          = Parts(SubSeq(ts, k + 1, Len(ts)), SubSeq(ts, 1, k))
    BY <1>4, Zenon DEF StreetAndHouseNumberWithRegex
  <2> HIDE DEF k
  <2> QED
    BY <1>h, <2>1, <2>2
<1>5. CASE StreetFirst(ts) = {} /\ NumberFirst(ts) = {}
  <2>1. StreetAndHouseNumberWithRegex(ts) = Parts(ts, NotAvailable)
    BY <1>5, Zenon DEF StreetAndHouseNumberWithRegex
  <2> QED
    BY <2>1, WholeKeeps
<1> QED
  BY <1>3, <1>4, <1>5

(* One of the lines is the house number, the others are the street. *)
LEMMA RemovedLineKeeps ==
  ASSUME NEW lines \in Seq(Seq(Tokens)), NEW k \in 1..Len(lines)
  PROVE  /\ Kept(Parts(Joined(RemoveAt(lines, k)), lines[k]), Joined(lines))
         /\ k = Len(lines) => RemoveAt(lines, k) = Front(lines)
<1> DEFINE u == SubSeq(lines, 1, k - 1)
           v == SubSeq(lines, k + 1, Len(lines))
           e == lines[k]
<1>1. Len(lines) \in Nat /\ e \in Seq(Tokens)
  BY LenProperties, ElementOfSeq
<1>2. u \in Seq(Seq(Tokens)) /\ SubSeq(lines, k, Len(lines)) \in Seq(Seq(Tokens))
      /\ u \o SubSeq(lines, k, Len(lines)) = lines
  <2>1. k - 1 \in 0..Len(lines) /\ (k - 1) + 1 = k
    BY <1>1
  <2>2. \A j \in 0..Len(lines) :
          /\ SubSeq(lines, 1, j) \in Seq(Seq(Tokens))
          /\ SubSeq(lines, j + 1, Len(lines)) \in Seq(Seq(Tokens))
          /\ SubSeq(lines, 1, j) \o SubSeq(lines, j + 1, Len(lines)) = lines
    BY Halves
  <2> QED
    BY <2>1, <2>2
<1>3. v \in Seq(Seq(Tokens))
  <2>1. k \in 0..Len(lines)
    BY <1>1
  <2> QED
    BY <2>1, Halves
<1>4. SubSeq(lines, k, Len(lines)) = <<e>> \o v
  <2>1. Len(lines) \in k..Len(lines)
    BY <1>1
  <2> QED
    BY <2>1, SubSeqRecursiveFirst
<1> DEFINE U == Joined(u)
           V == Joined(v)
<1>5. <<e>> \in Seq(Seq(Tokens))
  BY <1>1
<1>6. U \in Seq(Tokens) /\ V \in Seq(Tokens) /\ Joined(<<e>>) = e
  BY <1>1, <1>2, <1>3, JoinedParts, JoinedOne
<1>7. Joined(<<e>> \o v) = e \o V
  BY <1>3, <1>5, <1>6, JoinedParts
<1>8. Joined(lines) = U \o (e \o V)
  <2> DEFINE s == SubSeq(lines, k, Len(lines))
  <2>1. u \in Seq(Seq(Tokens)) /\ s \in Seq(Seq(Tokens)) /\ u \o s = lines
    BY <1>2
  <2>2. Joined(s) = e \o V
    BY <1>4, <1>7
  <2> HIDE DEF u, s
  <2>3. Joined(u \o s) = Joined(u) \o Joined(s)
    BY <2>1, JoinedParts
  <2> QED
    BY <2>1, <2>2, <2>3
<1>9. RemoveAt(lines, k) = u \o v /\ Joined(u \o v) = U \o V
  BY <1>2, <1>3, JoinedParts DEF RemoveAt
<1>10. ASSUME NEW t \in Tokens
       PROVE  Count(t, U \o V) + Count(t, e) = Count(t, U \o (e \o V))
  <2>1. e \o V \in Seq(Tokens)
    BY <1>1, <1>6, ConcatProperties
  <2>2. /\ Count(t, U \o V) = Count(t, U) + Count(t, V)
        /\ Count(t, U) \in Nat /\ Count(t, V) \in Nat
    BY <1>6, CountConcat
  <2>3. Count(t, e \o V) = Count(t, e) + Count(t, V) /\ Count(t, e) \in Nat
    BY <1>1, <1>6, CountConcat
  <2>4. Count(t, U \o (e \o V)) = Count(t, U) + Count(t, e \o V)
    <3> DEFINE z == e \o V
    <3>1. U \in Seq(Tokens) /\ z \in Seq(Tokens)
      BY <1>6, <2>1
    <3> HIDE DEF U, V, z
    <3> QED
      BY <3>1, CountConcat DEF z
  <2> QED
    BY <2>2, <2>3, <2>4
<1>11. Kept(Parts(Joined(RemoveAt(lines, k)), e), Joined(lines))
  <2>1. House(Parts(U \o V, e)) = e /\ Parts(U \o V, e).street = U \o V
    BY <1>1, NoSuchHouse DEF House, Parts
  <2> HIDE DEF U, V, e, u, v
  <2> QED
    BY <1>8, <1>9, <1>10, <2>1 DEF Kept
<1>12. ASSUME k = Len(lines)
       PROVE  RemoveAt(lines, k) = Front(lines)
  <2>1. v = << >>
    BY <1>1, <1>12, SubSeqEmpty
  <2>2. u \o << >> = u
    BY <1>2, ConcatEmptySeq
  <2> QED
    BY <1>12, <2>1, <2>2 DEF RemoveAt, Front
<1> QED
  BY <1>11, <1>12

(* Splitting a street into its name and the house number neither loses nor *)
(* doubles any of its lines, for any street of any number of lines and any *)
(* settings (adyen-pm-method.js 409, configHelper.js 22).                  *)
THEOREM StreetsKept == Spec => []StreetKept
<1>1. TypeOK => StreetKept
  <2> SUFFICES ASSUME TypeOK, billing # None
               PROVE  /\ Kept(FormattedStreet(billing), Joined(Enabled(billing)))
                      /\ Kept(HelperStreet(billing), Joined(billing))
    BY DEF StreetKept, Kept, House, Count
  <2>1. /\ billing \in Seq(Seq(Tokens))
        /\ houseNumberStreetLine \in Nat /\ customerStreetLinesEnabled \in Nat \ {0}
    BY DataAssumption DEF TypeOK
  <2>2. ASSUME NEW lines \in Seq(Seq(Tokens))
        PROVE  Joined(lines) \in Seq(Tokens)
    BY JoinedParts
  <2>3. Enabled(billing) \in Seq(Seq(Tokens))
    <3> DEFINE P == {customerStreetLinesEnabled, Len(billing)}
    <3>1. Len(billing) \in Nat
      BY <2>1, LenProperties
    <3>2. \E k \in P : \A y \in P : k =< y
      BY <2>1, <3>1
    <3>3. Min(P) \in P /\ \A y \in P : Min(P) =< y
      BY <3>2, Zenon DEF Min
    <3> HIDE DEF P
    <3>4. Min(P) \in 0..Len(billing)
      BY <2>1, <3>1, <3>3 DEF P
    <3> QED
      BY <2>1, <3>4, Halves DEF Enabled, P
  <2>4. Kept(FormattedStreet(billing), Joined(Enabled(billing)))
    <3> DEFINE street == Enabled(billing)
    <3>1. CASE DrawHouseNumberWithRegex(street)
      BY <2>2, <2>3, <3>1, RegexKeeps DEF FormattedStreet
    <3>2. CASE ~DrawHouseNumberWithRegex(street)
      <4>1. houseNumberStreetLine \in 1..Len(street)
        <5>1. Len(street) \in Nat
          BY <2>3, LenProperties
        <5> QED
          BY <2>1, <3>2, <5>1 DEF DrawHouseNumberWithRegex
      <4>2. FormattedStreet(billing)
              = Parts(Joined(RemoveAt(street, houseNumberStreetLine)),
                      street[houseNumberStreetLine])
        BY <3>2, Zenon DEF FormattedStreet
      <4> HIDE DEF street
      <4> QED
        BY <2>3, <4>1, <4>2, RemovedLineKeeps DEF street
    <3> QED
      BY <3>1, <3>2
  <2>5. Kept(HelperStreet(billing), Joined(billing))
    <3>1. Len(billing) \in Nat
      BY <2>1, LenProperties
    <3>2. CASE houseNumberStreetLine > 0 /\ houseNumberStreetLine <= Len(billing)
      <4>1. HelperStreet(billing)
              = Parts(Joined(RemoveAt(billing, houseNumberStreetLine)),
                      billing[houseNumberStreetLine])
        BY <3>2, Zenon DEF HelperStreet
      <4>2. houseNumberStreetLine \in 1..Len(billing)
        BY <2>1, <3>1, <3>2
      <4> QED
        BY <2>1, <4>1, <4>2, RemovedLineKeeps
    <3>3. CASE ~(houseNumberStreetLine > 0) /\ Len(billing) > 1
      <4>1. HelperStreet(billing) = Parts(Joined(Front(billing)), billing[Len(billing)])
        BY <3>3, Zenon DEF HelperStreet, Last
      <4>2. Len(billing) \in 1..Len(billing)
        BY <3>1, <3>3
      <4> QED
        BY <2>1, <4>1, <4>2, RemovedLineKeeps
    <3>4. CASE \/ houseNumberStreetLine > 0 /\ ~(houseNumberStreetLine <= Len(billing))
               \/ ~(houseNumberStreetLine > 0) /\ ~(Len(billing) > 1)
      <4>1. HelperStreet(billing) = Parts(Joined(billing), << >>)
        BY <3>4, Zenon DEF HelperStreet
      <4> QED
        BY <2>1, <2>2, <4>1, WholeKeeps
    <3> QED
      BY <3>2, <3>3, <3>4
  <2> QED
    BY <2>4, <2>5
<1> QED
  BY <1>1, TypeCorrect, PTL

=============================================================================
