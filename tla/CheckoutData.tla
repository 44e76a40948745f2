---------------------------- MODULE CheckoutData ----------------------------
(***************************************************************************)
(* What the renderers tell the component and the server: streets, amounts  *)
(* and installments.  A street is a sequence of lines, a line a sequence   *)
(* of tokens; of a token only its kind counts.  Amounts are in thousandths *)
(* of the currency.                                                        *)
(***************************************************************************)
EXTENDS Integers, Sequences, FiniteSets, SequencesExt

CONSTANTS
  Streets,      \* streets a shopper may enter
  Currencies,
  Totals,       \* grand totals
  Brands,       \* credit card types that are known
  Terms,        \* of each: its installments <<least amount, number>>
  None,
  HouseNumberLines, StreetLines   \* values of the settings

(* word: longer than three letters.  short: at most three.  number: at most *)
(* three digits, a letter may follow.  odd: outside the expressions.       *)
Tokens == {"word", "short", "number", "odd"}

ASSUME DataAssumption ==
  /\ Streets \subseteq Seq(Seq(Tokens))
  /\ Totals \cup HouseNumberLines \subseteq Nat
  /\ StreetLines \subseteq Nat \ {0}
  /\ Terms \in [Brands -> SUBSET (Nat \X (Nat \ {0}))]

VARIABLES
  houseNumberStreetLine, customerStreetLinesEnabled, chargedCurrency,  \* settings
  billing,           \* street of the quote's billing address
  currency, total,   \* of the quote
  baseTotal,         \* the quote's total in the base currency
  creditCardType, installments,
  offered   \* the total for which installments were offered

settings == <<houseNumberStreetLine, customerStreetLinesEnabled, chargedCurrency>>
amounts == <<currency, total, baseTotal>>
card == <<creditCardType, installments, offered>>
vars == <<settings, billing, amounts, card>>

Init ==
  /\ houseNumberStreetLine \in HouseNumberLines
  /\ customerStreetLinesEnabled \in StreetLines
  /\ chargedCurrency \in {"base", "display"}
  /\ billing = None
  /\ currency \in Currencies /\ total \in Totals /\ baseTotal \in Totals
  /\ creditCardType = None /\ installments = {} /\ offered = 0

-----------------------------------------------------------------------------
(* Streets. *)

Joined(lines) == FlattenSeq(lines)
Parts(street, house) == [street |-> street, house |-> house]
NotAvailable == <<"N/A">>

IsHouseNumber(ts) ==
  /\ Len(ts) \in {1, 2}
  /\ ts[1] = "number"
  /\ Len(ts) = 2 => ts[2] \in {"short", "number"}

IsStreetName(ts) == ts # <<>> /\ \A i \in DOMAIN ts : ts[i] # "odd"

(* The expressions are greedy: the longest name that comes first, or the   *)
(* longest number.                                                         *)
StreetFirst(ts) ==
  {k \in 1..(Len(ts) - 1) :
     IsStreetName(SubSeq(ts, 1, k)) /\ IsHouseNumber(SubSeq(ts, k + 1, Len(ts)))}

NumberFirst(ts) ==
  {k \in 1..(Len(ts) - 1) :
     IsHouseNumber(SubSeq(ts, 1, k)) /\ IsStreetName(SubSeq(ts, k + 1, Len(ts)))}

StreetAndHouseNumberWithRegex(ts) ==
  IF StreetFirst(ts) # {}
  THEN LET k == Max(StreetFirst(ts)) IN Parts(SubSeq(ts, 1, k), SubSeq(ts, k + 1, Len(ts)))
  ELSE IF NumberFirst(ts) # {}
  THEN LET k == Max(NumberFirst(ts)) IN Parts(SubSeq(ts, k + 1, Len(ts)), SubSeq(ts, 1, k))
  ELSE Parts(ts, NotAvailable)

Enabled(lines) == SubSeq(lines, 1, Min({customerStreetLinesEnabled, Len(lines)}))

DrawHouseNumberWithRegex(street) ==
  \/ houseNumberStreetLine = 0
  \/ houseNumberStreetLine > customerStreetLinesEnabled
  \/ houseNumberStreetLine > Len(street)

(* Mutant: the line of the house number stays in the street. *)
FormattedStreetTwice(lines) ==
  LET street == Enabled(lines) IN
  IF DrawHouseNumberWithRegex(street)
  THEN StreetAndHouseNumberWithRegex(Joined(street))
  ELSE Parts(Joined(street), street[houseNumberStreetLine])

(* getFormattedAddress of adyen-pm-method.js *)
FormattedStreet(lines) ==
  LET street == Enabled(lines) IN
  IF DrawHouseNumberWithRegex(street)
  THEN StreetAndHouseNumberWithRegex(Joined(street))
  ELSE Parts(Joined(RemoveAt(street, houseNumberStreetLine)),
             street[houseNumberStreetLine])

(* getFormattedAddress of configHelper.js: all lines, no expressions *)
HelperStreet(lines) ==
  IF houseNumberStreetLine > 0
  THEN IF houseNumberStreetLine <= Len(lines)
       THEN Parts(Joined(RemoveAt(lines, houseNumberStreetLine)),
                  lines[houseNumberStreetLine])
       ELSE Parts(Joined(lines), <<>>)
  ELSE IF Len(lines) > 1
  THEN Parts(Joined(Front(lines)), Last(lines))
  ELSE Parts(Joined(lines), <<>>)

EditAddress ==
  /\ billing' \in Streets
  /\ UNCHANGED <<settings, amounts, card>>

-----------------------------------------------------------------------------
(* Amounts. *)

NoDecimals ==
  {"CVE", "DJF", "GNF", "IDR", "JPY", "KMF", "KRW", "PYG", "RWF", "UGX", "VND",
   "VUV", "XAF", "XOF", "XPF"}
ThreeDecimals == {"BHD", "IQD", "JOD", "KWD", "LYD", "OMR", "TND"}

(* Mutant: three decimals are taken for two. *)
DecimalNumbersTwo(c) == IF c \in NoDecimals THEN 0 ELSE 2

DecimalNumbers(c) ==
  IF c \in NoDecimals THEN 0 ELSE IF c \in ThreeDecimals THEN 3 ELSE 2

(* The thousandths in a minor unit *)
MinorUnit(c) ==
  CASE DecimalNumbers(c) = 0 -> 1000 [] DecimalNumbers(c) = 2 -> 10 [] OTHER -> 1

(* toFixed rounds half a minor unit up. *)
FormatAmount(amount, c) ==
  LET unit == MinorUnit(c) IN
  IF unit = 1 THEN amount ELSE (amount + unit \div 2) \div unit

(* The server's way back, in thousandths: its tables are others. *)
OriginalAmount(value, c) ==
  value * (CASE c \in NoDecimals \cup {"BYR", "GHC"} -> 1000
             [] c = "MRO" -> 100
             [] c \in ThreeDecimals \ {"IQD"} -> 1
             [] OTHER -> 10)

(* The exchange rate may change too. *)
ChangeCart ==
  /\ total' \in Totals /\ baseTotal' \in Totals
  /\ UNCHANGED <<currency, settings, billing, card>>

-----------------------------------------------------------------------------
(* Installments of the card form. *)

Plans(type, amount) ==
  IF type \in Brands THEN {t \in Terms[type] : amount >= t[1]} ELSE {}

BuildCard ==
  /\ installments' = {} /\ offered' = total
  /\ UNCHANGED <<creditCardType, settings, billing, amounts>>

(* Mutant: only the first type is looked at. *)
OnBrandFirst(type) ==
  /\ creditCardType' = type
  /\ \/ type = None /\ installments' = {} /\ offered' = total
     \/ /\ type # None /\ creditCardType = None
        /\ installments' = Plans(type, total) /\ offered' = total
     \/ type # None /\ creditCardType # None /\ UNCHANGED <<installments, offered>>
  /\ UNCHANGED <<settings, billing, amounts>>

(* The library tells the brand while the number is entered; a brand that is *)
(* not known has no type.                                                   *)
OnBrand(type) ==
  /\ creditCardType' = type
  /\ \/ type = None /\ installments' = {} /\ offered' = total
     \/ /\ type \notin {None, creditCardType}
        /\ installments' = Plans(type, total) /\ offered' = total
     \/ type # None /\ type = creditCardType /\ UNCHANGED <<installments, offered>>
  /\ UNCHANGED <<settings, billing, amounts>>

(* ChargedCurrency::getQuoteAmountCurrency *)
Charged == IF chargedCurrency = "base" THEN baseTotal ELSE total

(* The check of the server for the amount charged *)
InstallmentsValid(number, type, amount) ==
  type \in Brands /\ \E t \in Terms[type] : t[2] = number /\ amount >= t[1]

-----------------------------------------------------------------------------
Next ==
  \/ EditAddress \/ ChangeCart \/ BuildCard
  \/ \E type \in Brands \cup {None} : OnBrand(type)

Spec == Init /\ [][Next]_vars

-----------------------------------------------------------------------------
(* Properties. *)

(* The quote, the settings and the card form hold what they are meant to.  *)
TypeOK ==
  /\ houseNumberStreetLine \in HouseNumberLines
  /\ customerStreetLinesEnabled \in StreetLines
  /\ chargedCurrency \in {"base", "display"}
  /\ billing \in Streets \cup {None}
  /\ currency \in Currencies /\ total \in Totals /\ baseTotal \in Totals
  /\ creditCardType \in Brands \cup {None}
  /\ installments \subseteq Nat \X Nat /\ offered \in Nat

(* Splitting a street into its name and the house number neither loses nor *)
(* doubles any of the lines that are in use, whichever of the settings and *)
(* of the page's two functions is used (adyen-pm-method.js 409,            *)
(* configHelper.js 22).                                                    *)
StreetKept ==
  LET Whole(parts, lines) ==
        LET house == IF parts.house = NotAvailable THEN <<>> ELSE parts.house IN
        \A t \in Tokens :
          LET of(ts) == Cardinality({i \in DOMAIN ts : ts[i] = t}) IN
          of(parts.street) + of(house) = of(Joined(lines))
  IN billing # None =>
       /\ Whole(FormattedStreet(billing), Enabled(billing))
       /\ Whole(HelperStreet(billing), billing)

(* An amount that the page converts to minor units and the server converts *)
(* back is off by half a minor unit at most, so that whole minor units are *)
(* kept; but not where the tables of currencyHelper.js and                 *)
(* Data::originalAmount disagree: these amounts come back ten or a hundred *)
(* times as large.                                                         *)
AmountRestored ==
  currency \notin {"IQD", "MRO", "BYR", "GHC"} =>
    LET restored == OriginalAmount(FormatAmount(total, currency), currency) IN
    /\ 2 * (restored - total) <= MinorUnit(currency)
    /\ 2 * (total - restored) <= MinorUnit(currency)

(* The server accepts every number of installments that is offered for the *)
(* card, as long as the amount it charges is no less than the total they   *)
(* were offered for: they are never those of a card entered before         *)
(* (InstallmentValidator.php 102).  The page offers by the total it shows, *)
(* so that a charged base currency worth more may have them refused.       *)
OffersAccepted ==
  Charged >= offered =>
    \A t \in installments : InstallmentsValid(t[2], creditCardType, Charged)
=============================================================================
