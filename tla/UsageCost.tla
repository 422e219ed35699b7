----------------------------- MODULE UsageCost -----------------------------
(***************************************************************************)
(* The estimate of what a call of a provider costs (internal/usagecost):   *)
(* the quantities that the provider reports, times the unit prices that    *)
(* the model had when the execution began, in exact fractions, and rounded *)
(* once, at the end.                                                       *)
(*                                                                         *)
(* An amount is what its notation says: a number of so many digits, how    *)
(* many of them are behind the point, and an exponent.  Its value is       *)
(* counted in units of the smallest amount that can be read, 10^-MaxScale. *)
(***************************************************************************)
EXTENDS Integers, Sequences, FiniteSetsExt

CONSTANTS
  Places,        \* decimal places of a cost (8 in the code)
  MaxScale,      \* bound of an exponent and of a scale (64)
  MaxDigits,     \* bound of the digits of an amount (64)
  MaxUnitPrice,  \* (1 000 000)
  Undecodable,   \* pricing that is no JSON, or without unit prices
  MaxCost        \* what a column DECIMAL(18,8) holds, in 10^-Places

ASSUME CostAssumption ==
  /\ Places \in Nat /\ MaxScale \in Nat /\ Places <= MaxScale
  /\ MaxDigits \in Nat /\ Places < MaxDigits /\ MaxUnitPrice \in Nat /\ MaxCost \in Nat

\* The powers of ten up to the largest that an amount needs.
Ten[n \in 0 .. 2 * MaxScale] == IF n = 0 THEN 1 ELSE 10 * Ten[n - 1]

Unit == Ten[MaxScale]            \* one, in units of the smallest amount
Place == Ten[MaxScale - Places]

\* parseNonNegativeAmount: which notations are amounts ...
ReadableAmount(amount) ==
  /\ amount.digits \in 1 .. MaxDigits
  /\ amount.exponent \in -MaxScale .. MaxScale
  /\ amount.behind - amount.exponent \in -MaxScale .. MaxScale
  /\ amount.negative => amount.number = 0

\* ... and what they amount to.
Value(amount) == amount.number * Ten[MaxScale - (amount.behind - amount.exponent)]

ReadablePrice(amount) == ReadableAmount(amount) /\ Value(amount) <= MaxUnitPrice * Unit

\* decodePricing, parseUnitPrices: one price that cannot be read spoils them all.
ReadablePrices(prices) ==
  prices # Undecodable /\ \A name \in DOMAIN prices : ReadablePrice(prices[name])

\* A unit price may go by several names, of which the first counts.
Aliases ==
  [input |-> <<"inputToken", "input_token", "inputTokens", "input_tokens">>,
   output |-> <<"outputToken", "output_token", "outputTokens", "output_tokens">>,
   image |-> <<"image", "images", "outputImage", "output_image">>]

Kinds == DOMAIN Aliases

NamesOf(prices, kind) == {i \in DOMAIN Aliases[kind] : Aliases[kind][i] \in DOMAIN prices}

\* Mutant: what has no price is free.
CalculableFree(prices, usage) ==
  /\ \A kind \in Kinds : usage[kind] >= 0
  /\ ReadablePrices(prices)

\* Only what is used needs a price.
Calculable(prices, usage) ==
  /\ \A kind \in Kinds : usage[kind] >= 0
  /\ ReadablePrices(prices)
  /\ \A kind \in Kinds : usage[kind] > 0 => NamesOf(prices, kind) # {}

\* requiredPrice: a price that is not needed counts as zero.
Price(prices, kind) ==
  IF NamesOf(prices, kind) = {} THEN 0
  ELSE Value(prices[Aliases[kind][Min(NamesOf(prices, kind))]])

Total(prices, usage) ==
  MapThenSumSet(LAMBDA kind : usage[kind] * Price(prices, kind), Kinds)

\* big.Rat.FloatString: to the nearest, and up from the middle.
Rounded(value) == (value + Place \div 2) \div Place

Unavailable == [status |-> "UNAVAILABLE", cost |-> 0]

Estimate(prices, usage) ==
  IF Calculable(prices, usage)
  THEN [status |-> "CALCULATED", cost |-> Rounded(Total(prices, usage))]
  ELSE Unavailable

-----------------------------------------------------------------------------
\* Reports read the costs of the database, add those that can be read, and
\* divide.  A cost is written with all its places and at least one digit before.
Written(cost) ==
  [number |-> cost, digits |-> Places + 1, behind |-> Places, exponent |-> 0, negative |-> FALSE]

SumDecimal8(amounts) ==
  Rounded(MapThenSumSet(LAMBDA i : IF ReadableAmount(amounts[i]) THEN Value(amounts[i]) ELSE 0,
                        DOMAIN amounts))

DivideDecimal8(amount, denominator) ==
  IF denominator <= 0 \/ ~ReadableAmount(amount) THEN 0
  ELSE (2 * Value(amount) + Place * denominator) \div (2 * Place * denominator)

=============================================================================
