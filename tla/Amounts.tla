------------------------------- MODULE Amounts -------------------------------
(***************************************************************************)
(* Amounts of money: what an --amount in a --unit is in base units         *)
(* (src/payment.rs), the price of bitcoin and conversions with it          *)
(* (src/price.rs), and the sums and bars of a wallet's headline            *)
(* (src/balance.rs).                                                       *)
(*                                                                         *)
(* A decimal is its whole part and the digits of its fraction; the scales  *)
(* and the widths of integers are constants.                               *)
(***************************************************************************)
EXTENDS Integers, Sequences, SequencesExt, FiniteSets, FiniteSetsExt

CONSTANTS
    Scale,          \* AmountUnit::scale, by unit
    MaxAmount,      \* i64::MAX
    MaxUnits,       \* u64::MAX
    MaxProduct,     \* u128::MAX
    PriceDigits,    \* PRICE_FRACTION_DIGITS
    MsatsPerBtc,
    CentsPerUsd,
    Days,           \* ACTIVITY_DAYS
    Bars            \* how many levels a sparkline has

BtcUnits == {"msats", "sats", "btc"}
UsdUnits == {"cents", "usd"}
Units == BtcUnits \cup UsdUnits

ASSUME ScalesAreNatural == Scale \in [Units -> Nat] /\ Scale["msats"] = 0 /\ Scale["cents"] = 0
ASSUME WidthsAreNatural == {MaxAmount, MaxUnits, MaxProduct, PriceDigits, Days, Bars} \subseteq Nat /\ Bars >= 2
ASSUME RatesArePositive == MsatsPerBtc \in Nat \ {0} /\ CentsPerUsd \in Nat \ {0}

CurrencyOf(unit) == IF unit \in BtcUnits THEN "btc" ELSE "usd"

BaseUnit(currency) == IF currency = "btc" THEN "msats" ELSE "cents"

Refused == -1
\* 10 ^ n.
powersOfTen[n \in Nat] == IF n = 0 THEN 1 ELSE 10 * powersOfTen[n - 1]
Power(n) == powersOfTen[n]

\* The products of constants that price.rs does not check never overflow.
ASSUME DenominatorsFit == \A n \in 0..PriceDigits : Power(n) * MsatsPerBtc <= MaxProduct

Shifted(n, digit) == 10 * n + digit
Value(digits) == FoldLeft(Shifted, 0, digits)

\* The fraction without the zeros it ends with.
Significant(digits) ==
    LET ends == {i \in DOMAIN digits : digits[i] # 0} IN
    IF ends = {} THEN <<>> ELSE SubSeq(digits, 1, Max(ends))

Base(amount, unit) ==
    LET digits == Significant(amount.digits) IN
    amount.whole * Power(Scale[unit]) + Value(digits) * Power(Scale[unit] - Len(digits))

\* Amount::parse: the base units of a decimal, or Refused.
Parse(amount, unit) ==
    IF ~amount.decimal \/ Len(Significant(amount.digits)) > Scale[unit] THEN Refused
    ELSE IF Base(amount, unit) > MaxAmount THEN Refused ELSE Base(amount, unit)

-----------------------------------------------------------------------------
(* Prices *)

\* UsdPerBtc::parse: at most PriceDigits digits of the fraction are kept.
Rate(price) ==
    LET digits == SubSeq(price.digits, 1, Min({PriceDigits, Len(price.digits)})) IN
    [mantissa |-> price.whole * Power(Len(digits)) + Value(digits), scale |-> Len(digits)]

RateIsValid(price) == price.decimal /\ Rate(price).mantissa \in 1..MaxProduct

\* checked_mul.
Product(a, b) == IF a = Refused \/ a * b > MaxProduct THEN Refused ELSE a * b

\* divide_rounding: half up.
Divide(numerator, denominator) == (numerator + denominator \div 2) \div denominator

\* A conversion that divides by zero: the process panics.
Panics == -2

Quotient(numerator, denominator) ==
    IF numerator = Refused THEN Refused
    ELSE IF denominator = 0 THEN Panics
    ELSE IF numerator + denominator \div 2 > MaxProduct \/ Divide(numerator, denominator) > MaxUnits THEN Refused
    ELSE Divide(numerator, denominator)

MsatsToCents(rate, msats) ==
    Quotient(Product(Product(msats, rate.mantissa), CentsPerUsd), Power(rate.scale) * MsatsPerBtc)

\* The product of price.rs that is not checked: a release build wraps it.
Divisor(rate) == (rate.mantissa * CentsPerUsd) % (MaxProduct + 1)

CentsToMsats(rate, cents) ==
    Quotient(Product(Product(cents, MsatsPerBtc), Power(rate.scale)), Divisor(rate))

Other(currency) == IF currency = "btc" THEN "usd" ELSE "btc"

\* PriceService::convert, of an amount that was parsed.
Convert(rate, amount, unit) ==
    IF CurrencyOf(unit) = "usd" THEN CentsToMsats(rate, amount) ELSE MsatsToCents(rate, amount)

-----------------------------------------------------------------------------
(* The headline of a wallet *)

\* base_units: an amount of the API in its base unit, or Refused.
BaseUnits(balance) ==
    LET factor == CASE balance.unit \in {"none", BaseUnit(balance.currency)} -> 1
                    [] balance.unit = "sats" /\ balance.currency = "btc" -> Power(Scale["sats"])
                    [] balance.unit = "btc" /\ balance.currency = "btc" -> Power(Scale["btc"])
                    [] balance.unit = "usd" /\ balance.currency = "usd" -> Power(Scale["usd"])
                    [] OTHER -> 0 IN
    IF factor = 0 \/ balance.amount * factor > MaxUnits THEN Refused ELSE balance.amount * factor

\* The first balance in bitcoin, of a wallet on mainnet: which one, or 0.
Priceable(balances, network) ==
    LET priced == {i \in DOMAIN balances :
                     balances[i].currency = "btc" /\ BaseUnits(balances[i]) # Refused} IN
    IF network # "mainnet" \/ priced = {} THEN 0 ELSE Min(priced)

\* Headline::price.
Estimate(balances, network, rate) ==
    LET i == Priceable(balances, network) IN
    IF i = 0 THEN Refused ELSE MsatsToCents(rate, BaseUnits(balances[i]))

Saturating(a, b) == Min({a + b, MaxUnits})

\* A payment is [age, completed, balance].
Counts(payment, currency) ==
    /\ payment.completed /\ payment.balance.currency = currency
    /\ BaseUnits(payment.balance) # Refused /\ payment.age \in 0..(Days - 1)

Volume(payment, currency) ==
    [counts |-> Counts(payment, currency), day |-> Days - payment.age, volume |-> BaseUnits(payment.balance)]

AddVolume(days, v) == IF v.counts THEN [days EXCEPT ![v.day] = Saturating(@, v.volume)] ELSE days

\* activity: completed volume per day, oldest first.
Activity(payments, currency) ==
    FoldLeft(AddVolume, [day \in 1..Days |-> 0], [i \in DOMAIN payments |-> Volume(payments[i], currency)])

\* sparkline: the bar of one day.
Level(volume, busiest) ==
    IF busiest = 0 \/ volume = 0 THEN 0
    ELSE Min({1 + (volume * (Bars - 2)) \div busiest, Bars - 1})

Sparkline(days) == [day \in DOMAIN days |-> Level(days[day], Max(Range(days) \cup {0}))]

=============================================================================
