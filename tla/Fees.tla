-------------------------------- MODULE Fees --------------------------------
(***************************************************************************)
(* Money and T4: the fee and tax a settlement line should bear, by the     *)
(* rate card band that applies to it, and the verdict on what the gateway  *)
(* reported.  Amounts are whole paise: Money quantizes every result to two *)
(* places of a rupee.                                                      *)
(***************************************************************************)
EXTENDS Integers

CONSTANTS
    Instruments,    \* the instruments the rate card has a band for
    CardLimit,      \* max_amount of its bands, 9999999900 paise in the code
    FeeTolerance    \* DEFAULT_TOLERANCE, 2 paise

NoInstrument == "none"
NoEnd == -1

ASSUME InstrumentAssumption == NoInstrument \notin Instruments
ASSUME CardAssumption == CardLimit \in Nat /\ FeeTolerance \in Nat

Magnitude(x) == IF x < 0 THEN -x ELSE x

\* quantize(TWO_PLACES, ROUND_HALF_UP) of n / d paise: half goes away from zero.
RoundHalfUp(n, d) ==
    LET q == (2 * Magnitude(n) + d) \div (2 * d) IN IF n < 0 THEN -q ELSE q

\* The demo rate card: one band for each instrument, 2% and 18% tax on the fee.
default_rate_card(start) ==
    {[instrument |-> i, min |-> 0, max |-> CardLimit, bps |-> 200, flat |-> 0,
      taxBps |-> 1800, from |-> start, to |-> NoEnd] : i \in Instruments}

Applies(b, instrument, gross, day) ==
    /\ instrument # NoInstrument /\ b.instrument = instrument
    /\ b.min <= gross /\ gross <= b.max
    /\ b.from <= day /\ (b.to = NoEnd \/ day <= b.to)

\* Of two bands that apply, the later one, then the narrower one.
Preferred(a, b) ==
    \/ a.from > b.from
    \/ a.from = b.from /\ a.max - a.min <= b.max - b.min

\* find_applicable_band, as the set of the one band it returns or none.
ApplicableBand(bands, instrument, gross, day) ==
    LET candidates == {b \in bands : Applies(b, instrument, gross, day)}
    IN IF candidates = {} THEN {}
       ELSE {CHOOSE b \in candidates : \A c \in candidates : Preferred(b, c)}

ExpectedFee(band, gross) == RoundHalfUp(gross * band.bps + 10000 * band.flat, 10000)
ExpectedTax(band, gross) == RoundHalfUp(ExpectedFee(band, gross) * band.taxBps, 10000)

Within(delta) == Magnitude(delta) <= FeeTolerance

\* The FeeVarianceRecord of a payment line; without a band it is flagged at 0.
Verdict(bands, instrument, gross, fee, tax, day) ==
    LET found == ApplicableBand(bands, instrument, gross, day)
        band == CHOOSE b \in found : TRUE
        delta == (fee + tax) - (ExpectedFee(band, gross) + ExpectedTax(band, gross))
    IN IF found = {} THEN [delta |-> 0, within |-> FALSE]
       ELSE [delta |-> delta, within |-> Within(delta)]

=============================================================================
