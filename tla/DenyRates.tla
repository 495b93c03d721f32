------------------------------ MODULE DenyRates ------------------------------
(***************************************************************************)
(* How the deny rate of a release is judged against those of the other     *)
(* releases a host remembers (state_store.rs), under the policy that the   *)
(* runtime telemetry configures.  The binary's arithmetic is in floating   *)
(* point; here a rate is a whole number of RateUnits of evaluations, and   *)
(* what it is compared with is brought to one denominator.                 *)
(***************************************************************************)
EXTENDS Integers, Sequences

CONSTANTS
    Samples,       \* remembered counts and a configuration of the detector
    RateUnit,      \* bound: a number that twice every count of evaluations divides
    MinReleases,   \* minimum_baseline_releases
    MinRise,       \* minimum_absolute_deviation, in per cent
    DefaultSigma   \* baseline_sigma_multiplier

VARIABLES
    sample,    \* [counts |-> <<[seen, denied], ...>> of the releases, threshold |-> n, samples |-> n]
    condemned  \* the releases that the detector condemns, once it has run

ratesVars == <<sample, condemned>>

RatesInit(samples) == sample \in samples /\ condemned = <<>>

SamplesAreCounts ==
    /\ RateUnit \in Nat
    /\ MinReleases \in Nat
    /\ MinRise \in Nat
    /\ DefaultSigma \in Nat
    /\ \A s \in Samples :
         /\ s.threshold \in Nat
         /\ s.samples \in Nat
         /\ s.counts \in Seq([seen : Nat \ {0}, denied : Nat])
         /\ \A r \in DOMAIN s.counts : RateUnit % (2 * s.counts[r].seen) = 0

(* poison_pill_config_from_telemetry; a threshold of 0 stands for all that *)
(* are not finite and positive.                                            *)
PolicyOf(config) ==
    [current |-> config.samples,
     baseline |-> config.samples * MinReleases,
     sigma |-> IF config.threshold > 0 THEN config.threshold ELSE DefaultSigma]

(* ReleaseTelemetryRecord::recompute_rate                                  *)
Rate(record) == record.denied * (RateUnit \div record.seen)

(* The sum of a sequence of numbers.                                       *)
Total(numbers) ==
    LET sums[i \in 0..Len(numbers)] == IF i = 0 THEN 0 ELSE sums[i - 1] + numbers[i]
    IN sums[Len(numbers)]

(* The squared distances of the rates from their mean rates / size.        *)
Distance(counts, rates, r) == Len(counts) * Rate(counts[r]) - rates
Spread(counts, rates) ==
    Total([r \in 1..Len(counts) |-> Distance(counts, rates, r) * Distance(counts, rates, r)])
Seen(counts) == Total([r \in 1..Len(counts) |-> counts[r].seen])

(* compute_rolling_deny_rate_baseline: the sum of the releases' rates, and *)
(* the sum of their squared distances from the mean.  Both are scaled: the *)
(* mean is rates / size, the variance spread / size^3.                     *)
(* Mutant: the evaluations of all releases make one rate.                  *)
PooledBaseline(counts) ==
    LET denied == Total([r \in 1..Len(counts) |-> counts[r].denied])
        rates == (denied * RateUnit * Len(counts)) \div Seen(counts)
    IN [size |-> Len(counts), seen |-> Seen(counts), rates |-> rates, spread |-> Spread(counts, rates)]

Baseline(counts) ==
    LET rates == Total([r \in 1..Len(counts) |-> Rate(counts[r])])
    IN [size |-> Len(counts), seen |-> Seen(counts), rates |-> rates, spread |-> Spread(counts, rates)]

OtherCounts(counts, release) ==
    [r \in 1..Len(counts) - 1 |-> IF r < release THEN counts[r] ELSE counts[r + 1]]

(* deny_rate_deviation_for and is_concerning: rise / size is the rate's    *)
(* distance from the mean.                                                 *)
Concerning(counts, config, release) ==
    LET policy == PolicyOf(config)
        baseline == Baseline(OtherCounts(counts, release))
        rise == baseline.size * Rate(counts[release]) - baseline.rates
    IN /\ baseline.size >= MinReleases
       /\ counts[release].seen >= policy.current
       /\ baseline.seen >= policy.baseline
       /\ 100 * rise >= MinRise * baseline.size * RateUnit
       /\ rise > 0
       /\ rise * rise * baseline.size > policy.sigma * policy.sigma * baseline.spread

(* check_and_rollback, for each release that might be the trusted one.     *)
Judged(counts, config) == {r \in DOMAIN counts : Concerning(counts, config, r)}
Judge ==
    /\ condemned = <<>>
    /\ condemned' = <<Judged(sample.counts, sample)>>
    /\ UNCHANGED sample

RatesNext == Judge

-----------------------------------------------------------------------------
(* Properties.                                                             *)

(* A single release stands out only while the others are few.  With no     *)
(* more than sigma^2 + 1 other releases, a condemned one denies more often *)
(* than every other, so that the release a rollback goes back to is not    *)
(* condemned on the same evidence (rollback.rs, check_and_rollback).       *)
HighestIsCondemned ==
    condemned # <<>> =>
        \A r \in condemned[1] :
            LET others == DOMAIN sample.counts \ {r}
                sigma == PolicyOf(sample).sigma
            IN Len(sample.counts) - 1 <= sigma * sigma + 1 =>
                 /\ condemned[1] = {r}
                 /\ \A o \in others : Rate(sample.counts[o]) < Rate(sample.counts[r])

(* "Each release contributes one rate, so a high-volume release cannot     *)
(* drown out every smaller release": twice the evaluations and denials of  *)
(* another release change no verdict (state_store.rs,                      *)
(* RollingDenyRateBaseline).                                               *)
Twice(record) == [seen |-> 2 * record.seen, denied |-> 2 * record.denied]
VolumeDoesNotDrownOut ==
    condemned # <<>> =>
        \A r, o \in DOMAIN sample.counts :
            LET counts == [sample.counts EXCEPT ![o] = Twice(@)]
            IN (/\ o # r
                /\ Baseline(OtherCounts(sample.counts, r)).seen >= PolicyOf(sample).baseline)
               => (r \in condemned[1] <=> Concerning(counts, sample, r))

DenyRatesHold == HighestIsCondemned /\ VolumeDoesNotDrownOut
=============================================================================
