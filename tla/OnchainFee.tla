----------------------------- MODULE OnchainFee -----------------------------
(***************************************************************************)
(* OnchainFeeMonitor: the window of feerate samples and the judgement      *)
(* "low fees" or "high fees" with its hysteresis.  The feerate is fetched  *)
(* from lightningd and judged later, in a transaction, so that the check   *)
(* at Init, its retries and the ten-minute timer may interleave.           *)
(***************************************************************************)
EXTENDS Integers, Sequences, FiniteSets, SequencesExt

CONSTANTS
    Feerates,               \* feerates lightningd may report, above zero
    InitialSample,          \* what the window is filled with at first
    num_initial_samples,
    max_num_samples,
    hi_to_lo_percentile, mid_percentile, lo_to_hi_percentile,
    MaxTimers               \* bound: Timer10Minutes

FeeUnknown == 0
Flows == {"init", "retry", "timer"}

VARIABLES
    samples,                \* the table, by id
    is_low_fee_flag,
    last_feerate,
    flowAt,                 \* where each of the three flows is
    saved_feerate,          \* their local feerate
    timers,
    judged                  \* history: the feerate the flag was last set by

onchainVars == <<samples, is_low_fee_flag, last_feerate, flowAt, saved_feerate,
                 timers, judged>>

OnchainInit ==
    /\ samples = [i \in 1 .. num_initial_samples |-> InitialSample]
    /\ is_low_fee_flag = FALSE
    /\ last_feerate = FeeUnknown
    /\ flowAt = [f \in Flows |-> IF f = "init" THEN "fetch" ELSE "idle"]
    /\ saved_feerate = [f \in Flows |-> 0]
    /\ timers = 0
    /\ judged = FeeUnknown

-----------------------------------------------------------------------------
add_sample(feerate) ==
    LET s == Append(samples, feerate)
        excess == IF Len(s) > max_num_samples THEN Len(s) - max_num_samples ELSE 0
    IN  SubSeq(s, excess + 1, Len(s))

get_feerate_at_percentile(s, percentile) ==
    LET index == (Len(s) * percentile) \div 100
        last == Len(s) - 1
    IN  SortSeq(s, <)[1 + (IF index > last THEN last ELSE index)]

(* on_init and its retry: a known feerate is compared with the middle      *)
(* percentile, an unknown one asked for again after 30 seconds.  retry()   *)
(* compares its own saved_feerate, which nothing assigns.                  *)
Fetched(f, feerate) ==
    IF f = "retry" THEN 0 ELSE feerate

get_feerate(f, feerate) ==
    /\ flowAt[f] = "fetch"
    /\ IF feerate = FeeUnknown
       THEN /\ flowAt' = IF f = "timer" THEN [flowAt EXCEPT ![f] = "idle"]
                         ELSE [flowAt EXCEPT ![f] = "idle", !["retry"] = "wait"]
            /\ UNCHANGED <<last_feerate, saved_feerate>>
       ELSE /\ flowAt' = [flowAt EXCEPT ![f] = "judge"]
            /\ saved_feerate' = [saved_feerate EXCEPT ![f] = Fetched(f, feerate)]
            /\ last_feerate' = IF f = "retry" THEN last_feerate ELSE feerate
    /\ UNCHANGED <<samples, is_low_fee_flag, timers, judged>>

(* Waiter::wait(30).                                                       *)
retry ==
    /\ flowAt["retry"] = "wait"
    /\ flowAt' = [flowAt EXCEPT !["retry"] = "fetch"]
    /\ UNCHANGED <<samples, is_low_fee_flag, last_feerate, saved_feerate, timers, judged>>

InitJudges ==
    /\ flowAt["init"] = "judge"
    /\ is_low_fee_flag' =
          (saved_feerate["init"] < get_feerate_at_percentile(samples, mid_percentile))
    /\ judged' = saved_feerate["init"]
    /\ flowAt' = [flowAt EXCEPT !["init"] = "idle"]
    /\ UNCHANGED <<samples, last_feerate, saved_feerate, timers>>

RetryJudges ==
    /\ flowAt["retry"] = "judge"
    /\ is_low_fee_flag' =
          (saved_feerate["retry"] <= get_feerate_at_percentile(samples, mid_percentile))
    /\ judged' = saved_feerate["retry"]
    /\ flowAt' = [flowAt EXCEPT !["retry"] = "idle"]
    /\ UNCHANGED <<samples, last_feerate, saved_feerate, timers>>

Timer10Minutes ==
    /\ timers < MaxTimers
    /\ flowAt["timer"] = "idle"
    /\ timers' = timers + 1
    /\ flowAt' = [flowAt EXCEPT !["timer"] = "fetch"]
    /\ UNCHANGED <<samples, is_low_fee_flag, last_feerate, saved_feerate, judged>>

(* The hysteresis, on the window that has the new sample.                  *)
(* Mutant: low turns to high at the threshold already.                     *)
HysteresisAtThreshold(low, feerate, s) ==
    IF low THEN ~(feerate >= get_feerate_at_percentile(s, lo_to_hi_percentile))
           ELSE feerate <= get_feerate_at_percentile(s, hi_to_lo_percentile)

Hysteresis(low, feerate, s) ==
    IF low THEN ~(feerate > get_feerate_at_percentile(s, lo_to_hi_percentile))
           ELSE feerate <= get_feerate_at_percentile(s, hi_to_lo_percentile)

on_timer ==
    /\ flowAt["timer"] = "judge"
    /\ samples' = add_sample(saved_feerate["timer"])
    /\ is_low_fee_flag' = Hysteresis(is_low_fee_flag, saved_feerate["timer"], samples')
    /\ judged' = saved_feerate["timer"]
    /\ flowAt' = [flowAt EXCEPT !["timer"] = "idle"]
    /\ UNCHANGED <<last_feerate, saved_feerate, timers>>

OnchainStep ==
    \/ \E f \in Flows, feerate \in Feerates \cup {FeeUnknown} : get_feerate(f, feerate)
    \/ retry \/ InitJudges \/ RetryJudges \/ Timer10Minutes \/ on_timer

-----------------------------------------------------------------------------
(* No waffling: a feerate that was judged low and that the next timer sees  *)
(* again is still low, although the window has moved in the meantime; and   *)
(* a window in which every sample is the judged feerate, as at the minimum  *)
(* feerate for two weeks, is judged low by the timer.                       *)
SteadyFeeStaysLow ==
    [][on_timer =>
         /\ is_low_fee_flag /\ judged = judged' => is_low_fee_flag'
         /\ (\A i \in DOMAIN samples' : samples'[i] = judged') => is_low_fee_flag']_onchainVars
=============================================================================
