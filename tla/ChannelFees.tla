---------------------------- MODULE ChannelFees ----------------------------
(***************************************************************************)
(* From the fees of a peer's other channels to the fee of ours: the survey *)
(* (PeerCompetitorFeeMonitor), ChannelFeeManager with the three modifiers  *)
(* it solicits, ChannelFeeSetter, and FeeMonitor which records it all.     *)
(* One peer; several surveys may be worked on at the same time.            *)
(*                                                                         *)
(* Fees are small naturals, multipliers are in tenths.  The price card *)
(* is any of PriceMults (module PriceTheory has the game).                 *)
(***************************************************************************)
EXTENDS Integers, Sequences, FiniteSets, FiniteSetsExt

CONSTANTS
    Surveys,        \* ids of the messages PeerMedianChannelFee
    Gossip,         \* possible results of listchannels: sequences of
                    \* [ours, bad, base, ppm, weight], with a positive weight
    Worlds,         \* possible network capacities [me, rival, rivals], where
                    \* rivals is the number of other channels of the peer
    Balances,       \* possible to_us, of TotalBalance; NoChannel
    FirstWorld, FirstBalance,
    PriceMults, BinMult,
    TotalBalance, num_bins,
    MaxEvents       \* bound: failing commands, channels that appear or go,
                    \* days that end and settings that change

NaN == -1           \* 0.0 / 0.0
NoneYet == -2       \* no value
NoChannel == -3
Threw == -4         \* an exception instead of a multiplier

VARIABLES
    soliciting, initted, modifiers, zero_base_fee,  \* ChannelFeeManager
    job,            \* survey -> where its perform() is, its inputs and results
    sizeAt,         \* survey -> where FeeModderBySize is for it
    multiplier,     \* FeeModderBySize::multipliers[peer], or NoneYet
    capacities,     \* NetworkCapacityTable: null, empty or a world
    sem, resetting, \* holder of its semaphore; resets that wait for it
    world, to_us,   \* what lightningd would answer
    info,           \* FeeModderByBalance::infomap[peer]: [bin, to_us] or NoInfo
    rpcReady, unmanagedFee,                         \* ChannelFeeSetter
    fee,            \* the fee lightningd has for the channel
    feemon, events, \* FeeMonitor: peers[peer] and the last change event
    resets, rpcErrors

managerVars == <<soliciting, initted, modifiers, zero_base_fee>>
sizeVars == <<sizeAt, multiplier, capacities, sem, resetting>>
setterVars == <<rpcReady, unmanagedFee, fee>>
monitorVars == <<feemon, events>>
feeWorld == <<world, to_us, resets, rpcErrors>>
feeVars == <<managerVars, job, sizeVars, info, setterVars, monitorVars, feeWorld>>

NullTable == [table |-> "null"]
EmptyTable == [table |-> "empty"]
NoInfo == [none |-> TRUE]
NoFee == [base |-> NoneYet, ppm |-> NoneYet]
Idle == [at |-> "idle", median |-> NoFee, mults |-> << >>, set |-> NoFee]
NoSize == [at |-> "idle", total |-> 0, rival |-> 0, mult |-> NoneYet]
NoSnapshot == [baseline |-> NoFee, size |-> NoneYet, balance |-> NoneYet, price |-> NoneYet]

FeeInit ==
    /\ soliciting = FALSE /\ initted = FALSE /\ modifiers = << >>
    /\ zero_base_fee = "allow"
    /\ job = [s \in Surveys |-> Idle]
    /\ sizeAt = [s \in Surveys |-> NoSize]
    /\ multiplier = NoneYet /\ capacities = NullTable /\ sem = << >> /\ resetting = 0
    /\ world = FirstWorld /\ to_us = FirstBalance
    /\ info = NoInfo
    /\ rpcReady = FALSE /\ unmanagedFee = FALSE
    /\ fee = NoFee
    /\ feemon = NoSnapshot /\ events = << >>
    /\ resets = 0 /\ rpcErrors = 0

-----------------------------------------------------------------------------
(* Surveyor: the channels to the peer other than ours, weighted by size,   *)
(* up to the first one lightningd describes in a way it does not expect.   *)
WeightedMedian(samples, val) ==
    LET weight(I) == MapThenSumSet(LAMBDA i : samples[i].weight, I)
        upto(v) == {i \in DOMAIN samples : val[i] <= v}
    IN  Min({v \in {val[i] : i \in DOMAIN samples} :
                2 * weight(upto(v)) > weight(DOMAIN samples)})

one_channel(g) ==
    LET bad == {i \in DOMAIN g : g[i].bad /\ ~g[i].ours}
        Other(c) == ~c.ours
    IN  SelectSeq(SubSeq(g, 1, IF bad = {} THEN Len(g) ELSE Min(bad) - 1), Other)

extract(samples) ==
    [base |-> WeightedMedian(samples, [i \in DOMAIN samples |-> samples[i].base]),
     ppm |-> WeightedMedian(samples, [i \in DOMAIN samples |-> samples[i].ppm])]

(* on_periodic: a peer without other channels has no result.  FeeMonitor's *)
(* on_baseline handles the message as well.                                *)
PeerMedianChannelFee(s, g) ==
    /\ job[s].at = "idle"
    /\ one_channel(g) # << >>
    /\ job' = [job EXCEPT ![s].at = "solicit", ![s].median = extract(one_channel(g))]
    /\ feemon' = [feemon EXCEPT !.baseline = extract(one_channel(g))]
    /\ UNCHANGED <<managerVars, sizeVars, info, setterVars, events, feeWorld>>

-----------------------------------------------------------------------------
(* ChannelFeeManager::solicit: once, by whoever comes first.               *)
(* Mutant: a second survey does not wait for the one that solicits.        *)
solicitTwice(s) ==
    /\ job[s].at = "solicit"
    /\ IF initted THEN job' = [job EXCEPT ![s].at = "modify"] /\ UNCHANGED <<soliciting, modifiers>>
       ELSE /\ soliciting' = TRUE
            /\ modifiers' = modifiers
            /\ job' = [job EXCEPT ![s].at = "soliciting"]
    /\ UNCHANGED <<initted, zero_base_fee, sizeVars, info, setterVars, monitorVars, feeWorld>>

solicit(s) ==
    /\ job[s].at = "solicit"
    /\ ~(soliciting /\ ~initted)
    /\ IF initted THEN job' = [job EXCEPT ![s].at = "modify"] /\ UNCHANGED <<soliciting, modifiers>>
       ELSE /\ soliciting' = TRUE
            /\ modifiers' = modifiers
            /\ job' = [job EXCEPT ![s].at = "soliciting"]
    /\ UNCHANGED <<initted, zero_base_fee, sizeVars, info, setterVars, monitorVars, feeWorld>>

(* The answers of the three modules, then the end of the raise.            *)
ProvideChannelFeeModifier(s) ==
    /\ job[s].at = "soliciting"
    /\ modifiers' = IF soliciting THEN modifiers \o <<"size", "balance", "price">> ELSE modifiers
    /\ job' = [job EXCEPT ![s].at = "provided"]
    /\ UNCHANGED <<soliciting, initted, zero_base_fee, sizeVars, info, setterVars, monitorVars,
                   feeWorld>>

Solicited(s) ==
    /\ job[s].at = "provided"
    /\ soliciting' = FALSE
    /\ initted' = TRUE
    /\ job' = [job EXCEPT ![s].at = "modify"]
    /\ UNCHANGED <<modifiers, zero_base_fee, sizeVars, info, setterVars, monitorVars, feeWorld>>

(* perform: all the modifiers run concurrently.  The transaction of the    *)
(* price modifier shares nothing with the other two and is taken here.     *)
modify(s) ==
    /\ job[s].at = "modify"
    /\ \E m \in PriceMults :
          /\ job' = [job EXCEPT ![s].at = "mods",
                        ![s].mults = [i \in DOMAIN modifiers |->
                                        IF modifiers[i] = "price" THEN m ELSE NoneYet]]
          /\ feemon' = [feemon EXCEPT !.price = m]
    /\ sizeAt' = [sizeAt EXCEPT ![s].at = "start"]
    /\ UNCHANGED <<managerVars, multiplier, capacities, sem, resetting, info, setterVars,
                   events, feeWorld>>

Resolve(s, m, v) ==
    [job EXCEPT ![s].mults = [i \in DOMAIN @ |-> IF modifiers[i] = m THEN v ELSE @[i]]]

Running(s, m) == /\ job[s].at = "mods"
                 /\ \E i \in DOMAIN modifiers : modifiers[i] = m /\ job[s].mults[i] = NoneYet

(* What may happen besides, once Init has reached every module.            *)
Events == rpcReady /\ rpcErrors + resets < MaxEvents
RpcFails == Events /\ rpcErrors' = rpcErrors + 1

-----------------------------------------------------------------------------
(* FeeModderBySize.                                                        *)
calculate_multiplier(worse, better, total) ==
    IF total = 0 THEN 10
    ELSE IF worse + better = 0 THEN NaN
    ELSE IF worse < better THEN 5 ELSE 40

get_cached_multiplier(s) ==
    /\ Running(s, "size") /\ sizeAt[s].at = "start"
    /\ IF multiplier # NoneYet
       THEN /\ job' = Resolve(s, "size", multiplier)
            /\ sizeAt' = [sizeAt EXCEPT ![s].at = "idle"]
       ELSE /\ sizeAt' = [sizeAt EXCEPT ![s].at = "competitors"]
            /\ UNCHANGED job
    /\ UNCHANGED <<managerVars, multiplier, capacities, sem, resetting, info, setterVars,
                   monitorVars, feeWorld>>

get_competitors(s) ==
    /\ sizeAt[s].at = "competitors"
    /\ \/ /\ sizeAt' = [sizeAt EXCEPT ![s].at = IF world.rivals = 0 THEN "me" ELSE "rival",
                                       ![s].total = world.rivals]
          /\ UNCHANGED <<job, rpcErrors>>
       \/ /\ RpcFails
          /\ sizeAt' = [sizeAt EXCEPT ![s] = NoSize]
          /\ job' = Resolve(s, "size", Threw)
    /\ UNCHANGED <<managerVars, multiplier, capacities, sem, resetting, info, setterVars,
                   monitorVars, world, to_us, resets>>

(* core_get_capacity, in the semaphore: the table is loaded if it is not   *)
(* there.  It is made empty before the command that fills it.              *)
CapacityIn(table, who) == IF table = EmptyTable THEN 0 ELSE table[who]

GotCapacity(s, who, table) ==
    LET cap == CapacityIn(table, who)
        them == sizeAt[s].rival
        some == sizeAt[s].total > 0
        worse == IF some /\ them < cap THEN 1 ELSE 0
        better == IF some /\ cap < them THEN 1 ELSE 0
    IN  sizeAt' = IF who = "rival"
                  THEN [sizeAt EXCEPT ![s].at = "me", ![s].rival = cap]
                  ELSE [sizeAt EXCEPT ![s].at = "store",
                           ![s].mult = calculate_multiplier(worse, better, sizeAt[s].total)]

load_capacities(s, who) ==
    /\ sizeAt[s].at = who
    /\ sem = << >>
    /\ capacities = NullTable
    /\ capacities' = EmptyTable
    /\ sem' = <<s>>
    /\ UNCHANGED <<managerVars, job, sizeAt, multiplier, resetting, info, setterVars,
                   monitorVars, feeWorld>>

(* Mutant: a failed load keeps the semaphore.                              *)
core_get_capacityHeld(s, who) ==
    /\ sizeAt[s].at = who
    /\ \/ /\ sem = << >> /\ capacities # NullTable
          /\ GotCapacity(s, who, capacities)
          /\ UNCHANGED <<job, capacities, sem, rpcErrors>>
       \/ /\ sem = <<s>>
          /\ capacities' = world
          /\ sem' = << >>
          /\ GotCapacity(s, who, world)
          /\ UNCHANGED <<job, rpcErrors>>
       \/ /\ sem = <<s>> /\ RpcFails
          /\ sizeAt' = [sizeAt EXCEPT ![s] = NoSize]
          /\ job' = Resolve(s, "size", Threw)
          /\ UNCHANGED <<capacities, sem>>
    /\ UNCHANGED <<managerVars, multiplier, resetting, info, setterVars, monitorVars, world,
                   to_us, resets>>

core_get_capacity(s, who) ==
    /\ sizeAt[s].at = who
    /\ \/ /\ sem = << >> /\ capacities # NullTable
          /\ GotCapacity(s, who, capacities)
          /\ UNCHANGED <<job, capacities, sem, rpcErrors>>
       \/ /\ sem = <<s>>
          /\ capacities' = world
          /\ sem' = << >>
          /\ GotCapacity(s, who, world)
          /\ UNCHANGED <<job, rpcErrors>>
       \/ /\ sem = <<s>> /\ RpcFails
          /\ sem' = << >>
          /\ sizeAt' = [sizeAt EXCEPT ![s] = NoSize]
          /\ job' = Resolve(s, "size", Threw)
          /\ UNCHANGED capacities
    /\ UNCHANGED <<managerVars, multiplier, resetting, info, setterVars, monitorVars, world,
                   to_us, resets>>

(* The report to FeeMonitor, then the cache, whatever was reset meanwhile. *)
compute_multiplier(s) ==
    /\ sizeAt[s].at = "store"
    /\ feemon' = [feemon EXCEPT !.size = sizeAt[s].mult]
    /\ multiplier' = sizeAt[s].mult
    /\ job' = Resolve(s, "size", sizeAt[s].mult)
    /\ sizeAt' = [sizeAt EXCEPT ![s] = NoSize]
    /\ UNCHANGED <<managerVars, capacities, sem, resetting, info, setterVars, events, feeWorld>>

(* reset(): the cached multiplier goes at once, the table when the         *)
(* semaphore is free.                                                      *)
TableReset ==
    /\ resetting > 0 /\ sem = << >>
    /\ resetting' = resetting - 1
    /\ capacities' = NullTable
    /\ UNCHANGED <<managerVars, job, sizeAt, multiplier, sem, info, setterVars, monitorVars,
                   feeWorld>>

-----------------------------------------------------------------------------
(* FeeModderByBalance.  A bin is TotalBalance / num_bins wide; the balance *)
(* moves to the bin it is in or to the neighbour on the near side, by      *)
(* chance unless it is on a boundary.                                      *)
Width == TotalBalance \div num_bins
Capped(bin) == IF bin >= num_bins THEN num_bins - 1 ELSE bin

StartingBin(us) == Capped(us \div Width)

NextBins(bin, us) ==
    LET target == us \div Width
        exact == us % Width = 0
    IN  IF target = bin THEN {bin}
        ELSE IF target < bin THEN IF exact THEN {target} ELSE {target, target + 1}
        ELSE IF exact THEN {Capped(target - 1)}
             ELSE {Capped(target), Capped(target - 1)}

get_multiplier(s) ==
    /\ Running(s, "balance")
    /\ \/ /\ info = NoInfo /\ to_us = NoChannel
          /\ job' = Resolve(s, "balance", 10)
          /\ UNCHANGED <<info, feemon>>
       \/ /\ info = NoInfo /\ to_us # NoChannel
          /\ info' = [bin |-> StartingBin(to_us), to_us |-> to_us]
          /\ job' = Resolve(s, "balance", BinMult[StartingBin(to_us)])
          /\ feemon' = [feemon EXCEPT !.balance = BinMult[StartingBin(to_us)]]
       \/ /\ info # NoInfo
          /\ to_us = NoChannel \/ to_us = info.to_us \/ to_us \div Width = info.bin
          /\ job' = Resolve(s, "balance", BinMult[info.bin])
          /\ UNCHANGED <<info, feemon>>
       \/ /\ info # NoInfo
          /\ to_us # NoChannel /\ to_us # info.to_us /\ to_us \div Width # info.bin
          /\ \E b \in NextBins(info.bin, to_us) :
                /\ info' = [bin |-> b, to_us |-> to_us]
                /\ job' = Resolve(s, "balance", IF b \in DOMAIN BinMult THEN BinMult[b] ELSE NaN)
                /\ feemon' = [feemon EXCEPT !.balance =
                                 IF b \in DOMAIN BinMult THEN BinMult[b] ELSE NaN]
    /\ UNCHANGED <<managerVars, sizeVars, setterVars, events, feeWorld>>

(* listpeerchannels fails.                                                 *)
get_channel_specs_fails(s) ==
    /\ Running(s, "balance")
    /\ RpcFails
    /\ job' = Resolve(s, "balance", Threw)
    /\ UNCHANGED <<managerVars, sizeVars, info, setterVars, monitorVars, world, to_us, resets>>

-----------------------------------------------------------------------------
(* The rest of perform, with round and the conversion to uint32_t: of a    *)
(* NaN that gives zero on the platforms CLBOSS is built for.               *)
Product(mults) ==
    IF \E i \in DOMAIN mults : mults[i] = NaN THEN NaN
    ELSE LET P[i \in 0 .. Len(mults)] == IF i = 0 THEN 1 ELSE P[i - 1] * mults[i]
         IN  P[Len(mults)]

Rounded(x, mults) ==
    IF Product(mults) = NaN THEN 0
    ELSE (2 * x * Product(mults) + 10 ^ Len(mults)) \div (2 * 10 ^ Len(mults))

FinalFee(median, mults, zbf) ==
    LET b == Rounded(median.base, mults)
        p == Rounded(median.ppm, mults)
    IN  [base |-> IF zbf = "require" THEN 0 ELSE IF zbf = "disallow" /\ b = 0 THEN 1 ELSE b,
         ppm |-> IF p = 0 THEN 1 ELSE p]

perform(s) ==
    /\ job[s].at = "mods"
    /\ \A i \in DOMAIN modifiers : job[s].mults[i] # NoneYet
    /\ job' = IF \E i \in DOMAIN modifiers : job[s].mults[i] = Threw
              THEN [job EXCEPT ![s].at = "failed"]
              ELSE [job EXCEPT ![s].at = "set",
                       ![s].set = FinalFee(job[s].median, job[s].mults, zero_base_fee)]
    /\ UNCHANGED <<managerVars, sizeVars, info, setterVars, monitorVars, feeWorld>>

(* The option clboss-zerobasefee: an unknown word is refused.              *)
SetZeroBaseFee(word) ==
    /\ Events
    /\ resets' = resets + 1
    /\ zero_base_fee' = IF word = "other" THEN zero_base_fee ELSE word
    /\ UNCHANGED <<soliciting, initted, modifiers, job, sizeVars, info, setterVars,
                   monitorVars, world, to_us, rpcErrors>>

-----------------------------------------------------------------------------
(* ChannelFeeSetter::set, with FeeMonitor::on_set after the command.       *)
SetterInit ==
    /\ ~rpcReady
    /\ rpcReady' = TRUE
    /\ job' = [s \in Surveys |->
                  IF job[s].at = "pending" THEN [job[s] EXCEPT !.at = "set"] ELSE job[s]]
    /\ UNCHANGED <<managerVars, sizeVars, info, unmanagedFee, fee, monitorVars, feeWorld>>

on_set(snapshot, f) ==
    LET ms == <<snapshot.size, snapshot.balance, snapshot.price>>
        known == NoneYet \notin {ms[i] : i \in DOMAIN ms} /\ snapshot.baseline # NoFee
    IN  [set |-> f,
         est |-> IF known THEN FinalFee(snapshot.baseline, ms, "allow") ELSE NoFee]

set(s) ==
    /\ job[s].at = "set"
    /\ \/ /\ ~rpcReady \/ unmanagedFee
          /\ UNCHANGED <<fee, events, rpcErrors>>
       \/ /\ rpcReady /\ ~unmanagedFee
          /\ fee' = job[s].set
          /\ events' = on_set(feemon, job[s].set)
          /\ UNCHANGED rpcErrors
       \/ /\ rpcReady /\ ~unmanagedFee /\ RpcFails
          /\ UNCHANGED <<fee, events>>
    /\ job' = [job EXCEPT ![s].at = IF rpcReady THEN "done" ELSE "pending"]
    /\ UNCHANGED <<managerVars, sizeVars, info, rpcReady, unmanagedFee, feemon, world, to_us,
                   resets>>

(* The user manages or unmanages "lnfee" of the peer.                      *)
ProvideUnmanagement ==
    /\ Events
    /\ resets' = resets + 1
    /\ unmanagedFee' = ~unmanagedFee
    /\ UNCHANGED <<managerVars, job, sizeVars, info, rpcReady, fee, monitorVars, world, to_us,
                   rpcErrors>>

(* A channel is made or closed, or a day goes by: FeeModderBySize resets,  *)
(* and at a ChannelDestruction FeeModderByBalance and FeeMonitor forget.   *)
ChannelChange(w, b, destroyed) ==
    /\ Events
    /\ resets' = resets + 1
    /\ world' = w /\ to_us' = b
    /\ multiplier' = NoneYet
    /\ resetting' = resetting + 1
    /\ IF destroyed THEN info' = NoInfo /\ feemon' = NoSnapshot
                    ELSE UNCHANGED <<info, feemon>>
    /\ UNCHANGED <<managerVars, job, sizeAt, capacities, sem, setterVars, events, rpcErrors>>

FeeStep ==
    \/ \E s \in Surveys :
          \/ \E g \in Gossip : PeerMedianChannelFee(s, g)
          \/ solicit(s) \/ ProvideChannelFeeModifier(s) \/ Solicited(s) \/ modify(s)
          \/ get_cached_multiplier(s) \/ get_competitors(s) \/ compute_multiplier(s)
          \/ get_multiplier(s) \/ get_channel_specs_fails(s)
          \/ \E who \in {"rival", "me"} : load_capacities(s, who) \/ core_get_capacity(s, who)
          \/ perform(s) \/ set(s)
    \/ TableReset \/ SetterInit \/ ProvideUnmanagement
    \/ \E word \in {"require", "allow", "disallow", "other"} : SetZeroBaseFee(word)
    \/ \E w \in Worlds, b \in Balances, d \in BOOLEAN : ChannelChange(w, b, d)

-----------------------------------------------------------------------------
(* The fee that is set is the median of the survey that asked for it, times *)
(* each of the three multipliers once, however the surveys, the one         *)
(* solicitation and the modifiers interleave; it is never a proportional    *)
(* fee of zero, and the balance stays in a bin that exists.                 *)
FeesWellFormed ==
    /\ \A s \in Surveys :
          job[s].at \in {"set", "pending", "done"} =>
             /\ Len(job[s].mults) = 3
             /\ job[s].set.ppm = Max({1, Rounded(job[s].median.ppm, job[s].mults)})
             /\ job[s].set.base \in {0, 1, Rounded(job[s].median.base, job[s].mults)}
    /\ fee # NoFee => fee.ppm >= 1
    /\ info # NoInfo => info.bin \in 0 .. num_bins - 1

(* Every survey is followed by a fee or by an exception: neither the wait   *)
(* for the one solicitation nor the semaphore of the capacity table can     *)
(* hold it for ever.                                                        *)
EverySurveyEnds ==
    \A s \in Surveys : job[s].at = "solicit" ~> job[s].at \in {"done", "failed"}
=============================================================================
