------------------------------- MODULE MCFees -------------------------------
(***************************************************************************)
(* The modules about earnings and fees side by side.  They share no state  *)
(* in the code beyond the messages each module already takes as inputs, so *)
(* a behaviour is one of one subsystem, `subject`, and the others rest.    *)
(***************************************************************************)
EXTENDS Earnings, PriceTheory, OnchainFee, ChannelFees

VARIABLE subject

feesVars == <<subject, earnVars, priceVars, onchainVars, feeVars>>

FeesInit ==
    /\ subject \in {"earnings", "price", "onchain", "fee"}
    /\ EarnInit /\ PriceInit /\ OnchainInit /\ FeeInit
    /\ subject # "earnings" => schema = "none"

EarningsSubject == subject = "earnings" /\ EarnStep
                   /\ UNCHANGED <<subject, priceVars, onchainVars, feeVars>>
PriceSubject == subject = "price" /\ PriceStep
                /\ UNCHANGED <<subject, earnVars, onchainVars, feeVars>>
OnchainSubject == subject = "onchain" /\ OnchainStep
                  /\ UNCHANGED <<subject, earnVars, priceVars, feeVars>>
FeeSubject == subject = "fee" /\ FeeStep
              /\ UNCHANGED <<subject, earnVars, priceVars, onchainVars>>

FeesNext == EarningsSubject \/ PriceSubject \/ OnchainSubject \/ FeeSubject

(* Fairness: a greenthread that can go on does, lightningd answers a       *)
(* command that was sent, the ten-minute listing comes, and Init reaches   *)
(* the setter.  Notifications, surveys and failures need not come.         *)
NoticeGoesOn(n) ==
    subject = "earnings" /\ UNCHANGED <<subject, priceVars, onchainVars, feeVars>>
    /\ (cont(n) \/ Book(n) \/ \E s \in Sides : RequestPeerFromScid(<<n, s>>))

MapperGoesOn ==
    subject = "earnings" /\ UNCHANGED <<subject, priceVars, onchainVars, feeVars>>
    /\ (Listpeers \/ ListpeersResult \/ resume_pendings \/ EarningsTrackerInit)

SurveyGoesOn(s) ==
    subject = "fee" /\ UNCHANGED <<subject, earnVars, priceVars, onchainVars>>
    /\ \/ solicit(s) \/ ProvideChannelFeeModifier(s) \/ Solicited(s) \/ modify(s)
       \/ get_cached_multiplier(s) \/ get_competitors(s) \/ compute_multiplier(s)
       \/ get_multiplier(s)
       \/ \E who \in {"rival", "me"} : load_capacities(s, who) \/ core_get_capacity(s, who)
       \/ perform(s) \/ set(s)

SetterReady == subject = "fee" /\ SetterInit
               /\ UNCHANGED <<subject, earnVars, priceVars, onchainVars>>

FeesSpec ==
    /\ FeesInit /\ [][FeesNext]_feesVars
    /\ WF_feesVars(MapperGoesOn)
    /\ \A n \in DOMAIN Notices : WF_feesVars(NoticeGoesOn(n))
    /\ \A s \in Surveys : WF_feesVars(SurveyGoesOn(s))
    /\ WF_feesVars(SetterReady)

-----------------------------------------------------------------------------


MCPeerOf == [c1 |-> "A", c2 |-> "B", c3 |-> "A"]

MCNotices == <<
    [kind |-> "forward", status |-> "settled", src |-> "c1", dst |-> "c2", fee |-> 2, amount |-> 7],
    [kind |-> "part", status |-> "complete", src |-> "c2", dst |-> "c3", fee |-> 1, amount |-> 5],
    [kind |-> "forward", status |-> "failed", src |-> "c1", dst |-> "c2", fee |-> 3, amount |-> 9] >>

MCLegacy == [A |-> 4, B |-> 1]

Chan(ours, bad, base, ppm, weight) ==
    [ours |-> ours, bad |-> bad, base |-> base, ppm |-> ppm, weight |-> weight]

MCGossip == {
    << Chan(FALSE, FALSE, 0, 0, 2), Chan(TRUE, FALSE, 9, 9, 5), Chan(FALSE, FALSE, 3, 4, 3),
       Chan(FALSE, TRUE, 8, 8, 9), Chan(FALSE, FALSE, 7, 7, 9) >>,
    << Chan(FALSE, TRUE, 1, 1, 1) >>,
    << Chan(TRUE, FALSE, 9, 9, 5) >> }

MCFirstWorld == [me |-> 2, rival |-> 1, rivals |-> 1]
MCWorlds == {[me |-> 1, rival |-> 1, rivals |-> 1], [me |-> 1, rival |-> 2, rivals |-> 0]}

MCBalances == {NoChannel, 8}
MCBinMult == [b \in 0 .. 3 |-> (<<30, 15, 7, 3>>)[b + 1]]
=============================================================================
