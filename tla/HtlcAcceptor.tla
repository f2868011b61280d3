---------------------------- MODULE HtlcAcceptor ----------------------------
(***************************************************************************)
(* The `htlc_accepted` hook (Boss/Mod/HtlcAcceptor.cpp) and its deferrers. *)
(* lightningd holds an incoming HTLC until the hook is answered.  Modules  *)
(* may ask to defer the answer and release the HTLC themselves; the one    *)
(* deferrer of the repository, DemandTracker, never does, and announces    *)
(* the forward to the XRebalancer instead.                                 *)
(*                                                                         *)
(* A hook is one CommandRequest; its greenthread is at hookAt[h].  The     *)
(* deferrers other than DemandTracker are given only by the interface:     *)
(* they may defer, and may release an HTLC they were asked about.          *)
(***************************************************************************)
EXTENDS Naturals, FiniteSets

CONSTANTS
    Hooks,          \* htlc_accepted commands of lightningd
    OtherDeferrers  \* deferrers besides DemandTracker

Deferrers == {"DemandTracker"} \cup OtherDeferrers

VARIABLES
    providers,      \* the modules that defer
    soliciting, solicited,
    registered,     \* how often each deferrer is in the vector `deferrers`
    deferring, deferred,
    hookAt,         \* where the greenthread of a hook is
    asked,          \* deferrers of a hook that are still deciding
    wish,           \* hooks some deferrer wants to defer
    answers         \* CommandResponses sent per hook

hookVars == <<providers, soliciting, solicited, registered, deferring, deferred, hookAt,
              asked, wish, answers>>

HookInit ==
    /\ providers \in {{"DemandTracker"}, Deferrers}
    /\ soliciting = FALSE /\ solicited = FALSE
    /\ registered = [d \in Deferrers |-> 0]
    /\ deferring = {} /\ deferred = {}
    /\ hookAt = [h \in Hooks |-> "none"]
    /\ asked = [h \in Hooks |-> {}]
    /\ wish = {}
    /\ answers = [h \in Hooks |-> 0]

HookMoves(h, from, to) ==
    /\ hookAt[h] = from
    /\ hookAt' = [hookAt EXCEPT ![h] = to]

(* CommandRequest htlc_accepted with a payload that parses.                *)
HookArrives(h) ==
    /\ HookMoves(h, "none", "solicit")
    /\ UNCHANGED <<providers, soliciting, solicited, registered, deferring, deferred,
                   asked, wish, answers>>

MustSolicit == ~solicited /\ ~soliciting

(* solicit: one hook asks for the deferrers, the others busy-wait.         *)
Solicit(h) ==
    /\ MustSolicit
    /\ HookMoves(h, "solicit", "soliciting")
    /\ soliciting' = TRUE
    /\ UNCHANGED <<providers, solicited, registered, deferring, deferred, asked, wish, answers>>

(* Every module that defers raises ProvideHtlcAcceptedDeferrer ...         *)
Provide(h) ==
    /\ HookMoves(h, "soliciting", "provided")
    /\ registered' = [d \in Deferrers |-> IF soliciting /\ d \in providers
                                         THEN registered[d] + 1 ELSE registered[d]]
    /\ UNCHANGED <<providers, soliciting, solicited, deferring, deferred, asked, wish, answers>>

(* ... and when all have, the solicitation is over.                        *)
Solicited(h) ==
    /\ HookMoves(h, "provided", "solicit")
    /\ soliciting' = FALSE
    /\ solicited' = TRUE
    /\ UNCHANGED <<providers, registered, deferring, deferred, asked, wish, answers>>

(* The deferrers are all called, each in a greenthread of its own.         *)
Inform(h) ==
    /\ solicited
    /\ HookMoves(h, "solicit", "inform")
    /\ deferring' = deferring \cup {h}
    /\ asked' = [asked EXCEPT ![h] = {d \in Deferrers : registered[d] > 0}]
    /\ UNCHANGED <<providers, soliciting, solicited, registered, deferred, wish, answers>>

(* A deferrer answers.  DemandTracker::htlc_accepted answers false after   *)
(* its raise of DemandObserved.                                            *)
Decide(h, d, defers) ==
    /\ hookAt[h] = "inform"
    /\ d \in asked[h]
    /\ d = "DemandTracker" => ~defers
    /\ asked' = [asked EXCEPT ![h] = @ \ {d}]
    /\ wish' = IF defers THEN wish \cup {h} ELSE wish
    /\ UNCHANGED <<providers, soliciting, solicited, registered, deferring, deferred,
                   hookAt, answers>>

(* Everyone has answered.  A hook that was released meanwhile is over;     *)
(* otherwise it is deferred, and released now or after defer_time.         *)
StillDeferring(h) == h \in deferring

(* Mutant: whoever defers an HTLC is trusted to release it.                *)
AfterCollectTrusting(h) == IF h \in wish THEN "over" ELSE "finish"

AfterCollect(h) == IF h \in wish THEN "wait" ELSE "finish"

Collect(h) ==
    /\ asked[h] = {}
    /\ IF StillDeferring(h)
       THEN /\ HookMoves(h, "inform", AfterCollect(h))
            /\ deferring' = deferring \ {h}
            /\ deferred' = deferred \cup {h}
       ELSE /\ HookMoves(h, "inform", "over")
            /\ UNCHANGED <<deferring, deferred>>
    /\ UNCHANGED <<providers, soliciting, solicited, registered, asked, wish, answers>>

DeferTimeout(h) ==
    /\ HookMoves(h, "wait", "finish")
    /\ UNCHANGED <<providers, soliciting, solicited, registered, deferring, deferred,
                   asked, wish, answers>>

(* finish: somebody may have got to it first.                              *)
Finish(h) ==
    /\ HookMoves(h, "finish", IF h \in deferred THEN "release" ELSE "over")
    /\ UNCHANGED <<providers, soliciting, solicited, registered, deferring, deferred,
                   asked, wish, answers>>

Held == deferred \cup deferring

(* release_htlc_accepted, the handler of ReleaseHtlcAccepted.              *)
Released(h) ==
    IF h \in Held
    THEN /\ deferred' = deferred \ {h}
         /\ deferring' = IF h \in deferred THEN deferring ELSE deferring \ {h}
         /\ answers' = [answers EXCEPT ![h] = @ + 1]
    ELSE UNCHANGED <<deferred, deferring, answers>>

Release(h) ==
    /\ HookMoves(h, "release", "over")
    /\ Released(h)
    /\ UNCHANGED <<providers, soliciting, solicited, registered, asked, wish>>

(* A deferrer releases an HTLC it was told of, while it decides or later.  *)
OtherReleases(h) ==
    /\ hookAt[h] \in {"inform", "wait", "finish", "release"}
    /\ providers # {"DemandTracker"}
    /\ h \in Held
    /\ Released(h)
    /\ UNCHANGED <<providers, soliciting, solicited, registered, hookAt, asked, wish>>

HookStep(h) ==
    \/ Solicit(h) \/ Provide(h) \/ Solicited(h) \/ Inform(h) \/ Collect(h)
    \/ DeferTimeout(h) \/ Finish(h) \/ Release(h)

-----------------------------------------------------------------------------
(* No HTLC stays in lightningd: every hook that arrives is answered, and   *)
(* once only, however late a deferrer decides and whoever else releases it. *)
EveryHtlcAnswered ==
    \A h \in Hooks : hookAt[h] # "none" ~> [](answers[h] = 1)
=============================================================================
