--------------------------- MODULE SendpayResults ---------------------------
(***************************************************************************)
(* SendpayResultMonitor, which notes the first hop of every sendpay the    *)
(* node is asked for and reports how it ended, and ActiveProber, which     *)
(* sends payments that must fail in order to have something to report.     *)
(* The hook is answered before the note is made, so the note, the payment  *)
(* and its result run beside each other.                                   *)
(***************************************************************************)
EXTENDS PeerStatistics, Sequences

CONSTANTS
    Attempts,           \* sequence of sendpays: hash, part, hop, len (0: not
                        \* known from the command), final (the true length)
    ProbeAttempt,       \* the one the prober makes
    Destinations,       \* what get_channel_candidates may offer
    NoteAge,            \* 30 days: how long a note is kept
    MaxFaults           \* bound: database errors and restarts

VARIABLES
    note,       \* per attempt: the greenthread that records it
    pay,        \* per attempt: lightningd's payment and its outcome
    report,     \* per attempt: the greenthread that handles its result
    notes,      \* tables SendpayResultMonitor and SendpayResultMonitor_rl
    results,    \* SendpayResult messages raised (history and input)
    toCount,    \* those the statistician has still to add
    faults,
    probe       \* ActiveProber::Run

payVars == <<note, pay, report, notes, results, toCount, faults>>
sendpayVars == <<payVars, probe>>

A == DOMAIN Attempts
Key(a) == <<Attempts[a].hash, Attempts[a].part>>

SendpayInit ==
    /\ note = [a \in A |-> "idle"]
    /\ pay = [a \in A |-> "idle"]
    /\ report = [a \in A |-> {}]
    /\ notes = << >> /\ results = {} /\ toCount = {} /\ faults = 0
    /\ probe = [pc |-> "none"]

-----------------------------------------------------------------------------
(* The rpc_command hook of sendpay or sendonion.  lightningd has one       *)
(* payment per hash and part at a time, and its messages are read in       *)
(* order: what was started for an earlier try comes before the next try.   *)
process_rpc_command(a) ==
    /\ pay[a] = "idle"
    /\ \A b \in A : Key(b) = Key(a) =>
            pay[b] # "running" /\ note[b] # "asked" /\ report[b] = {}
    /\ pay' = [pay EXCEPT ![a] = "running"]
    /\ note' = [note EXCEPT ![a] = "asked"]

Hooked(a) ==
    /\ a # ProbeAttempt /\ process_rpc_command(a)
    /\ UNCHANGED <<report, notes, results, toCount, faults, probe, statVars>>

(* Mutant: a note that is there already is kept.                           *)
record_pending_sendpayIgnored(a) ==
    notes' = notes @@ (Key(a) :> [hop |-> Attempts[a].hop, len |-> Attempts[a].len,
                                  creation |-> now, of |-> a])

(* INSERT OR REPLACE; the replaced row takes its route length with it.     *)
record_pending_sendpay(a) ==
    notes' = (Key(a) :> [hop |-> Attempts[a].hop, len |-> Attempts[a].len,
                         creation |-> now, of |-> a]) @@ notes

Noted(a) ==
    /\ note[a] = "asked"
    /\ \/ record_pending_sendpay(a) /\ note' = [note EXCEPT ![a] = "done"] /\ UNCHANGED faults
       \/ /\ faults < MaxFaults /\ faults' = faults + 1     \* database error: logged
          /\ note' = [note EXCEPT ![a] = "lost"] /\ UNCHANGED notes
    /\ UNCHANGED <<pay, report, results, toCount, probe, statVars>>

(* The payment ends: it succeeds, or fails at hop `at`, or without a hop   *)
(* that is to blame (erring_index absent; such a failure is dropped).      *)
Outcomes(a) == {[success |-> TRUE, at |-> 0]}
               \cup {[success |-> FALSE, at |-> i] : i \in 0 .. Attempts[a].final}
Ends(a) ==
    /\ pay[a] = "running"
    /\ pay' = [pay EXCEPT ![a] = "ended"]
    /\ \/ \E o \in Outcomes(a) : report' = [report EXCEPT ![a] = {o}]
       \/ UNCHANGED report
    /\ UNCHANGED <<note, notes, results, toCount, faults, probe, statVars>>

Reached(o, len) == o.success \/ (len # 0 /\ len <= o.at)

(* on_sendpay_success, on_sendpay_failure and on_sendpay_resolve.          *)
on_sendpay_resolve(a) ==
    \E o \in report[a] :
      /\ report' = [report EXCEPT ![a] = {}]
      /\ IF Key(a) \in DOMAIN notes
         THEN LET row == notes[Key(a)]
                  res == [hash |-> Attempts[a].hash, hop |-> row.hop,
                          reached |-> Reached(o, row.len),
                          of |-> a, noted |-> note[a] = "done", outcome |-> o]
              IN /\ notes' = RestrictDomain(notes, LAMBDA k : k # Key(a))
                 /\ results' = results \cup {res}
                 /\ toCount' = toCount \cup {res}
         ELSE UNCHANGED <<notes, results, toCount>>
      /\ UNCHANGED <<note, pay, faults, probe, statVars>>

(* PeerStatistician's subscription to SendpayResult.                       *)
Count(r) ==
    /\ r \in toCount /\ toCount' = toCount \ {r}
    /\ add_sendpayresult(r.hash, r.hop, r.reached, r.of)
    /\ UNCHANGED <<note, pay, report, notes, results, faults, probe, now, memberVars, upRows>>

(* on_periodic: notes older than a month go.                               *)
SweepNotes ==
    /\ notes' = RestrictDomain(notes, LAMBDA k : ~(notes[k].creation + NoteAge < now))
    /\ notes' # notes
    /\ UNCHANGED <<note, pay, report, results, toCount, faults, probe, statVars>>

(* The plugin stops and starts: greenthreads and members are gone, and so  *)
(* are the results of the payments that ended in between.                  *)
SendpayRestart ==
    /\ faults < MaxFaults /\ faults' = faults + 1
    /\ note' = [a \in A |-> IF note[a] = "asked" THEN "lost" ELSE note[a]]
    /\ \E missed \in SUBSET {a \in A : pay[a] = "running"} :
         pay' = [a \in A |-> IF a \in missed THEN "ended" ELSE pay[a]]
    /\ report' = [a \in A |-> {}]
    /\ toCount' = {} /\ probe' = [pc |-> "none"]
    /\ UNCHANGED <<notes, results>>
    /\ MembersAtStart /\ UNCHANGED <<now, statTables, upRows>>

-----------------------------------------------------------------------------
(* ActiveProber::Run for ProbeActively, raised by RegularActiveProbe (one  *)
(* peer in 144 at each listing) or by the complainer.                      *)
Probes(next) == probe' = next /\ UNCHANGED <<payVars, statVars>>
ProbeDone == [pc |-> "none"]

ProbeActively ==
    /\ probe.pc = "none" /\ pay[ProbeAttempt] = "idle"
    /\ Probes([pc |-> "list"])

(* core_run, after ensure_self_layer (its answer only picks the layer):    *)
(* a normal channel, none, or a failed listing.                            *)
core_run == probe.pc = "list" /\ (Probes([pc |-> "dest"]) \/ Probes(ProbeDone))

(* The candidates in shuffled order; the peer itself is not among them.    *)
get_destinations ==
    /\ probe.pc = "dest"
    /\ \/ Probes(ProbeDone)
       \/ \E D \in SUBSET Destinations \ {{}} : Probes([pc |-> "route", to_try |-> D])

(* getroutes for the front of the queue: a route, or none (an RpcError or  *)
(* a malformed answer), and then the next destination.                     *)
getroute ==
    /\ probe.pc = "route"
    /\ \/ probe.to_try = {} /\ Probes(ProbeDone)
       \/ probe.to_try # {} /\ Probes([probe EXCEPT !.pc = "hop0"])
       \/ \E d \in probe.to_try : Probes([probe EXCEPT !.to_try = @ \ {d}])

(* The channel's fees, or it is gone by now, or the answer is malformed.   *)
compute_hop0 ==
    /\ probe.pc = "hop0"
    /\ \/ Probes([pc |-> "send"])
       \/ \E d \in probe.to_try : Probes([pc |-> "route", to_try |-> probe.to_try \ {d}])
       \/ Probes(ProbeDone)

(* sendpay, refused (the hook was called all the same) or under way.       *)
SendProbe ==
    /\ probe.pc = "send"
    /\ process_rpc_command(ProbeAttempt)
    /\ probe' = [pc |-> "wait"]
    /\ UNCHANGED <<report, notes, results, toCount, faults, statVars>>

(* waitsendpay and delpay; its failure does not matter.                    *)
WaitProbe == probe.pc = "wait" /\ pay[ProbeAttempt] = "ended" /\ Probes(ProbeDone)

ProbeStep == core_run \/ get_destinations \/ getroute \/ compute_hop0 \/ SendProbe \/ WaitProbe

ExternPay == \E a \in A \ {ProbeAttempt} :
                /\ pay[a] = "idle" /\ externpays = {}
                /\ externpay(Attempts[a].hash)
                /\ UNCHANGED <<sendpayVars, now, memberVars, upRows>>

AttemptStep(a) == Noted(a) \/ Ends(a) \/ on_sendpay_resolve(a)
SendpayStep ==
    \/ \E a \in A : AttemptStep(a)
    \/ \E r \in toCount : Count(r)
    \/ SweepNotes \/ SendpayRestart

-----------------------------------------------------------------------------
(* The result of an attempt that was noted is reported with the first hop  *)
(* of that very attempt, and as having reached its destination only if it  *)
(* did: neither an older note of the same payment, left behind by a result *)
(* missed during a restart, nor its route length is ever taken for it.     *)
VerdictOfOwnAttempt ==
    \A r \in results : r.noted =>
        /\ r.hop = Attempts[r.of].hop
        /\ r.reached <=> (r.outcome.success
                          \/ (Attempts[r.of].len # 0 /\ r.outcome.at >= Attempts[r.of].final))
=============================================================================
