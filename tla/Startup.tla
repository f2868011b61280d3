------------------------------ MODULE Startup ------------------------------
(***************************************************************************)
(* From the start of the plugin to its first Init, and what is asked of it *)
(* afterwards: CommandReceiver with the commands that wait for an answer,  *)
(* Manifester, Initiator with the gate on lightningd's version,            *)
(* SetConfigHandler, and AmountSettingsHandler, whose options lightningd   *)
(* keeps and hands over again at the next start.  A crash may come between *)
(* any two steps.  Amounts are in satoshis, with the constants of the code.*)
(***************************************************************************)
EXTENDS Integers, Sequences, FiniteSets, Functions, TLC

CONSTANTS
    Configs,        \* what the operator's configuration may say at first:
                    \* option -> text
    Texts,          \* values given to setconfig: amount read, and clean or not
    Versions,       \* lightningd's versions, as the gate tells them apart
    MaxSetconfigs,  \* bound: setconfig commands
    MaxStarts       \* bound: starts of the plugin

VARIABLES
    boot,           \* where Initiator is
    skip_version_check,
    files,          \* the files that exist
    saved,          \* lightningd's configuration: option -> text
    pending_commands,   \* CommandReceiver: commands that wait for an answer
    commands,       \* setconfig commands on their way: sequence
    options,        \* SetConfigHandler: option -> dynamic
    settings, options_ended,
    published,      \* the last AmountSettings message
    publishing,     \* an AmountSettings message is on its way
    asked, starts,
    acked           \* history: option -> amount of the last accepted setconfig

startVars == <<boot, skip_version_check, files>>
commandVars == <<pending_commands, commands, options>>
amountVars == <<settings, options_ended, published, publishing>>
startupVars == <<startVars, commandVars, amountVars, saved, asked, starts, acked>>

-----------------------------------------------------------------------------
(* AmountSettingsHandler.                                                  *)
default_settings == [min_channel |-> 500000, max_channel |-> 100000000, reserve |-> 100000]
Names == DOMAIN default_settings
min_min_channel == 500000
trigger_factor == 2
additional_remaining == 50000
min_usable_max_channel == (1 + trigger_factor) * min_min_channel + additional_remaining
min_usable_reserve == 30000

(* min_remaining, which depends on min_channel only.                       *)
min_remaining(s) == trigger_factor * s.min_channel + additional_remaining

Floored(s) == [min_channel |-> IF s.min_channel < min_min_channel
                               THEN min_min_channel ELSE s.min_channel,
               max_channel |-> IF s.max_channel < min_usable_max_channel
                               THEN min_usable_max_channel ELSE s.max_channel,
               reserve |-> IF s.reserve < min_usable_reserve
                           THEN min_usable_reserve ELSE s.reserve]

(* Mutant: only the floors.                                                *)
validateFloors(s) == Floored(s)

(* A minimum that the maximum has no room for is lowered, the maximum kept.*)
validate(s) ==
    LET f == Floored(s)
    IN IF f.min_channel + min_remaining(f) > f.max_channel
       THEN [f EXCEPT !.min_channel =
                (f.max_channel - additional_remaining) \div (1 + trigger_factor)]
       ELSE f

on_startup_option(s, config) ==
    [o \in Names |-> IF o \in DOMAIN config THEN config[o].sats ELSE s[o]]

(* The verdict on a value, at run time.  Validation must leave it alone.   *)
Candidate(o, text) == [settings EXCEPT ![o] = text.sats]
Accepted(o, text) == text.clean /\ validate(Candidate(o, text)) = Candidate(o, text)

on_dynamic_option(o, text) ==
    IF Accepted(o, text)
    THEN settings' = Candidate(o, text) /\ publishing' = TRUE
    ELSE UNCHANGED <<settings, publishing>>

Publish ==
    /\ publishing /\ publishing' = FALSE
    /\ published' = settings
    /\ UNCHANGED <<startVars, commandVars, settings, options_ended, saved, asked, starts, acked>>

-----------------------------------------------------------------------------
AmountsAtStart ==
    /\ settings' = default_settings /\ options_ended' = FALSE
    /\ published' = default_settings /\ publishing' = FALSE

StartupInit ==
    /\ boot = "down" /\ files = {} /\ skip_version_check = FALSE
    /\ saved \in Configs
    /\ pending_commands = {} /\ commands = << >> /\ options = << >>
    /\ settings = default_settings /\ options_ended = FALSE
    /\ published = default_settings /\ publishing = FALSE
    /\ asked = 0 /\ starts = 0 /\ acked = << >>

(* lightningd starts the plugin; it may be another version each time.      *)
Starts ==
    /\ boot = "down" /\ starts < MaxStarts /\ starts' = starts + 1
    /\ skip_version_check' = FALSE
    /\ boot' = "begun"
    /\ UNCHANGED <<commandVars, amountVars, files, saved, asked, acked>>

(* A crash, or the end of input; also what abort() leaves behind.          *)
PluginGoes ==
    /\ boot # "down" /\ boot' = "down"
    /\ pending_commands' = {} /\ commands' = << >> /\ options' = << >>
    /\ AmountsAtStart
    /\ UNCHANGED <<skip_version_check, files, saved, asked, starts, acked>>

InitId == -1     \* the id of the init command
Goes(from, to) == boot = from /\ boot' = to

(* getmanifest: everyone registers what it has, and the answer says so.    *)
Getmanifest ==
    /\ Goes("begun", "manifested")
    /\ options' = [o \in Names |-> TRUE] @@ ("clboss-skip-cln-version-check" :> FALSE)
    /\ UNCHANGED <<skip_version_check, files, pending_commands, commands, amountVars, saved, asked,
                   starts, acked>>

(* init, up to the end of the options; a configuration that is not as it   *)
(* should be aborts.                                                       *)
InitCommand ==
    /\ boot = "manifested"
    /\ pending_commands' = pending_commands \cup {InitId}
    /\ \/ /\ boot' = "options"
          /\ skip_version_check' \in BOOLEAN
          /\ settings' = on_startup_option(settings, saved)
          /\ UNCHANGED <<options_ended, published, publishing>>
       \/ boot' = "aborted" /\ UNCHANGED <<skip_version_check, amountVars>>
    /\ UNCHANGED <<files, commands, options, saved, asked, starts, acked>>

EndOfOptions ==
    /\ Goes("options", "version")
    /\ options_ended' = TRUE
    /\ settings' = validate(settings)
    /\ publishing' = TRUE
    /\ UNCHANGED <<skip_version_check, files, commandVars, published, saved, asked,
                   starts, acked>>

Rest == UNCHANGED <<skip_version_check, commandVars, amountVars, saved, asked, starts,
                    acked>>

(* getinfo over the socket, and check_cln_version; an answer that is not   *)
(* understood ends the greenthread.                                        *)
Refused(version) == version = "too old" /\ ~skip_version_check

check_cln_version ==
    /\ boot = "version"
    /\ \/ \E v \in Versions : boot' = IF Refused(v) THEN "aborted" ELSE "database"
       \/ boot' = "failed"
    /\ UNCHANGED files /\ Rest

OpenDatabase == Goes("database", "tables") /\ files' = files \cup {"data.clboss"} /\ Rest
RaiseDbResource == Goes("tables", "keys") /\ files' = files \cup {"schema"} /\ Rest
LoadSigner == Goes("keys", "configs") /\ files' = files \cup {"keys.clboss"} /\ Rest

(* listconfigs: proxy and offline.                                         *)
Listconfigs ==
    /\ boot = "configs" /\ boot' \in {"init", "failed"}
    /\ UNCHANGED files /\ Rest

(* Init is raised, and init answered.                                      *)
RaiseInit ==
    /\ Goes("init", "up")
    /\ pending_commands' = pending_commands \ {InitId}
    /\ UNCHANGED <<skip_version_check, files, commands, options, amountVars, saved,
                   asked, starts, acked>>

BootStep == Getmanifest \/ InitCommand \/ EndOfOptions \/ check_cln_version \/ OpenDatabase
            \/ RaiseDbResource \/ LoadSigner \/ Listconfigs \/ RaiseInit

-----------------------------------------------------------------------------
(* setconfig.  lightningd sends it once init is answered, for an option of *)
(* ours, one that is not dynamic or one we do not have.                    *)
OptionNames == Names \cup {"clboss-skip-cln-version-check", "unknown"}
Amounts(o) == Texts[IF o \in Names THEN o ELSE "reserve"]

CommandReceived ==
    /\ boot = "up" /\ asked < MaxSetconfigs /\ asked' = asked + 1
    /\ \E o \in OptionNames : \E t \in Amounts(o) :
         commands' = Append(commands, [id |-> asked, name |-> o, text |-> t, verdict |-> "none"])
    /\ pending_commands' = pending_commands \cup {asked}
    /\ UNCHANGED <<startVars, options, amountVars, saved, starts, acked>>

(* SetConfigHandler finds the option and raises it; it waits for the       *)
(* owner's verdict.                                                        *)
Undispatched == {i \in DOMAIN commands : commands[i].verdict = "none"}
Judged(i, verdict) == commands' = [commands EXCEPT ![i].verdict = verdict]

Dispatch ==
    \E i \in Undispatched :
      LET m == commands[i] IN
      /\ i = CHOOSE j \in Undispatched : \A k \in Undispatched : j <= k
      /\ IF m.name \in DOMAIN options /\ options[m.name]
         THEN /\ on_dynamic_option(m.name, m.text)
              /\ Judged(i, IF Accepted(m.name, m.text) THEN "ok" ELSE "rejected")
         ELSE Judged(i, "rejected") /\ UNCHANGED <<settings, publishing>>
      /\ UNCHANGED <<startVars, pending_commands, options, options_ended, published, saved, asked,
                     starts, acked>>

(* Mutant: whatever the verdict, the command succeeds.                     *)
SucceedsAlways(m) == m.verdict # "none"

(* The command succeeds exactly when nobody rejected the value.            *)
Succeeds(m) == m.verdict = "ok"

(* CommandResponse or CommandFail; lightningd keeps what was accepted.     *)
CommandAnswered ==
    /\ commands # << >> /\ Head(commands).verdict # "none"
    /\ LET m == Head(commands)
       IN /\ m.id \in pending_commands /\ pending_commands' = pending_commands \ {m.id}
          /\ commands' = Tail(commands)
          /\ IF Succeeds(m) /\ m.name \in Names
             THEN /\ saved' = (m.name :> m.text) @@ saved
                  /\ acked' = (m.name :> m.text.sats) @@ acked
             ELSE UNCHANGED <<saved, acked>>
    /\ UNCHANGED <<startVars, options, amountVars, asked, starts>>

CommandStep == Dispatch \/ CommandAnswered \/ Publish

(* lightningd does not start it again.                                     *)
NotStartedAgain == boot = "down" /\ starts = MaxStarts /\ UNCHANGED startupVars

StartupStep == Starts \/ NotStartedAgain \/ PluginGoes \/ BootStep \/ CommandReceived \/ CommandStep

-----------------------------------------------------------------------------
(* A setting that a setconfig changed and lightningd recorded is the one   *)
(* in effect, at once and after every later restart: no later validation,  *)
(* with whatever other settings were changed in between, alters it         *)
(* (AmountSettingsHandler.cpp:217-219).                                    *)
AckedInEffect ==
    \A o \in DOMAIN acked :
        options_ended /\ (\A i \in DOMAIN commands : commands[i].name # o)
            => settings[o] = acked[o]

(* What is published can be planned with: room for a channel and the       *)
(* remainder under the maximum, which the Planner asserts, and all above   *)
(* the floors; and once nothing is on its way it is what is in effect.     *)
PublishedUsable ==
    options_ended /\ ~publishing =>
        /\ published = settings
        /\ published.min_channel + min_remaining(published) <= published.max_channel
        /\ published.min_channel >= min_min_channel
        /\ published.reserve >= min_usable_reserve

=============================================================================
