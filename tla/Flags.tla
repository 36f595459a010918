------------------------------- MODULE Flags -------------------------------
(***************************************************************************)
(* The two switches of the system: maintenance (core/maintenance.py) and   *)
(* the second factor (core/two_factor.py).  A switch is kept in Redis, in  *)
(* a file of the container and for two seconds in the memory of a process; *)
(* when Redis has no value maintenance is off and the second factor is     *)
(* what the configuration says.                                            *)
(***************************************************************************)
EXTENDS Naturals

CONSTANTS
  Hosts,        \* processes, each in a container of its own
  Configured,   \* TWO_FACTOR_ENABLED of .env
  MaxSwitches,  \* bound: changes of a switch
  MaxOutages    \* bound: losses of Redis

ASSUME FlagsAssumption ==
  Configured \in {"on", "off"} /\ MaxSwitches \in Nat /\ MaxOutages \in Nat

Switches == {"maintenance", "two_factor"}
Values == {"on", "off"}

VARIABLES
  redisUp,
  kept,       \* the key of a switch in Redis, "none" if there is none
  file,       \* the fallback file, per process and switch
  config,     \* settings.TWO_FACTOR_ENABLED, per process
  memory,     \* _cached_state, "none" when it is over two seconds old
  asking,     \* a read that awaits Redis: the value it got, "none" if there is none
  lastSet,    \* history: the value a switch was last set to, if that reached Redis
  switches, outages

flagVars == << redisUp, kept, file, config, memory, asking, lastSet, switches, outages >>

None == "none"

FlagsInit ==
  /\ redisUp = TRUE
  /\ kept = [s \in Switches |-> None]
  /\ file = [x \in Hosts \X Switches |-> None]
  /\ config = [h \in Hosts |-> Configured]
  /\ memory = [x \in Hosts \X Switches |-> None]
  /\ asking = [x \in Hosts \X Switches |-> None]
  /\ lastSet = [s \in Switches |-> None]
  /\ switches = 0 /\ outages = 0

Default(h, s) == IF s = "maintenance" THEN "off" ELSE config[h]

Or(value, default) == IF value = None THEN default ELSE value

\* get_maintenance_info and get_two_factor_info beyond the memory: Redis answers ...
Ask(h, s) ==
  /\ memory[<<h, s>>] = None /\ asking[<<h, s>>] = None /\ redisUp
  /\ asking' = [asking EXCEPT ![<<h, s>>] = Or(kept[s], Default(h, s))]
  /\ UNCHANGED << redisUp, kept, file, config, memory, lastSet, switches, outages >>

\* ... and the answer is kept in memory, even if the switch was set here meanwhile;
\* it expires two seconds after the question.
Answered(h, s) ==
  /\ asking[<<h, s>>] # None
  /\ memory' = [memory EXCEPT ![<<h, s>>] = asking[<<h, s>>]]
  /\ asking' = [asking EXCEPT ![<<h, s>>] = None]
  /\ UNCHANGED << redisUp, kept, file, config, lastSet, switches, outages >>

\* Without Redis: the file, or the default.
ReadFile(h, s) ==
  /\ memory[<<h, s>>] = None /\ asking[<<h, s>>] = None /\ ~redisUp
  /\ memory' = [memory EXCEPT ![<<h, s>>] = Or(file[<<h, s>>], Default(h, s))]
  /\ UNCHANGED << redisUp, kept, file, config, asking, lastSet, switches, outages >>

\* Variant with a defect: what is in memory stays there.
Never(h, s) == FALSE

Expired(h, s) == memory[<<h, s>>] # None

Expire(h, s) ==
  /\ Expired(h, s)
  /\ memory' = [memory EXCEPT ![<<h, s>>] = None]
  /\ UNCHANGED << redisUp, kept, file, config, asking, lastSet, switches, outages >>

\* The three copies that both setters write; an error of Redis is logged and the rest
\* is written all the same.
Write(h, s, value) ==
  /\ switches < MaxSwitches /\ switches' = switches + 1
  /\ kept' = IF redisUp THEN [kept EXCEPT ![s] = value] ELSE kept
  /\ lastSet' = [lastSet EXCEPT ![s] = IF redisUp THEN value ELSE @]
  /\ file' = [file EXCEPT ![<<h, s>>] = value]
  /\ memory' = [memory EXCEPT ![<<h, s>>] = value]
  /\ UNCHANGED << redisUp, asking, outages >>

\* set_maintenance_mode
SetMaintenance(h, value) == Write(h, "maintenance", value) /\ UNCHANGED config

\* set_two_factor_mode also changes the setting of its own process.
SetTwoFactor(h, value) ==
  /\ Write(h, "two_factor", value)
  /\ config' = [config EXCEPT ![h] = value]

Outage ==
  /\ redisUp /\ outages < MaxOutages
  /\ redisUp' = FALSE /\ outages' = outages + 1
  /\ UNCHANGED << kept, file, config, memory, asking, lastSet, switches >>

Recovery ==
  /\ ~redisUp
  /\ redisUp' = TRUE
  /\ UNCHANGED << kept, file, config, memory, asking, lastSet, switches, outages >>

FlagsNext ==
  \/ \E h \in Hosts, s \in Switches : Ask(h, s)
  \/ \E h \in Hosts, s \in Switches : Answered(h, s)
  \/ \E h \in Hosts, s \in Switches : ReadFile(h, s)
  \/ \E h \in Hosts, s \in Switches : Expire(h, s)
  \/ \E h \in Hosts, v \in Values : SetMaintenance(h, v)
  \/ \E h \in Hosts, v \in Values : SetTwoFactor(h, v)
  \/ Outage
  \/ Recovery

\* Time passes, Redis comes back and answers.
FlagsFairness ==
  /\ WF_flagVars(Recovery)
  /\ \A h \in Hosts, s \in Switches : WF_flagVars(Answered(h, s)) /\ WF_flagVars(Expire(h, s))

FlagsSpec == FlagsInit /\ [][FlagsNext]_flagVars

-----------------------------------------------------------------------------
(* Properties.                                                             *)

FlagsTypeOK ==
  /\ redisUp \in BOOLEAN
  /\ kept \in [Switches -> Values \cup {None}]
  /\ file \in [Hosts \X Switches -> Values \cup {None}]
  /\ config \in [Hosts -> Values]
  /\ memory \in [Hosts \X Switches -> Values \cup {None}]
  /\ asking \in [Hosts \X Switches -> Values \cup {None}]
  /\ lastSet \in [Switches -> Values \cup {None}]
  /\ switches \in 0..MaxSwitches /\ outages \in 0..MaxOutages

\* A switch that reached Redis takes effect in every process in the end, whatever their
\* memory held, a read that was under way when it was set wrote back afterwards, and
\* however often Redis was away.
SwitchesConverge ==
  \A s \in Switches, v \in Values :
    <>[](lastSet[s] = v) => <>[](\A h \in Hosts : memory[<<h, s>>] \in {None, v})
=============================================================================
