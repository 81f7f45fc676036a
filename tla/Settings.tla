-------------------------------- MODULE Settings --------------------------------
(***************************************************************************)
(* Settings over several runs of the server: the environment, the file     *)
(* ServerConfig.toml and the command line at each start (TConfig, main),   *)
(* then the console's "settings set" and the plugins' MP.Set.  Every start *)
(* writes the file anew, from what it read.  The operator edits it at any  *)
(* time, and the process may stop between any two steps.                   *)
(*                                                                         *)
(* Four of the seventeen keys stand for all: one that the console may not  *)
(* touch, two that it may read, of which plugins may set one, and one that *)
(* both may set.  0 is every key's default, for AuthKey the empty string.  *)
(***************************************************************************)
EXTENDS Naturals

CONSTANTS
    Values,         \* values of the right type
    None,
    Absent, Wrong,  \* no line for a key; a value of another type
    Malformed,      \* a file that does not parse
    Unknown,
    PortRange,      \* 2^16: what is less is a port
    MaxStarts,      \* bound: starts of the server
    MaxEdits,       \* bound: edits of the file
    MaxSets         \* bound: changes while it runs, over all starts

Keys == {"AuthKey", "Port", "Private", "Name"}

ASSUME ConstantsAssumption ==
    /\ 0 \in Values /\ Values \subseteq Nat
    /\ PortRange \in Nat \ {0}
    /\ {None, Absent, Wrong, Malformed, Unknown} \cap Nat = {}
    /\ None # Malformed /\ {None, Malformed} \cap [Keys -> Values \cup {Absent, Wrong}] = {}
    /\ {MaxStarts, MaxEdits, MaxSets} \subseteq Nat

Ports == 0..(PortRange - 1)
Default == [k \in Keys |-> 0]

\* Mutant of InputAccessMapping: the port can be written.
InputAccessMapping_Port ==
    [AuthKey |-> "NO_ACCESS", Port |-> "READ_WRITE", Private |-> "READ_ONLY", Name |-> "READ_WRITE"]
InputAccessMapping ==
    [AuthKey |-> "NO_ACCESS", Port |-> "READ_ONLY", Private |-> "READ_ONLY", Name |-> "READ_WRITE"]
LuaMaySet == {"Private", "Name"}

VARIABLES
    phase,      \* where the start is; "up" once main has passed the command line; "down"
    settings,   \* SettingsMap
    file,       \* what a parse of ServerConfig.toml gives, Malformed or None
    env,        \* this start's environment, a function of the keys it has a value for
    portArgument,   \* --port
    disabled,   \* mDisableConfig
    bound,      \* the port TNetwork has bound
    starts, edits, sets,    \* counters, for the bounds
    due         \* history: what the next start should find for each key

settingsVars == <<phase, settings, file, env, portArgument, disabled, bound, starts, edits, sets, due>>

\* Only the port need have values beyond a port's.
ValuesOf(k) == IF k = "Port" THEN Values ELSE Values \cap Ports
\* A value for no key, or for one.
NoValues == [k \in {} |-> 0]
Environments == {NoValues} \cup UNION {[{k} -> ValuesOf(k) \ {0}] : k \in Keys}

SettingsTypeOK ==
    /\ phase \in {"down", "create", "created", "parse", "flush", "truncated", "check", "arguments", "up"}
    /\ settings \in [Keys -> Values]
    /\ file \in [Keys -> Values \cup {Absent, Wrong}] \cup {None, Malformed}
    /\ env \in Environments
    /\ portArgument \in Values \cup {None} /\ disabled \in BOOLEAN
    /\ bound \in Ports \cup {None}
    /\ starts \in 0..MaxStarts /\ edits \in 0..MaxEdits /\ sets \in 0..MaxSets
    /\ due \in [Keys -> Values \cup {Unknown}]

SettingsInit ==
    /\ phase = "down"
    /\ settings = Default /\ file = None
    /\ env = NoValues /\ portArgument = None /\ disabled = FALSE
    /\ bound = None
    /\ starts = 0 /\ edits = 0 /\ sets = 0
    /\ due = Default
-----------------------------------------------------------------------------
(* TConfig. *)

Start ==
    /\ phase = "down" /\ starts < MaxStarts
    /\ starts' = starts + 1
    /\ settings' = Default
    /\ env' \in Environments
    /\ portArgument' \in {None} \cup (Values \ {0})
    /\ disabled' \in BOOLEAN
    /\ phase' = IF file = None /\ ~disabled' THEN "create" ELSE "parse"
    /\ UNCHANGED <<file, bound, edits, sets, due>>

\* Mutant of Written: a key that FlushToFile forgets.
Written_NoPrivate == [settings EXCEPT !["Private"] = Absent]
\* What FlushToFile writes: all keys.
Written == settings

\* FlushToFile, for CreateConfigFile and for ParseFromFile: fopen empties the
\* file, fclose or a full buffer writes it.
OpenFile ==
    /\ phase \in {"create", "flush"}
    /\ file' = [k \in Keys |-> Absent]
    /\ phase' = IF phase = "create" THEN "created" ELSE "truncated"
    /\ UNCHANGED <<settings, env, portArgument, disabled, bound, starts, edits, sets, due>>

\* From now on the environment's values are the file's.
WriteFile ==
    /\ phase \in {"created", "truncated"}
    /\ file' = Written
    /\ \/ phase = "created" /\ phase' = "parse" /\ due' = Default
       \/ phase = "truncated" /\ phase' = "check"
          /\ due' = [k \in Keys |-> IF due[k] = Unknown THEN settings[k]
                                    ELSE IF k \in DOMAIN env THEN env[k] ELSE due[k]]
    /\ UNCHANGED <<settings, env, portArgument, disabled, bound, starts, edits, sets>>

\* A file that was written in part: it lacks lines, all if nothing was written
\* yet, or ends within one and does not parse.
Torn == {[k \in Keys |-> IF k \in part THEN settings[k] ELSE Absent] : part \in SUBSET Keys} \cup {Malformed}

\* A write that falls short is only logged, and the start goes on.
WriteShort ==
    /\ phase \in {"created", "truncated"}
    /\ file' \in Torn
    /\ due' = [k \in Keys |-> Unknown]
    /\ phase' = IF phase = "created" THEN "parse" ELSE "check"
    /\ UNCHANGED <<settings, env, portArgument, disabled, bound, starts, edits, sets>>

\* The file cannot be opened: the exception ends main.
CannotWrite ==
    /\ phase \in {"create", "flush"}
    /\ phase' = "down"
    /\ UNCHANGED <<settings, file, env, portArgument, disabled, bound, starts, edits, sets, due>>

TryReadValue(data, k) ==
    IF k \in DOMAIN env THEN env[k] ELSE IF data[k] \in Values THEN data[k] ELSE settings[k]

ParseFromFile ==
    /\ phase = "parse"
    /\ disabled \/ file # Malformed
    /\ LET data == IF disabled THEN [k \in Keys |-> Absent] ELSE file IN
       settings' = [k \in Keys |-> TryReadValue(data, k)]
    /\ phase' = IF disabled THEN "check" ELSE "flush"
    /\ UNCHANGED <<file, env, portArgument, disabled, bound, starts, edits, sets, due>>

\* The file does not parse: nothing is written, and the server ends.
ParseFails ==
    /\ phase = "parse" /\ ~disabled
    /\ file = Malformed
    /\ phase' = "down"
    /\ UNCHANGED <<settings, file, env, portArgument, disabled, bound, starts, edits, sets, due>>

CheckAuthKey ==
    /\ phase = "check"
    /\ phase' = IF settings["AuthKey"] = 0 THEN "down" ELSE "arguments"
    /\ UNCHANGED <<settings, file, env, portArgument, disabled, bound, starts, edits, sets, due>>
-----------------------------------------------------------------------------
(* main, the console, plugins. *)

\* What a start was given is not read again once it has come this far.
Forget == env' = NoValues /\ portArgument' = None /\ disabled' = FALSE

\* An argument that is no port ends main.
OverridePort ==
    /\ phase = "arguments"
    /\ phase' = IF portArgument \in Ports \cup {None} THEN "up" ELSE "down"
    /\ settings' = IF portArgument \in Ports THEN [settings EXCEPT !["Port"] = portArgument] ELSE settings
    /\ Forget
    /\ UNCHANGED <<file, bound, starts, edits, sets, due>>

\* A setting becomes a port of 16 bits; only --port was checked.
Narrow(p) == p % PortRange

\* TNetwork's threads; the heartbeat's runs already, and the console and plugins
\* may set values before these get so far.
Bind ==
    /\ phase = "up" /\ bound = None
    /\ bound' = Narrow(settings["Port"])
    /\ UNCHANGED <<phase, settings, file, env, portArgument, disabled, starts, edits, sets, due>>

Set(k, v) ==
    /\ phase = "up" /\ sets < MaxSets
    /\ v # settings[k]
    /\ sets' = sets + 1
    /\ settings' = [settings EXCEPT ![k] = v]
    /\ UNCHANGED <<phase, file, env, portArgument, disabled, bound, starts, edits, due>>

ConsoleSets(k, v) == InputAccessMapping[k] = "READ_WRITE" /\ Set(k, v)
LuaSets(k, v) == k \in LuaMaySet /\ Set(k, v)
-----------------------------------------------------------------------------
(* The operator, and the end of the process. *)

\* An edit between ParseFromFile and the end of its FlushToFile is overwritten.
Edit(k, v) ==
    /\ edits < MaxEdits
    /\ file # None
    /\ edits' = edits + 1
    /\ file' = IF file = Malformed THEN [j \in Keys |-> IF j = k THEN v ELSE Absent]
               ELSE [file EXCEPT ![k] = v]
    /\ due' = [due EXCEPT ![k] = IF phase \in {"created", "flush", "truncated"} THEN Unknown
                                 ELSE IF v = Wrong THEN Default[k] ELSE v]
    /\ UNCHANGED <<phase, settings, env, portArgument, disabled, bound, starts, sets>>

Stop ==
    /\ phase # "down"
    /\ phase' = "down" /\ bound' = None
    /\ settings' = Default /\ Forget
    /\ IF phase \in {"created", "truncated"}
       THEN file' \in Torn /\ due' = [k \in Keys |-> Unknown]
       ELSE UNCHANGED <<file, due>>
    /\ UNCHANGED <<starts, edits, sets>>
-----------------------------------------------------------------------------
SettingsNext ==
    \/ Start \/ OpenFile \/ WriteFile \/ WriteShort \/ CannotWrite \/ ParseFromFile \/ ParseFails \/ CheckAuthKey
    \/ OverridePort \/ Bind
    \/ \E k \in Keys : \E v \in ValuesOf(k) : ConsoleSets(k, v) \/ LuaSets(k, v)
    \/ \E k \in Keys : \E v \in ValuesOf(k) \cup {Wrong} : Edit(k, v)

(* An inductive invariant for the start.                                   *)

\* What a start takes from the file for a key.
FromFile(k) == IF file \notin {None, Malformed} /\ file[k] \in Values THEN file[k] ELSE Default[k]

FileIsThere == (phase = "parse" /\ ~disabled) \/ phase \in {"created", "truncated"} => file # None

\* While it is not rewritten the file says what is due.
FileSaysWhatIsDue ==
    phase \notin {"created", "truncated"} => \A k \in Keys : due[k] \in {FromFile(k), Unknown}

StartsFromDefault == phase \in {"create", "created", "parse"} => settings = Default

\* What was parsed is kept until it is written.
ParsedIsDue ==
    phase \in {"flush", "truncated"} =>
        \A k \in Keys : IF k \in DOMAIN env THEN settings[k] = env[k] ELSE due[k] \in {settings[k], Unknown}

SettingsInv == SettingsTypeOK /\ FileIsThere /\ FileSaysWhatIsDue /\ StartsFromDefault /\ ParsedIsDue
-----------------------------------------------------------------------------
\* The server starts with what the environment says, else with the operator's
\* last word, in the file or in the environment of an earlier start, else with
\* the default: reading and rewriting the file at every start loses nothing and
\* brings nothing of a run's own changes back, unless the process stopped
\* while it rewrote the file, the write fell short, or the operator edited the
\* file just then (TConfig.cpp:130, 172, 196, 289).
StartsAsConfigured ==
    [][phase = "parse" /\ phase' \in {"flush", "check"} =>
          \A k \in Keys :
             IF k \in DOMAIN env THEN settings'[k] = env[k]
             ELSE IF disabled THEN settings'[k] = Default[k]
             ELSE due[k] \in {settings'[k], Unknown}]_settingsVars
=============================================================================
