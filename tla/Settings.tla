------------------------------ MODULE Settings ------------------------------
(***************************************************************************)
(* The registered settings (include/slt/settings.h, src/slt/settings/      *)
(* settings.cpp): their values and defaults, what an argument of the       *)
(* command line does to them, and the three of them that the construction  *)
(* of a Core reads. A text is what follows the "=" of an argument.         *)
(***************************************************************************)
EXTENDS Integers

CONSTANTS
    Ints,           \* the integers tried
    InitialDefaults \* the default each setting is registered with

VARIABLES
    value,  \* value_ of each setting
    default \* default_ of each setting

settingVars == <<value, default>>

Names == {"workers", "log_async", "async_log_queue"}

\* The only validator there is: (v & (v - 1)) == 0.
Valid(s, v) ==
    s = "async_log_queue" => v = 0 \/ \E k \in 0 .. 30 : v = 2^k

ASSUME IntsKnown == Ints \subseteq Int /\ {0, 1} \subseteq Ints
ASSUME DefaultsValid ==
    InitialDefaults \in [Names -> Ints] /\ \A s \in Names : Valid(s, InitialDefaults[s])

SettingsInit == value = InitialDefaults /\ default = InitialDefaults

-----------------------------------------------------------------------------
Texts == [kind : {"number"}, number : Ints] \cup [kind : {"word", "empty"}, number : {0}]

\* What `T val; stream >> val` can leave in val: the number, 0 for a text that
\* does not start with one, and whatever was there if there is no text. A
\* number other than 0 and 1 reads as true.
Extracted(s, text) ==
    LET Narrow(n) == IF s = "log_async" /\ n # 0 THEN 1 ELSE n
    IN  {Narrow(n) : n \in IF text.kind = "empty" THEN Ints ELSE {text.number}}

\* An argument starts with a dash (its first two characters are dropped,
\* whatever the second is) and splits at "=" in two parts, the first of which
\* names a setting; all others are unusable.
Arguments == [name : Names \cup {"unusable"}, text : Texts]

\* Setting::set, for a value that passes.
Assign(s, v) ==
    /\ Valid(s, v)
    /\ value' = [value EXCEPT ![s] = v]
    /\ UNCHANGED default

\* settings::init, one argument that is assigned.
AssignArgument(arg) ==
    /\ arg.name \in Names
    /\ \E v \in Extracted(arg.name, arg.text) : Assign(arg.name, v)

\* settings::init, one argument at which it throws; those before it stay.
RefusedArgument(arg) ==
    /\ arg.name \in Names => \E v \in Extracted(arg.name, arg.text) : ~Valid(arg.name, v)
    /\ UNCHANGED settingVars

\* Setting::setDefault, which no reset reverts.
SetDefault(s, v) ==
    /\ Valid(s, v)
    /\ default' = [default EXCEPT ![s] = v]
    /\ value' = [value EXCEPT ![s] = v]

\* A plausible bug: the first setting is skipped.
ResetAllButOne == value' = [default EXCEPT !["workers"] = value["workers"]] /\ UNCHANGED default

\* settings::resetAll
ResetAll == value' = default /\ UNCHANGED default
=============================================================================
