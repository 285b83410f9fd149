------------------------------ MODULE OptionParser ------------------------------
(***************************************************************************)
(* Command line options: arguments and flags enter themselves in the        *)
(* Parser, and parse() hands them what getopt_long() finds.  getopt keeps   *)
(* its place between calls and moves what is no option behind the options.  *)
(***************************************************************************)
EXTENDS Integers, Sequences, Lists

CONSTANTS
  Arguments, Flags,   \* the options, two sets of strings; a flag f has a negation, "no-f"
  Values,             \* the values of arguments: numbers; 0 and 1 are also false and true
  MaxArgs             \* bound: words of the command line

VARIABLES
  args,        \* the command line: [kind, option, value]
  vals,        \* Argument::_val of each option and negation, a default at first
  isSet,       \* OptionBase::_set: options and negations that were set
  optind,      \* how many words getopt has seen
  params,      \* Parser::_params
  parsing,     \* "no", "yes", or what parse() returned: "true" or "false"
  parses,      \* calls of parse()
  assigned     \* history: options to which the program has given a value since they were set

optionVars == <<args, vals, isSet, optind, params, parsing, parses, assigned>>

NoValue == -1
Junk == -2            \* what converts to no value
Negation(f) == "no-" \o f
Negations == {Negation(f) : f \in Flags}
Options == Arguments \cup Flags \cup Negations

ASSUME OptionAssumption ==   \* no two options have one name
  /\ Arguments \cap Flags = {} /\ Negations \cap (Arguments \cup Flags) = {}
  /\ {0, 1} \subseteq Values /\ Values \subseteq Nat /\ MaxArgs \in Nat

OfBool(b) == IF b THEN 1 ELSE 0

(* What getopt can find: "long" an option by its long name, with a value or,  *)
(* if none is required, without; "short" one by its letter; "unknown" also a  *)
(* value that is missing; "param" no option.                                  *)
ArgWords ==
  [kind : {"long"}, option : Arguments, value : Values \cup {Junk}]
    \cup [kind : {"long"}, option : Flags \cup Negations, value : {0, 1, Junk, NoValue}]
    \cup [kind : {"short"}, option : Arguments \cup Flags, value : {0}]
    \cup [kind : {"unknown", "param"}, option : Arguments, value : {0}]

OptionInit ==
  /\ args = <<>> /\ optind = 0 /\ params = <<>> /\ isSet = {}
  /\ \E defaults \in [Flags -> {0, 1}] :
       vals = [o \in Options |->
                 IF o \in Arguments THEN 0
                 ELSE IF o \in Flags THEN defaults[o]
                 ELSE OfBool(defaults[CHOOSE f \in Flags : o = Negation(f)] = 0)]
  /\ parsing = "no" /\ parses = 0 /\ assigned = {}

GiveArg(w) ==
  /\ parses = 0 /\ Len(args) < MaxArgs /\ args' = Append(args, w)
  /\ UNCHANGED <<vals, isSet, optind, params, parsing, parses, assigned>>

(* _parsed: parse() returns true at once when it has done so before. *)
CallParse ==
  /\ parsing # "yes" /\ parses < 2 /\ parses' = parses + 1
  /\ parsing' = IF parsing = "true" THEN "true" ELSE "yes"
  /\ UNCHANGED <<args, vals, isSet, optind, params, assigned>>

Converts(o, v) == v # Junk /\ (o \notin Arguments => v \in {0, 1, NoValue})

(* Argument::set(): only a bool is not set by what does not convert. *)
Set(o, v) ==
  /\ vals' = IF Converts(o, v) THEN [vals EXCEPT ![o] = IF v = NoValue THEN 1 ELSE v] ELSE vals
  /\ isSet' = IF Converts(o, v) \/ o \in Arguments THEN isSet \cup {o} ELSE isSet
  /\ assigned' = IF Converts(o, v) THEN assigned \ {o} ELSE assigned

(* Mutant: what is not recognised is passed over. *)
RecognizedOrPassedOver(w) == w.kind # "long" \/ Converts(w.option, w.value)

Recognized(w) == w.kind \in {"long", "param"} /\ (w.kind = "long" => Converts(w.option, w.value))

GetOpt ==
  /\ parsing = "yes" /\ optind < Len(args) /\ optind' = optind + 1
  /\ LET w == args[optind + 1]
     IN  /\ IF w.kind = "long" THEN Set(w.option, w.value) ELSE UNCHANGED <<vals, isSet, assigned>>
         /\ parsing' = IF Recognized(w) THEN "yes" ELSE "false"
  /\ UNCHANGED <<args, params, parses>>

ParamsOf(ws) == EntriesAt(ws, {i \in DOMAIN ws : ws[i].kind = "param"})

ParseReturns ==
  /\ parsing = "yes" /\ optind = Len(args)
  /\ params' = params \o ParamsOf(args) /\ parsing' = "true"
  /\ UNCHANGED <<args, vals, isSet, optind, parses, assigned>>

(* Argument::operator (), which Flag inherits: the negation does not count. *)
ValueOf(o) == vals[o]

(* Flag's conversion to bool: the negation counts whenever it is set. *)
FlagValue(f) ==
  IF Negation(f) \in isSet THEN OfBool(vals[Negation(f)] = 0) ELSE vals[f]

ConvertFlag(f) ==
  /\ parsing # "yes" /\ vals' = [vals EXCEPT ![f] = FlagValue(f)]
  /\ UNCHANGED <<args, isSet, optind, params, parsing, parses, assigned>>

(* operator () with a default: it replaces what was given, too. *)
CallWithDefault(o, v) ==
  /\ parsing # "yes"
  /\ vals' = [vals EXCEPT ![o] = v] /\ assigned' = assigned \cup {o}
  /\ UNCHANGED <<args, isSet, optind, params, parsing, parses>>

OptionNext ==
  \/ \E w \in ArgWords : GiveArg(w)
  \/ CallParse \/ GetOpt \/ ParseReturns
  \/ \E f \in Flags : ConvertFlag(f)
  \/ \E a \in Arguments, v \in Values : CallWithDefault(a, v)
  \/ \E f \in Flags, v \in {0, 1} : CallWithDefault(f, v)

OptionSpec == OptionInit /\ [][OptionNext]_optionVars

--------------------------------------------------------------------------------
(* What the last of the first n words that give o, if any does, says of it. *)
Given(o, n) == {i \in DOMAIN args : i <= n /\ args[i].kind = "long" /\ args[i].option = o}
LastWord(o, n) == args[CHOOSE i \in Given(o, n) : \A j \in Given(o, n) : j <= i]
LastValue(o, n) == IF LastWord(o, n).value = NoValue THEN 1 ELSE LastWord(o, n).value
AllConvert(n) ==
  \A i \in DOMAIN args : i <= n /\ args[i].kind = "long" => Converts(args[i].option, args[i].value)

(* parse() returns true at its first call only if everything was recognised,  *)
(* and then an argument has the value given last, a flag that is converted to *)
(* bool that of its last negation or else its own, however often it is read,  *)
(* and the parameters are the words that are no options, once and in order.   *)
(* Values that the program has replaced since (operator () with a default)    *)
(* are the program's.  A flag that is read by a call, as in the example of    *)
(* OptionParser.cpp:46, does not know of its negation (ValueOf).              *)
OptionsAsGiven ==
  LET all == Len(args)
  IN  parsing = "true" =>
        /\ parses = 1 => AllConvert(all) /\ \A i \in DOMAIN args : args[i].kind \in {"long", "param"}
        /\ params = ParamsOf(args)
        /\ AllConvert(all) =>
             /\ \A a \in Arguments \ assigned : Given(a, all) # {} => ValueOf(a) = LastValue(a, all)
             /\ \A f \in Flags :
                  IF Given(Negation(f), all) # {}
                    THEN FlagValue(f) = OfBool(LastValue(Negation(f), all) = 0)
                    ELSE Given(f, all) # {} /\ f \notin assigned => FlagValue(f) = LastValue(f, all)

(* What the proof carries along: the same of the words getopt has seen so far. *)
OptionTypeOK ==
  /\ args \in Seq(ArgWords) /\ optind \in 0..Len(args) /\ parses \in Nat
  /\ parsing \in {"no", "yes", "true", "false"} /\ isSet \subseteq Options
  /\ vals \in [Options -> Nat] /\ assigned \subseteq Arguments \cup Flags

SoFar ==
  /\ parses = 0 => optind = 0
  /\ parses = 0 <=> parsing = "no"
  /\ parsing = "true" => optind = Len(args)
  /\ params = IF parsing = "true" THEN ParamsOf(args) ELSE <<>>
  /\ parses = 1 /\ parsing # "false" => \A i \in DOMAIN args : i <= optind => Recognized(args[i])
  /\ \A o \in isSet : Given(o, optind) # {}
  /\ AllConvert(optind) =>
       \A o \in Options :
         Given(o, optind) # {} =>
           /\ o \in isSet
           /\ vals[o] = LastValue(o, optind) \/ o \in assigned \/ (o \in Flags /\ Negation(o) \in isSet)

OptionIInv == OptionTypeOK /\ SoFar
================================================================================
