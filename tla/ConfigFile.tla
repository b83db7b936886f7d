----------------------------- MODULE ConfigFile -----------------------------
(***************************************************************************)
(* src/config.cpp: parseArgs, the line parser of loadConfig and            *)
(* applyCliOverrides.  Of the keys it keeps one of each kind: a switch for *)
(* the events, a switch the command line overrides, a number with a range, *)
(* and a number the command line overrides.                                *)
(*                                                                         *)
(* A line is what is left when the comment is cut off and it is trimmed:   *)
(* "blank", "bare" (no colon), or a "pair" of name and value.  A pair with *)
(* an empty value ends in its colon, as a section's header does.  Whether  *)
(* a pair was indented, as config.yaml indents the keys and only the keys, *)
(* is gone with the trimming; it tells what the user meant.                *)
(***************************************************************************)
EXTENDS Integers, Sequences, FiniteSets

CONSTANTS
  IntValue,   \* the texts std::stoi accepts, and the numbers it makes of them
  TrueWords,  \* the texts that parseBool takes for true
  Readable    \* the paths std::ifstream can open

ASSUME ConfigAssumption ==
  /\ DOMAIN IntValue \subseteq STRING /\ "" \notin DOMAIN IntValue
  /\ \A text \in DOMAIN IntValue : IntValue[text] \in Int
  /\ "" \notin Readable

SaveEvents == <<"app", "save_events">>
WebPort == <<"app", "web_port">>
UseRknn == <<"runtime", "use_rknn">>
NumWorkers == <<"runtime", "num_workers">>

Bools == {SaveEvents, UseRknn}
Keys == Bools \cup {WebPort, NumWorkers}

\* A line of the file.
FileLine ==
  [kind : {"blank", "bare"}]
  \cup [kind : {"pair"}, indented : BOOLEAN, name : STRING, value : STRING]

Default ==
  [k \in Keys |-> CASE k = WebPort -> 8080 [] k = NumWorkers -> 1
                    [] OTHER -> TRUE]

VARIABLES
  argv, arg,   \* the command line and parseArgs' index
  options,     \* CliOptions
  parsed,      \* how parseArgs ends: "ok", "help" or "throws"
  file, line,  \* the file's lines and the next one
  section,
  config

configVars == <<argv, arg, options, parsed, file, line, section, config>>

ConfigInit ==
  /\ arg = 1 /\ line = 1
  /\ options = [mock |-> FALSE, config_path |-> "config.yaml", port |-> 0]
  /\ parsed = "ok"
  /\ section = ""
  /\ config = Default

-----------------------------------------------------------------------------
(* parseArgs                                                               *)

\* next(): the following argument, empty if there is none.
NextArg == IF arg + 1 \in DOMAIN argv THEN argv[arg + 1] ELSE ""

Parsing == arg \in DOMAIN argv /\ parsed = "ok"

ParseMock ==
  /\ Parsing /\ argv[arg] = "--mock"
  /\ options' = [options EXCEPT !.mock = TRUE]
  /\ arg' = arg + 1
  /\ UNCHANGED parsed

ParseConfigPath ==
  /\ Parsing /\ argv[arg] = "--config"
  /\ options' = [options EXCEPT !.config_path = NextArg]
  /\ arg' = arg + 2
  /\ UNCHANGED parsed

\* std::stoi(next()) throws if that is no number, and nobody catches.
ParsePort ==
  /\ Parsing /\ argv[arg] = "--port"
  /\ arg' = arg + 2
  /\ IF NextArg \in DOMAIN IntValue
     THEN /\ options' = [options EXCEPT !.port = IntValue[NextArg]]
          /\ UNCHANGED parsed
     ELSE /\ parsed' = "throws"
          /\ UNCHANGED options

ParseHelp ==
  /\ Parsing /\ argv[arg] = "--help"
  /\ parsed' = "help"
  /\ UNCHANGED <<arg, options>>

ParseUnknown ==
  /\ Parsing /\ argv[arg] \notin {"--mock", "--config", "--port", "--help"}
  /\ arg' = arg + 1
  /\ UNCHANGED <<options, parsed>>

ParseArg ==
  /\ ParseMock \/ ParseConfigPath \/ ParsePort \/ ParseHelp \/ ParseUnknown
  /\ UNCHANGED <<argv, file, line, section, config>>

-----------------------------------------------------------------------------
(* loadConfig                                                              *)

\* max(1, ...) where assign() has it.
Stored(key, number) ==
  IF key = NumWorkers /\ number < 1 THEN 1 ELSE number

\* Every such line starts a section, whatever its name.
IsHeader(l) == l.kind = "pair" /\ l.value = ""

\* std::atoi in the place of std::stoi: what is no number is 0.
assignWithAtoi(c, key, value) ==
  CASE key \in Bools -> [c EXCEPT ![key] = value \in TrueWords]
    [] key \in Keys \ Bools ->
         [c EXCEPT ![key] = Stored(key, IF value \in DOMAIN IntValue
                                        THEN IntValue[value] ELSE 0)]
    [] OTHER -> c

\* assign(): unknown keys are ignored, and so is a number that std::stoi
\* rejects; a switch is off unless its value is a word for true.
assign(c, key, value) ==
  CASE key \in Bools -> [c EXCEPT ![key] = value \in TrueWords]
    [] key \in Keys \ Bools /\ value \in DOMAIN IntValue ->
         [c EXCEPT ![key] = Stored(key, IntValue[value])]
    [] OTHER -> c

ReadLine ==
  /\ line \in DOMAIN file
  /\ line' = line + 1
  /\ LET l == file[line]
     IN /\ section' = IF IsHeader(l) THEN l.name ELSE section
        /\ config' = IF l.kind = "pair" /\ ~IsHeader(l)
                     THEN assign(config, <<section, l.name>>, l.value)
                     ELSE config
  /\ UNCHANGED <<argv, arg, options, parsed, file>>

\* The range of num_workers.
Clamp(number) == CASE number < 1 -> 1 [] number > 3 -> 3 [] OTHER -> number

\* The end of the file, then applyCliOverrides.
Finish ==
  /\ line \notin DOMAIN file
  /\ config' = [k \in Keys |->
       CASE k = NumWorkers -> Clamp(config[k])
         [] k = WebPort /\ options.port > 0 -> options.port
         [] k = UseRknn /\ options.mock -> FALSE
         [] OTHER -> config[k]]
  /\ UNCHANGED <<argv, arg, options, parsed, file, line, section>>

-----------------------------------------------------------------------------
(* What the user wrote, without a parser                                   *)

\* A section is a name at the margin with nothing behind its colon.
OpensSection(l) == l.kind = "pair" /\ ~l.indented /\ l.value = ""

\* No key is left without a value.  (One that is ends its section, and what the
\* user wrote below it is not read: config.cpp:110.)
KeysHaveValues ==
  \A i \in DOMAIN file : file[i].kind = "pair" /\ file[i].indented => file[i].value # ""

\* The lines that set a key: those in the key's section, with a value that can
\* be read.
LinesFor(key) ==
  {i \in DOMAIN file :
     /\ file[i].kind = "pair" /\ file[i].name = key[2] /\ file[i].value # ""
     /\ key \in Bools \/ file[i].value \in DOMAIN IntValue
     /\ \E j \in 1 .. i - 1 :
          /\ OpensSection(file[j]) /\ file[j].name = key[1]
          /\ \A k \in j + 1 .. i - 1 : ~OpensSection(file[k])}

\* The last of some places.
Latest(places) == CHOOSE i \in places : \A j \in places : j <= i

\* What a line sets a key to.
Meant(key, i) ==
  IF key \in Bools THEN file[i].value \in TrueWords ELSE IntValue[file[i].value]

\* The last line counts, whatever the other lines are.
Written(key) ==
  IF LinesFor(key) = {} THEN Default[key] ELSE Meant(key, Latest(LinesFor(key)))

ValueOptions == {"--config", "--port"}

\* The places of the command line that are not another option's value: in a run
\* of words that take a value every second one, beginning with the first, is an
\* option, and so is the word after the run if the run has an even length.
OptionPlaces ==
  {i \in DOMAIN argv :
     \E first \in 1 .. i :
       /\ (i - first) % 2 = 0
       /\ \A k \in first .. i - 1 : argv[k] \in ValueOptions
       /\ first > 1 => argv[first - 1] \notin ValueOptions}

Given(option) == {i \in OptionPlaces : argv[i] = option}

\* A --port without a number, and --help, end the program; the first one decides.
BadPorts ==
  {i \in Given("--port") : i + 1 \notin DOMAIN argv \/ argv[i + 1] \notin DOMAIN IntValue}
CommandLine ==
  LET ends == BadPorts \cup Given("--help")
  IN CASE ends = {} -> "ok"
       [] \E i \in BadPorts : \A j \in ends : i <= j -> "throws"
       [] OTHER -> "help"

\* The number after the last --port, or none.
PortAsked == IF Given("--port") = {} THEN 0 ELSE IntValue[argv[Latest(Given("--port")) + 1]]

\* The nearest number of a range.
Nearest(lo, hi, n) ==
  CHOOSE m \in lo .. hi : \A k \in lo .. hi : (m - n) * (m - n) <= (k - n) * (k - n)

\* What a key should be: the command line's word if it has one, else the file's,
\* else the default, within its range.
Effective(key) ==
  CASE key = UseRknn /\ Given("--mock") # {} -> FALSE
    [] key = WebPort /\ PortAsked > 0 -> PortAsked
    [] key = NumWorkers -> Nearest(1, 3, Written(key))
    [] OTHER -> Written(key)
=============================================================================
