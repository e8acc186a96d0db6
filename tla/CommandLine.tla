---------------------------- MODULE CommandLine ----------------------------
(***************************************************************************)
(* How `redcli run` comes to its configuration: main's choice of a command *)
(* and rle4k_cmd_run (src/redcli/main.cpp), which first lets load_config   *)
(* read redcli.json (ConfigScan) and then passes over the words of the     *)
(* command line.  What the numbers do to the run is the business of        *)
(* Settings.                                                               *)
(*                                                                         *)
(* A word is <<kind, ...>>: an option that takes a value, named after the  *)
(* field it sets whatever its aliases; a switch; a help request; or any    *)
(* other text.  std::stoi and std::stod read the number a text begins with *)
(* and pass over what follows (5x is 5), and throw when there is none or   *)
(* when it is too large; nothing catches that and the process ends.        *)
(***************************************************************************)
EXTENDS ConfigScan

CONSTANTS
  Situations,   \* [argv, document, found]: how redcli may be started
  IntMax,       \* the largest number an int holds, INT_MAX
  DoubleMax     \* the largest integer that std::stod makes a double of

CInt    == -(IntMax + 1) .. IntMax
CDouble == -DoubleMax .. DoubleMax

\* What stands between two commas of a text: a number with whatever follows it,
\* something that begins with no number, or nothing.
Letters == <<"letters">>
Blank   == <<"blank">>
Part    == Numbers \cup {Letters, Blank}

Option(k)    == <<"option", k>>
Switch(k, v) == <<"switch", k, v>>
Help         == <<"help">>
Writing(s, parts) == <<"text", s, parts>>
Other(s)     == Writing(s, <<Letters>>)

IntOptions ==
  {"mode", "repeat", "oblique_factor", "block_line", "strip_width", "raster_threads",
   "encode_threads", "decode_threads", "cache_blocks_min", "cache_blocks_max"}
TextOptions == {"input", "verbose", "csv"}

Words ==
  ({"option"} \X (IntOptions \cup TextOptions \cup {"pitch_width_um", "formats"}))
    \cup ({"switch"} \X {"encode_enabled", "decode_enabled", "check_enabled"} \X {0, 1})
    \cup {Help} \cup ({"text"} \X STRING \X Seq(Part))

ASSUME LimitsAssumption == IntMax \in Nat /\ DoubleMax \in Nat /\ IntMax <= DoubleMax

ASSUME SituationsAssumption ==
  Situations \subseteq [argv : Seq(Words), document : Document, found : BOOLEAN]

\* What std::atoi makes of a number that no int holds is undefined: left out.
ASSUME DocumentsAssumption ==
  \A s \in Situations : \A t \in ToSet(Text(s.document)) : t[1] = "number" => t[2] \in -IntMax .. IntMax

VARIABLES
  argv,      \* the words after the program's name
  i,         \* the next word to look at
  csv,       \* csv_path
  stage      \* "main", "parse", "run", "init", "edit", "usage0", "usage1", "crashed"

vars == <<scanVars, argv, i, csv, stage>>

\* A word taken as text.
Spelling(w) == IF w[1] \in {"option", "text"} THEN w[2] ELSE w[1]

\* A word split at its commas; options, switches and help begin with a dash.
Parts(w) == IF w[1] = "text" THEN w[3] ELSE <<Letters>>

\* What std::stoi and std::stod look at.
Start(w) == IF Parts(w) = <<>> THEN Blank ELSE Parts(w)[1]

\* Whether they read it, and read each id of a list; an id left empty is passed over.
Readable(k, w) ==
  CASE k \in IntOptions   -> Start(w)[1] = "number" /\ Start(w)[2] \in CInt
    [] k = "pitch_width_um" -> Start(w)[1] = "number" /\ Start(w)[2] \in CDouble
    [] k = "formats"       -> \A part \in ToSet(Parts(w)) :
                                part # Blank => part[1] = "number" /\ part[2] \in CInt
    [] k \in TextOptions   -> TRUE

Value(k, w) ==
  CASE k \in IntOptions   -> Start(w)[2]
    [] k = "pitch_width_um" -> <<Start(w)[2], Start(w)[3]>>
    [] k = "formats"       -> LET ids == Only(Parts(w), Numbers)
                              IN  [n \in 1 .. Len(ids) |-> ids[n][2]]
    [] k \in TextOptions   -> Spelling(w)

Init ==
  /\ \E s \in Situations : argv = s.argv /\ document = s.document /\ found = s.found
  /\ ScanInit
  /\ i = 2
  /\ csv = ""
  /\ stage = "main"

\* main: the command is the first word; benchmark and config are older names.
Dispatch ==
  /\ stage = "main"
  /\ stage' = CASE argv = <<>> -> "usage1"
                [] argv # <<>> /\ argv[1] \in {Help, Other("help")} -> "usage0"
                [] argv # <<>> /\ argv[1] = Other("init") -> "init"
                [] argv # <<>> /\ argv[1] \in {Other("run"), Other("benchmark")} -> "parse"
                [] argv # <<>> /\ argv[1] \in {Other("edit"), Other("config")} -> "edit"
                [] OTHER -> "usage1"
  /\ UNCHANGED <<scanVars, argv, i, csv>>

\* A run reads redcli.json before it looks at any other word.
Load ==
  /\ stage = "parse"
  /\ LoadKey \/ NotLoaded
  /\ UNCHANGED <<argv, i, csv, stage>>

Parsing == stage = "parse" /\ pending = <<>> /\ i <= Len(argv)
Word    == argv[i]

\* Faulty: a field that is no longer its default is not set again.
Assign_Once(k, v) == IF cfg[k] = StructDefault[k] THEN [cfg EXCEPT ![k] = v] ELSE cfg

\* cfg.k = v
Assign(k, v) == [cfg EXCEPT ![k] = v]

\* Faulty: the last word may be an option, too.
HasValue_Always == TRUE

\* i+1 < argc
HasValue == i < Len(argv)

\* An option with its value, whatever that looks like.
TakeOption ==
  /\ Parsing /\ Word[1] = "option" /\ HasValue
  /\ IF i < Len(argv) /\ Readable(Word[2], argv[i + 1])
     THEN LET v == Value(Word[2], argv[i + 1])
          IN  /\ cfg' = IF Word[2] = "csv" THEN cfg ELSE Assign(Word[2], v)
              /\ csv' = IF Word[2] = "csv" THEN v ELSE csv
              /\ i' = i + 2
              /\ stage' = stage
     ELSE stage' = "crashed" /\ UNCHANGED <<cfg, csv, i>>
  /\ UNCHANGED <<document, found, pending, argv>>

\* --no-encode, --no-decode, --check, --no-check
TakeSwitch ==
  /\ Parsing /\ Word[1] = "switch"
  /\ cfg' = Assign(Word[2], Word[3])
  /\ i' = i + 1
  /\ UNCHANGED <<document, found, pending, argv, csv, stage>>

\* No branch of the chain matches: an option without value, or any other word.
\* --force is such a word: it sets a variable nothing reads.
IgnoreWord ==
  /\ Parsing
  /\ Word[1] \notin {"option", "switch", "help"} \/ (Word[1] = "option" /\ ~HasValue)
  /\ i' = i + 1
  /\ UNCHANGED <<scanVars, argv, csv, stage>>

TakeHelp ==
  /\ Parsing /\ Word = Help
  /\ stage' = "usage0"
  /\ UNCHANGED <<scanVars, argv, i, csv>>

AllRead ==
  /\ stage = "parse" /\ pending = <<>> /\ i > Len(argv)
  /\ stage' = "run"
  /\ UNCHANGED <<scanVars, argv, i, csv>>

Chosen == stage \notin {"main", "parse"} /\ UNCHANGED vars

Next ==
  \/ Dispatch \/ Load \/ TakeOption \/ TakeSwitch \/ IgnoreWord \/ TakeHelp \/ AllRead \/ Chosen

Spec == Init /\ [][Next]_vars

-----------------------------------------------------------------------------
\* What the word at a place of argv stands as: the word after an option is its
\* value, unless that option is itself a value.
Role ==
  LET role[p \in 0 .. Len(argv)] ==
        IF p > 2 /\ argv[p - 1][1] = "option" /\ role[p - 1] = "word" THEN "value" ELSE "word"
  IN  role
Heads == {p \in 2 .. Len(argv) : Role[p] = "word"}

\* The places that set field k, what a place sets it to, and the last one's value.
Places(k) ==
  {p \in Heads : argv[p][1] \in {"switch", "option"} /\ argv[p][2] = k
                 /\ (argv[p][1] = "option" => p < Len(argv))}
SetTo(k, p) == IF argv[p][1] = "switch" THEN argv[p][3] ELSE Value(k, argv[p + 1])
LastSet(k)  == SetTo(k, CHOOSE p \in Places(k) : \A q \in Places(k) : q <= p)

\* A run has each field from the last option or switch for it, and no value is
\* ever taken for an option.  Without one it has, in whatever order the keys of a
\* plain redcli.json stand and whatever its comments say, what its author means;
\* for a key that is not there load_config's fallback, which is not the default.
\* The defaults are for a run without redcli.json.
RunUsesStrongestSource ==
  stage = "run" =>
    /\ csv = IF Places("csv") = {} THEN "" ELSE LastSet("csv")
    /\ \A k \in Key :
         IF Places(k) # {} THEN cfg[k] = LastSet(k)
         ELSE IF ~found THEN cfg[k] = StructDefault[k]
         ELSE Plain(document) =>
                cfg[k] = IF Holds(document, k) THEN Meant(document, k) ELSE Unsaid(k)

\* The project's word on comments: they "are for humans; the minimal parser accepts
\* them" (rle4k_config.h:212), so a run has what it has without them.
CommentsSayNothing ==
  stage = "run" /\ found =>
    \A k \in Key : Places(k) = {} =>
      cfg[k] = Assigned(Text(Uncommented(document)), k, StructDefault[k])

\* `redcli init` followed by `redcli run` runs on what `redcli run` without a
\* redcli.json runs on: the three places that hold the defaults agree.
\* (output_path differs; nothing reads it.)
BuiltinIsDefault ==
  stage = "run" /\ found /\ document = BuiltinDocument /\ argv = <<Other("run")>> =>
    /\ \A k \in Key \ {"formats", "output_path"} : cfg[k] = StructDefault[k]
    /\ FormatsRun(cfg["formats"]) = FormatsRun(StructDefault["formats"])

\* An option's value that std::stoi or std::stod does not read.
Unreadable(p) ==
  p < Len(argv) /\ argv[p][1] = "option" /\ ~Readable(argv[p][2], argv[p + 1])

\* The process dies on a command line over a value that is not what its option
\* wants and over nothing else: an option at the end, words it does not know and
\* everything after a help request are harmless.  And no run begins over one.
OnlyBadValuesCrash ==
  /\ stage = "crashed" => \E p \in Heads : Unreadable(p) /\ \A q \in Heads : q < p => argv[q] # Help
  /\ stage = "run" => \A p \in Heads : ~Unreadable(p)
=============================================================================
