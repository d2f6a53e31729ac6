------------------------------- MODULE Config -------------------------------
(***************************************************************************)
(* parse_cli of src/src/config.c and the INI loader of                     *)
(* src/src/config_ini.c. The command line is read twice: a first pass looks*)
(* for --help and loads every --config file on the spot, a second one      *)
(* applies the options. The passes step through argv by different rules.   *)
(*                                                                         *)
(* A token of the command line, a key and a value are strings that are     *)
(* compared as a whole; which of them strtol accepts is a parameter. A     *)
(* file is the sequence of its lines after comments and white space have   *)
(* been cut: a section header, an assignment, or a line without meaning.   *)
(* Strings are not truncated to their buffers.                             *)
(***************************************************************************)
EXTENDS Integers, Sequences

CONSTANTS
  CommandLines,  \* the argument lists main may be started with
  Files,         \* the INI files that can be opened, a sequence of lines each
  Numbers,       \* the texts strtol accepts to the end, with their values
  IntMax         \* the largest int; a long is cast to int modulo 2 * (IntMax + 1)

ASSUME ConfigAssumption ==
  /\ \A argv \in CommandLines : Len(argv) \in Nat
  /\ \A path \in DOMAIN Files : Len(Files[path]) \in Nat
  /\ \A text \in DOMAIN Numbers : Numbers[text] \in Int
  /\ IntMax \in Nat /\ IntMax >= 5600

VARIABLES
  parser,   \* where parse_cli is, how it ended, or that main has used its result
  argv,     \* the arguments, without the program's name
  i,        \* the argument looked at
  file,     \* the file cfg_load_file reads
  line,     \* its current line
  section,  \* the section that line is in
  cfg       \* AppCfg

parseVars == <<parser, argv, i, file, line, section, cfg>>

-----------------------------------------------------------------------------
NoFile == ""
Global == ""
Parsed == {"ok", "help", "error", "used"}

cfg_defaults ==
  [card_path |-> "/dev/dri/card0", connector_name |-> "", plane_id |-> 76,
   udp_port |-> 5600, vid_pt |-> 97, appsink_max_buffers |-> 4, gst_log |-> 0,
   record_enable |-> 0, record_path |-> "/media", record_mode |-> "sequential"]

\* The options that take a text and those that take an integer, with the field
\* they set.
TextOptions ==
  [o \in {"--card", "--connector"} |->
     IF o = "--card" THEN "card_path" ELSE "connector_name"]
IntOptions ==
  [o \in {"--plane-id", "--udp-port", "--vid-pt", "--appsink-max-buffers"} |->
     CASE o = "--plane-id" -> "plane_id"
       [] o = "--udp-port" -> "udp_port"
       [] o = "--vid-pt"   -> "vid_pt"
       [] OTHER            -> "appsink_max_buffers"]

Known == {"--config", "--record-video", "--no-record-video", "--record-mode",
          "--gst-log", "--verbose"} \cup DOMAIN TextOptions \cup DOMAIN IntOptions
\* Arguments that begin with two dashes; --other stands for an unknown one.
Dashed == Known \cup {"--help", "--other"}

\* A field and the value a text gives it; Invalid where the text is refused.
Invalid == <<>>
Setting(field, value) == <<field, value>>

\* Mutant: the number is kept as strtol returns it.
Mutant_long_kept(v) == v

\* The cast of strtol's long to int.
ToInt(v) == ((v + IntMax + 1) % (2 * (IntMax + 1))) - (IntMax + 1)
parse_int(field, text) ==
  IF text \in DOMAIN Numbers THEN Setting(field, ToInt(Numbers[text])) ELSE Invalid

parse_bool(field, text) ==
  CASE text \in {"true", "yes", "1"} -> Setting(field, 1)
    [] text \in {"false", "no", "0"} -> Setting(field, 0)
    [] OTHER                         -> Invalid

cfg_parse_record_mode(text) ==
  CASE text \in {"standard", "default"}     -> Setting("record_mode", "standard")
    [] text \in {"sequential", "append"}    -> Setting("record_mode", "sequential")
    [] text \in {"fragmented", "fragment"}  -> Setting("record_mode", "fragmented")
    [] OTHER                                -> Invalid

-----------------------------------------------------------------------------
(* The INI file.                                                           *)

RecordKey(key, text) ==
  CASE key = "enable"                 -> parse_bool("record_enable", text)
    [] key \in {"output_path", "path"} -> Setting("record_path", text)
    [] key = "mode"                   -> cfg_parse_record_mode(text)
    [] OTHER                          -> Invalid

\* A key is <<name>>, or <<"record", name>> for record.name.
handle_global_key(key, text) ==
  IF Len(key) = 2 THEN RecordKey(key[2], text)
  ELSE CASE key[1] = "card_path" -> Setting("card_path", text)
         [] key[1] \in {"connector", "connector_name"} -> Setting("connector_name", text)
         [] key[1] \in {"plane_id", "udp_port", "appsink_max_buffers"}
              -> parse_int(key[1], text)
         [] key[1] \in {"vid_pt", "video_payload_type"} -> parse_int("vid_pt", text)
         [] key[1] = "gst_log" -> parse_bool("gst_log", text)
         [] OTHER -> Invalid

\* [record] has keys of its own; any other section takes the global ones.
handle_section_key(sec, key, text) ==
  IF sec = "record"
  THEN IF Len(key) = 1 THEN RecordKey(key[1], text) ELSE Invalid
  ELSE handle_global_key(key, text)

\* A refused value leaves the field as it was.
Apply(setting) ==
  IF setting = Invalid THEN cfg ELSE [cfg EXCEPT ![setting[1]] = setting[2]]

\* Mutant: the section is forgotten after its first line.
Mutant_section_one_line ==
  /\ parser = "file" /\ line <= Len(Files[file])
  /\ LET l == Files[file][line]
     IN /\ cfg' = IF l.kind = "set"
                  THEN Apply(handle_section_key(section, l.key, l.text)) ELSE cfg
        /\ section' = IF l.kind = "section" THEN l.name ELSE Global
  /\ line' = line + 1
  /\ UNCHANGED <<parser, argv, i, file>>

\* One round of cfg_load_file's loop. A bad value or line is reported and
\* skipped; it never makes the file fail.
load_line ==
  /\ parser = "file" /\ line <= Len(Files[file])
  /\ LET l == Files[file][line]
     IN /\ cfg' = IF l.kind = "set"
                  THEN Apply(handle_section_key(section, l.key, l.text)) ELSE cfg
        /\ section' = IF l.kind = "section" THEN l.name ELSE section
  /\ line' = line + 1
  /\ UNCHANGED <<parser, argv, i, file>>

load_done ==
  /\ parser = "file" /\ line > Len(Files[file])
  /\ parser' = "configs"
  /\ file' = NoFile /\ section' = Global /\ line' = 1
  /\ UNCHANGED <<argv, i, cfg>>

-----------------------------------------------------------------------------
(* The first pass.                                                         *)

NotLoading == UNCHANGED <<file, line, section>>

ParseInit ==
  /\ parser = "configs"
  /\ argv \in CommandLines
  /\ i = 1
  /\ file = NoFile /\ line = 1 /\ section = Global
  /\ cfg = cfg_defaults

find_help ==
  /\ parser = "configs" /\ i <= Len(argv) /\ argv[i] \in {"--help", "-h"}
  /\ parser' = "help"
  /\ UNCHANGED <<argv, i, cfg>> /\ NotLoading

\* cfg_load_file gets no further than fopen for any other path.
cfg_load_file_opens(path) == path \in DOMAIN Files

\* An empty path loads nothing.
maybe_load_config(path) ==
  \/ path = NoFile /\ i' = i + 2 /\ UNCHANGED parser /\ NotLoading
  \/ /\ path # NoFile /\ ~cfg_load_file_opens(path)
     /\ parser' = "error" /\ UNCHANGED i /\ NotLoading
  \/ /\ path # NoFile /\ cfg_load_file_opens(path)
     /\ parser' = "file" /\ file' = path /\ line' = 1 /\ section' = Global
     /\ i' = i + 2

\* --config in the first pass.
find_config ==
  /\ parser = "configs" /\ i <= Len(argv) /\ argv[i] = "--config"
  /\ \/ i = Len(argv) /\ parser' = "error" /\ UNCHANGED i /\ NotLoading
     \/ i < Len(argv) /\ maybe_load_config(argv[i + 1])
  /\ UNCHANGED <<argv, cfg>>

\* Every other argument is passed over, whether it is an option or a value.
pass_over ==
  /\ parser = "configs" /\ i <= Len(argv)
  /\ argv[i] \notin {"--help", "-h", "--config"}
  /\ i' = i + 1
  /\ UNCHANGED <<parser, argv, cfg>> /\ NotLoading

first_pass_done ==
  /\ parser = "configs" /\ i > Len(argv)
  /\ parser' = "options" /\ i' = 1
  /\ UNCHANGED <<argv, cfg>> /\ NotLoading

-----------------------------------------------------------------------------
(* The second pass.                                                        *)

AtOption(options) == parser = "options" /\ i <= Len(argv) /\ argv[i] \in options
Take(n) == i' = i + n /\ UNCHANGED <<parser, argv>> /\ NotLoading
Fail == parser' = "error" /\ UNCHANGED <<argv, i, cfg>> /\ NotLoading

skip_config == AtOption({"--config"}) /\ Take(2) /\ UNCHANGED cfg

\* An option whose value is the next argument, whatever that looks like.
Valued(setting(_)) ==
  IF i = Len(argv) THEN Fail
  ELSE LET s == setting(argv[i + 1])
       IN IF s = Invalid THEN Fail ELSE cfg' = Apply(s) /\ Take(2)

text_option ==
  /\ AtOption(DOMAIN TextOptions)
  /\ Valued(LAMBDA text : Setting(TextOptions[argv[i]], text))

int_option ==
  /\ AtOption(DOMAIN IntOptions)
  /\ Valued(LAMBDA text : parse_int(IntOptions[argv[i]], text))

record_mode_option ==
  AtOption({"--record-mode"}) /\ Valued(cfg_parse_record_mode)

\* --record-video takes the next argument as its path unless that begins with
\* two dashes.
record_video_option ==
  /\ AtOption({"--record-video"})
  /\ IF i < Len(argv) /\ argv[i + 1] \notin Dashed
     THEN /\ cfg' = [cfg EXCEPT !.record_enable = 1, !.record_path = argv[i + 1]]
          /\ Take(2)
     ELSE cfg' = [cfg EXCEPT !.record_enable = 1] /\ Take(1)

no_record_option ==
  AtOption({"--no-record-video"}) /\ cfg' = [cfg EXCEPT !.record_enable = 0] /\ Take(1)

\* --gst-log, and --verbose, which sets nothing in cfg.
flag_option ==
  /\ AtOption({"--gst-log", "--verbose"})
  /\ cfg' = IF argv[i] = "--gst-log" THEN [cfg EXCEPT !.gst_log = 1] ELSE cfg
  /\ Take(1)

unknown_option ==
  /\ parser = "options" /\ i <= Len(argv) /\ argv[i] \notin Known
  /\ Fail

second_pass_done ==
  /\ parser = "options" /\ i > Len(argv)
  /\ parser' = "ok"
  /\ UNCHANGED <<argv, i, cfg>> /\ NotLoading

ParseNext ==
  \/ load_line \/ load_done
  \/ find_help \/ find_config \/ pass_over \/ first_pass_done
  \/ skip_config \/ text_option \/ int_option \/ record_mode_option
  \/ record_video_option \/ no_record_option \/ flag_option \/ unknown_option
  \/ second_pass_done

-----------------------------------------------------------------------------
(* What is asked for, read off the whole command line at once.             *)

\* Where the options are: each takes its own value along, once.
TakesValue(n) ==
  \/ argv[n] \in {"--config", "--record-mode"} \cup DOMAIN TextOptions \cup DOMAIN IntOptions
  \/ argv[n] = "--record-video" /\ n < Len(argv) /\ argv[n + 1] \notin Dashed
OptionAt[n \in Nat] ==
  \/ n = 1
  \/ n > 1 /\ OptionAt[n - 1] /\ ~TakesValue(n - 1)
  \/ n > 2 /\ OptionAt[n - 2] /\ TakesValue(n - 2)
Options == {n \in 1..Len(argv) : OptionAt[n]}

\* No value is spelled like an option.
Unambiguous ==
  \A n \in Options :
    TakesValue(n) /\ n < Len(argv) => argv[n + 1] \notin Dashed \cup {"-h"}

\* What the option at position n gives field k.
CliValue(n, k) ==
  CASE argv[n] \in DOMAIN TextOptions /\ k = TextOptions[argv[n]] -> {argv[n + 1]}
    [] argv[n] \in DOMAIN IntOptions /\ k = IntOptions[argv[n]] ->
         {parse_int(k, argv[n + 1])[2]}
    [] argv[n] = "--record-mode" /\ k = "record_mode" ->
         {cfg_parse_record_mode(argv[n + 1])[2]}
    [] argv[n] = "--record-video" /\ k = "record_path" /\ TakesValue(n) -> {argv[n + 1]}
    [] argv[n] = "--record-video" /\ k = "record_enable" -> {1}
    [] argv[n] = "--no-record-video" /\ k = "record_enable" -> {0}
    [] argv[n] = "--gst-log" /\ k = "gst_log" -> {1}
    [] OTHER -> {}

\* What line m of the file after the --config at position n gives field k: its
\* section is the one named last before it.
IniValue(n, m, k) ==
  LET lines   == Files[argv[n + 1]]
      headers == {h \in 1..m : lines[h].kind = "section"}
      sec     == IF headers = {} THEN Global
                 ELSE lines[CHOOSE h \in headers : \A g \in headers : g <= h].name
      s       == handle_section_key(sec, lines[m].key, lines[m].text)
  IN IF lines[m].kind = "set" /\ s # Invalid /\ s[1] = k THEN {s[2]} ELSE {}

Last(S, before(_, _)) == CHOOSE x \in S : \A y \in S : x = y \/ before(y, x)

CliSettings(k) == {n \in Options : CliValue(n, k) # {}}
\* The --config at position n names a file that is read.
LoadsFile(n) ==
  argv[n] = "--config" /\ n < Len(argv) /\ argv[n + 1] \in DOMAIN Files \ {NoFile}
IniSettings(k) ==
  {p \in UNION {{n} \X (1..Len(Files[argv[n + 1]])) :
                n \in {n \in Options : LoadsFile(n)}} :
     IniValue(p[1], p[2], k) # {}}

\* What the settings S of field k give it: the last of them, failing that the
\* default. A line of a file comes before another when its --config does, or
\* the line itself.
Before(n, o) == n < o
LineBefore(p, q) == p[1] < q[1] \/ (p[1] = q[1] /\ p[2] < q[2])
FromFiles(S, k) ==
  IF S = {} THEN {cfg_defaults[k]}
  ELSE LET p == Last(S, LineBefore) IN IniValue(p[1], p[2], k)
FromOptions(S, k) ==
  IF S = {} THEN FromFiles(IniSettings(k), k) ELSE CliValue(Last(S, Before), k)

Wanted(k) == FromOptions(CliSettings(k), k)

\* README.md:43 "CLI options always win when both sources define the same key":
\* wherever the --config options stand, each field ends as the last option for
\* it says; failing that, as the last valid line for it in the files, in the
\* order they are named; failing that, as cfg_defaults says.
CliWins ==
  parser = "ok" /\ Unambiguous => \A k \in DOMAIN cfg : Wanted(k) = {cfg[k]}

ParseTypeOK ==
  /\ parser \in {"configs", "file", "options"} \cup Parsed
  /\ Len(argv) \in Nat /\ i \in Nat \ {0} /\ line \in Nat \ {0}
  /\ file \in DOMAIN Files \cup {NoFile}
  /\ DOMAIN cfg = DOMAIN cfg_defaults
  /\ \A k \in {IntOptions[o] : o \in DOMAIN IntOptions} :
       cfg[k] \in -(IntMax + 1)..IntMax
  /\ cfg.record_enable \in {0, 1} /\ cfg.gst_log \in {0, 1}
  /\ cfg.record_mode \in {"standard", "sequential", "fragmented"}

-----------------------------------------------------------------------------
(* The inductive invariant of the proofs.                                  *)

\* A value, not one of --config's, that the first pass stops at like at an
\* option.
ValueAt(n) ==
  n > 1 /\ OptionAt[n - 1] /\ TakesValue(n - 1) /\ argv[n - 1] # "--config"

\* The section that line n of a file is in.
SectionAt(lines, n) ==
  LET headers == {h \in 1..(n - 1) : lines[h].kind = "section"}
  IN IF headers = {} THEN Global
     ELSE lines[CHOOSE h \in headers : \A g \in headers : g <= h].name

\* The two passes stop at every option, and only the first one elsewhere.
PositionInv ==
  /\ parser = "configs" => OptionAt[i] \/ ValueAt(i)
  /\ parser = "file" =>
       /\ i > 2 /\ OptionAt[i - 2] /\ argv[i - 2] = "--config" /\ i - 1 <= Len(argv)
       /\ file = argv[i - 1] /\ file # NoFile /\ file \in DOMAIN Files
       /\ section = SectionAt(Files[file], line)
  /\ parser = "options" => OptionAt[i]

\* cfg is what the part of the input read so far asks for.
ReadFiles(k, q) == {p \in IniSettings(k) : LineBefore(p, q)}
ReadOptions(k) == {n \in Options : n < i /\ CliValue(n, k) # {}}
ValuesInv ==
  \A k \in DOMAIN cfg :
    {cfg[k]} = CASE parser = "configs" -> FromFiles(ReadFiles(k, <<i, 1>>), k)
                 [] parser = "file"    -> FromFiles(ReadFiles(k, <<i - 2, line>>), k)
                 [] parser = "options" -> FromOptions(ReadOptions(k), k)
                 [] parser = "ok"      -> Wanted(k)
                 [] OTHER              -> {cfg[k]}

\* Every number the second pass has taken was one.
NumbersInv ==
  \A n \in Options :
    /\ argv[n] \in DOMAIN IntOptions
    /\ parser = "ok" \/ (parser = "options" /\ n < i)
    => argv[n + 1] \in DOMAIN Numbers

ParseInv ==
  /\ ParseTypeOK
  /\ parser \in {"configs", "file", "options", "ok"} /\ Unambiguous =>
       PositionInv /\ ValuesInv /\ NumbersInv
=============================================================================
