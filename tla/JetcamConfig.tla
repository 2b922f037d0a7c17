---------------------------- MODULE JetcamConfig ----------------------------
(***************************************************************************)
(* The configuration of jetcamd: main's loop over the command line, the    *)
(* configuration files it loads on the way, and the final validation.      *)
(*                                                                         *)
(* A command-line argument and a line of a file are strings that are only  *)
(* compared; Split says where those with a '=' fall apart.  A key or a     *)
(* value is a Text: blanks around it, and a word.  "number" stands for a   *)
(* whole decimal integer n without a '+', "number tail" for one with       *)
(* letters, digits or dots behind it; the other words stand for            *)
(* themselves, in the capitalisation parse_bool and the comparisons see.   *)
(***************************************************************************)
EXTENDS Integers, Sequences, FiniteSetsExt

CONSTANTS
    Split,     \* function from strings with a '=' to their key and value
    Ignored,   \* lines that are blank or start with '#'
    Files,     \* function from the paths that can be opened to the lines
               \* that are read of them: a read error is taken for the end
               \* of the file, so a directory has no lines
    Arguments, \* strings the command line may hold
    MaxArgs    \* bound: arguments of a command line

Text(pad, word, n) == [pad |-> pad, word |-> word, n |-> n]
Word(word) == Text(FALSE, word, 0)
Number(n) == Text(FALSE, "number", n)

Options == {"--config", "--set", "--print-pipeline", "--help"}

ASSUME JetcamConfigAssumption ==
    /\ MaxArgs \in Nat
    /\ \A s \in DOMAIN Split :
          /\ Split[s].key \in [pad : BOOLEAN, word : STRING, n : Int]
          /\ Split[s].value \in [pad : BOOLEAN, word : STRING, n : Int]
    /\ \A path \in DOMAIN Files : Files[path] \in Seq(STRING)
    /\ Options \cap (DOMAIN Split \cup DOMAIN Files) = {}

Default ==
    [sensor_id |-> 0, width |-> 1280, height |-> 720, framerate |-> 60,
     bitrate_kbps |-> 6000, gop |-> 60, host |-> Word("127.0.0.1"), port |-> 5000,
     output |-> "udp", rtsp_port |-> 8554, rtsp_mount |-> Word("/jetcam"),
     snapshot_file |-> Word("jetcam-snapshot.jpg"), snapshot_on_start |-> FALSE]

IntRange ==
    [sensor_id |-> 0 .. 255, width |-> 16 .. 8192, height |-> 16 .. 8192,
     framerate |-> 1 .. 240, bitrate_kbps |-> 100 .. 200000, gop |-> 1 .. 10000,
     port |-> 1 .. 65535, rtsp_port |-> 1 .. 65535]
IntKeys == DOMAIN IntRange
TextKeys == {"host", "rtsp_mount", "snapshot_file"}
Keys == IntKeys \cup TextKeys \cup {"output", "snapshot_on_start"}
-----------------------------------------------------------------------------
(* Values: the set holds what the text stands for; empty, it is rejected. *)

Trim(text) == [text EXCEPT !.pad = FALSE]

ParseInt(key, value) ==
    IF value.word = "number" THEN {value.n} \cap IntRange[key] ELSE {}

ParseBool(value) ==
    {b \in BOOLEAN : value \in IF b THEN {Word("true"), Word("yes"), Number(1)}
                                    ELSE {Word("false"), Word("no"), Number(0)}}

Parsed(key, value) ==
    CASE key \in IntKeys -> ParseInt(key, value)
      [] key \in TextKeys -> {value}
      [] key = "output" -> {value.word} \cap {"udp", "rtsp"}
      [] key = "snapshot_on_start" -> ParseBool(value)
      [] OTHER -> {}

KeyOf(s) == Trim(Split[s].key).word
ValuesOf(s) == IF s \in DOMAIN Split THEN Parsed(KeyOf(s), Trim(Split[s].value)) ELSE {}

\* new is config after the assignment s
ApplyAssignment(config, s, new) ==
    \E value \in ValuesOf(s) : new = [config EXCEPT ![KeyOf(s)] = value]

\* letters, digits and . : - _ only, and at least one of them
SafeToken(text) ==
    text.word \in {"number", "number tail", "udp", "rtsp", "true", "yes", "false", "no",
                   "127.0.0.1", "token"}

Mode(config) == <<config.width, config.height, config.framerate>>
Supported == {<<1280, 720, 60>>, <<1920, 1080, 30>>}

Valid(config) ==
    /\ Mode(config) \in Supported
    /\ SafeToken(config.host)
    /\ config.rtsp_mount.word \in {"/jetcam", "/token"}
    /\ config.snapshot_file.word \notin {"", "two lines"}
-----------------------------------------------------------------------------
VARIABLES
    pc,        \* "argument", "line" of a file, "print", "ended"
    args,      \* the arguments read so far
    config,    \* main's configuration
    file,      \* the file load_config reads
    line,      \* the line it reads next
    loaded,    \* load_config's configuration
    printing,  \* print_pipeline
    outcome    \* "none"; "error" (exit 2), "help" and "printed" (exit 0), or
               \* "started": the service begins

vars == <<pc, args, config, file, line, loaded, printing, outcome>>

Init ==
    /\ pc = "argument" /\ args = <<>>
    /\ config = Default /\ printing = FALSE
    /\ file = "" /\ line = 1 /\ loaded = Default
    /\ outcome = "none"

End(result) ==
    /\ pc' = "ended" /\ outcome' = result
    /\ UNCHANGED <<config, file, line, loaded, printing>>

Stay == UNCHANGED <<file, line, loaded, outcome>>

Room(n) == pc = "argument" /\ Len(args) + n <= MaxArgs

\* mistake: the file's values are laid over what is already configured
ConfigOptionMerges ==
    /\ Room(2)
    /\ \E path \in Arguments :
          /\ args' = args \o <<"--config", path>>
          /\ IF path \in DOMAIN Files
               THEN /\ pc' = "line" /\ file' = path /\ line' = 1 /\ loaded' = config
                    /\ UNCHANGED <<config, printing, outcome>>
               ELSE End("error")

\* --config FILE: load_config begins with a configuration of its own
ConfigOption ==
    /\ Room(2)
    /\ \E path \in Arguments :
          /\ args' = args \o <<"--config", path>>
          /\ IF path \in DOMAIN Files
               THEN /\ pc' = "line" /\ file' = path /\ line' = 1 /\ loaded' = Default
                    /\ UNCHANGED <<config, printing, outcome>>
               ELSE End("error")

\* --set KEY=VALUE
SetOption ==
    /\ Room(2)
    /\ \E s \in Arguments :
          /\ args' = args \o <<"--set", s>>
          /\ IF ValuesOf(s) # {}
               THEN /\ ApplyAssignment(config, s, config')
                    /\ Stay /\ UNCHANGED <<pc, printing>>
               ELSE End("error")

PrintOption ==
    /\ Room(1)
    /\ args' = Append(args, "--print-pipeline")
    /\ printing' = TRUE
    /\ Stay /\ UNCHANGED <<pc, config>>

\* what follows --help is not looked at
HelpOption ==
    /\ Room(1)
    /\ args' = Append(args, "--help")
    /\ End("help")

\* --config or --set as the last argument, or no option at all
WrongArgument ==
    /\ Room(1)
    /\ \E s \in (Arguments \ Options) \cup {"--config", "--set"} : args' = Append(args, s)
    /\ End("error")

\* one line of the file: skipped, an assignment, or neither
ReadLine ==
    /\ pc = "line" /\ line <= Len(Files[file])
    /\ LET s == Files[file][line]
       IN  \/ /\ s \in Ignored
              /\ line' = line + 1
              /\ UNCHANGED <<pc, config, file, loaded, printing, outcome>>
           \/ /\ s \notin Ignored /\ ValuesOf(s) # {}
              /\ ApplyAssignment(loaded, s, loaded')
              /\ line' = line + 1
              /\ UNCHANGED <<pc, config, file, printing, outcome>>
           \/ /\ s \notin Ignored /\ ValuesOf(s) = {}
              /\ End("error")
    /\ UNCHANGED args

\* mistake: only main validates
CloseFileUnchecked ==
    /\ pc = "line" /\ line > Len(Files[file])
    /\ pc' = "argument" /\ config' = loaded
    /\ Stay /\ UNCHANGED <<args, printing>>

\* the file must be valid on its own; it then replaces the configuration
CloseFile ==
    /\ pc = "line" /\ line > Len(Files[file])
    /\ IF Valid(loaded)
         THEN /\ pc' = "argument" /\ config' = loaded
              /\ Stay /\ UNCHANGED printing
         ELSE End("error")
    /\ UNCHANGED args

\* mistake: what load_config has validated is not validated again
ValidateNothing ==
    /\ pc = "argument"
    /\ pc' = "print" /\ Stay /\ UNCHANGED <<args, config, printing>>

\* the end of the command line
Validate ==
    /\ pc = "argument"
    /\ IF Valid(config)
         THEN pc' = "print" /\ Stay /\ UNCHANGED <<config, printing>>
         ELSE End("error")
    /\ UNCHANGED args

\* print_config, and the pipelines' texts if they are asked for
Announce ==
    /\ pc = "print"
    /\ End(IF printing THEN "printed" ELSE "started")
    /\ UNCHANGED args

Step == \/ ConfigOption \/ SetOption \/ PrintOption \/ HelpOption \/ WrongArgument
        \/ ReadLine \/ CloseFile \/ Validate \/ Announce

Finished == pc = "ended" /\ UNCHANGED vars

Next == Step \/ Finished

Spec == Init /\ [][Next]_vars
-----------------------------------------------------------------------------
\* the texts that are defaults or that an assignment brings, without blanks
Texts == {Default[key] : key \in TextKeys} \cup {Trim(Split[s].value) : s \in DOMAIN Split}

Values(key) ==
    CASE key \in IntKeys -> IntRange[key]
      [] key \in TextKeys -> Texts
      [] key = "output" -> {"udp", "rtsp"}
      [] OTHER -> BOOLEAN

IsConfig(c) == DOMAIN c = Keys /\ \A key \in Keys : c[key] \in Values(key)

Accepted == outcome \in {"printed", "started"}

\* Neither is the camera opened nor a pipeline shown for a configuration with
\* a value outside its key's range or one that does not validate, whichever
\* files and options it was put together from (jetcamd-usage.md:124).
AcceptedIsValid == Accepted => IsConfig(config) /\ Valid(config)

\* What a file says on its own: its last line for a key, else the default.
LinesFor(path, key) ==
    {i \in 1 .. Len(Files[path]) :
        Files[path][i] \in DOMAIN Split \ Ignored /\ KeyOf(Files[path][i]) = key}
FileSays(path, key) ==
    IF LinesFor(path, key) = {} THEN {Default[key]}
    ELSE ValuesOf(Files[path][Max(LinesFor(path, key))])

\* What a command line says: the last assignment behind its last file, else
\* that file.
FileOptions == {i \in 1 .. Len(args) - 1 : args[i] = "--config"}
SetOptions(key) ==
    {i \in 1 .. Len(args) - 1 :
        /\ args[i] = "--set" /\ KeyOf(args[i + 1]) = key
        /\ \A j \in FileOptions : j < i}
Says(key) ==
    IF SetOptions(key) # {} THEN ValuesOf(args[Max(SetOptions(key)) + 1])
    ELSE IF FileOptions # {} THEN FileSays(args[Max(FileOptions) + 1], key)
    ELSE {Default[key]}

\* Every key has the value of the last assignment behind the last --config,
\* else that file's last line for it, else the default: a --set in front of a
\* --config is lost (jetcamd-usage.md:145), and nothing of an earlier file or
\* of a rejected one is left.
LastWins == Accepted => \A key \in Keys : config[key] \in Says(key)

\* A file that is a configuration of its own.
Good(path) ==
    /\ \A i \in 1 .. Len(Files[path]) :
          Files[path][i] \in Ignored \/ ValuesOf(Files[path][i]) # {}
    /\ Valid([key \in Keys |-> CHOOSE v \in FileSays(path, key) : TRUE])

\* An accepted command line holds nothing wrong, not even where a later
\* argument makes up for it: each file is complete and valid on its own, and
\* each assignment names a key and a value in its range.
NothingWrongIgnored ==
    Accepted => \A i \in 1 .. Len(args) - 1 :
        /\ args[i] = "--config" => Good(args[i + 1])
        /\ args[i] = "--set" => ValuesOf(args[i + 1]) # {}
=============================================================================
