----------------------------- MODULE RawOptions -----------------------------
(***************************************************************************)
(* The command line of jetcam-raw-test: parse_options with the functions   *)
(* it converts values with, the check after its loop, and set_frame_rate,  *)
(* which turns the accepted rate into the fraction the driver is asked     *)
(* for.  A value is a string that is only compared; Numeral says what      *)
(* strtoull and strtod find in one that begins with a number.  The widths  *)
(* of the integer types are constants: TLC uses narrow ones.               *)
(***************************************************************************)
EXTENDS Integers, Sequences, FiniteSetsExt

CONSTANTS
    IntMax, U32Max, I64Max, U64Max,   \* the largest values of the types
    Numeral,    \* function from texts to the number they begin with
    Texts,      \* for each option, strings that may follow it
    Fourccs,    \* those of four characters
    MaxOptions  \* bound: options of a command line

Unit == 10000   \* a double counts ten-thousandths
Scale == 1000   \* set_frame_rate's scale

(* blank: white space in front; minus: a minus sign; then whole and part   *)
(* (in ten-thousandths), integer: digits only; tail: more text behind.     *)
Numerals == [blank : BOOLEAN, minus : BOOLEAN, whole : Nat, part : 0 .. Unit - 1,
             integer : BOOLEAN, tail : BOOLEAN]

Default ==
    [device |-> "/dev/video0", width |-> 1280, height |-> 720,
     pixelFormat |-> "RG10", fps |-> 60 * Unit, frames |-> 120, duration |-> 0,
     timeoutMs |-> 2500, buffers |-> 4, sensorMode |-> 4, saveFrame |-> "",
     saveAt |-> 1, reportInterval |-> 1 * Unit]
NoMode == -1    \* --sensor-mode none

Flags == {"list", "allowDrops"}
ASSUME RawOptionsAssumption ==
    /\ {IntMax, U32Max, I64Max, U64Max} \subseteq Nat
    /\ Default.timeoutMs <= IntMax   \* an int has at least 16 bits
    /\ IntMax < U32Max /\ U32Max < I64Max /\ I64Max < U64Max
    /\ Default.pixelFormat \in Fourccs
    /\ \A text \in DOMAIN Numeral :
          /\ Numeral[text] \in Numerals
          /\ Numeral[text].integer => Numeral[text].part = 0
    /\ Texts \in [DOMAIN Default -> SUBSET STRING]
    /\ MaxOptions \in Nat

-----------------------------------------------------------------------------
(* Values: the set holds what the text stands for; empty, it is rejected. *)

\* parse_unsigned.  Only a '-' at the very front is refused; strtoull skips
\* blanks and takes a '-' behind them as "modulo 2^64".
Unsigned(text) ==
    IF text \notin DOMAIN Numeral THEN {}
    ELSE LET t == Numeral[text]
         IN  IF (t.minus /\ ~t.blank) \/ ~t.integer \/ t.tail \/ t.whole > U64Max THEN {}
             ELSE {IF t.minus THEN (U64Max + 1 - t.whole) % (U64Max + 1) ELSE t.whole}

\* parse_positive_double
PositiveDouble(text, allowZero) ==
    IF text \notin DOMAIN Numeral THEN {}
    ELSE LET t == Numeral[text]
             value == (IF t.minus THEN -1 ELSE 1) * (t.whole * Unit + t.part)
         IN  IF t.tail \/ value < 0 \/ (value = 0 /\ ~allowZero) THEN {} ELSE {value}

\* mistake: zero is not asked for
WithinZero(text, low, high) == Unsigned(text) \cap 0 .. high

Within(text, low, high) == Unsigned(text) \cap low .. high

Meaning(option, text) ==
    CASE option \in {"device", "saveFrame"} -> {text}
      [] option \in {"width", "height"} -> Within(text, 1, U32Max)
      [] option = "pixelFormat" -> {text} \cap Fourccs
      [] option \in {"fps", "reportInterval"} -> PositiveDouble(text, FALSE)
      [] option = "duration" -> PositiveDouble(text, TRUE)
      [] option = "frames" -> Unsigned(text)
      [] option = "timeoutMs" -> Within(text, 1, IntMax)
      [] option = "buffers" -> Within(text, 2, 32)
      [] option = "sensorMode" ->
            IF text = "none" THEN {NoMode} ELSE Within(text, 0, I64Max)
      [] option = "saveAt" -> Within(text, 1, U64Max)
-----------------------------------------------------------------------------
VARIABLES
    options,   \* parse_options' options
    given,     \* save_path has a value, --list and --allow-drops are set
    argv,      \* the options read so far, with their values
    outcome    \* "none"; "usage" (exit 2), "help" (exit 0), or "run"

vars == <<options, given, argv, outcome>>

Init == options = Default /\ given = {} /\ argv = <<>> /\ outcome = "none"

Reading == outcome = "none" /\ Len(argv) < MaxOptions

\* mistake: a branch copied from the one above it
TakeCopied(option, text) ==
    /\ \E value \in Meaning(option, text) :
          options' = [options EXCEPT ![IF option = "height" THEN "width" ELSE option] = value]
    /\ given' = given \cup ({option} \cap {"saveFrame"})
    /\ UNCHANGED outcome

Take(option, text) ==
    /\ \E value \in Meaning(option, text) : options' = [options EXCEPT ![option] = value]
    /\ given' = given \cup ({option} \cap {"saveFrame"})
    /\ UNCHANGED outcome

Refuse == outcome' = "usage" /\ UNCHANGED <<options, given>>

\* mistake: the limit is compared as soon as --save-at is read
ValuedOptionEarly ==
    /\ Reading
    /\ \E option \in DOMAIN Default : \E text \in Texts[option] :
          /\ argv' = Append(argv, <<option, text>>)
          /\ IF \/ Meaning(option, text) = {}
                \/ /\ option = "saveAt" /\ options.frames # 0
                   /\ \E n \in Meaning(option, text) : n > options.frames
               THEN Refuse ELSE Take(option, text)

\* an option with a value
ValuedOption ==
    /\ Reading
    /\ \E option \in DOMAIN Default : \E text \in Texts[option] :
          /\ argv' = Append(argv, <<option, text>>)
          /\ IF Meaning(option, text) = {} THEN Refuse ELSE Take(option, text)

Flag ==
    /\ Reading
    /\ \E flag \in Flags : given' = given \cup {flag} /\ argv' = Append(argv, <<flag, "">>)
    /\ UNCHANGED <<options, outcome>>

\* what follows --help or -h is not looked at; the device is never opened
Help ==
    /\ Reading
    /\ outcome' = "help"
    /\ UNCHANGED <<options, given, argv>>

\* next_value finds no value, or the option is unknown
WrongOption ==
    /\ Reading
    /\ argv' = Append(argv, <<"?", "">>)
    /\ Refuse

\* the end of the command line
Finish ==
    /\ outcome = "none"
    /\ outcome' = IF /\ "saveFrame" \in given /\ options.frames # 0
                     /\ options.saveAt > options.frames
                    THEN "usage" ELSE "run"
    /\ UNCHANGED <<options, given, argv>>

Ended == outcome # "none" /\ UNCHANGED vars

Next == ValuedOption \/ Flag \/ Help \/ WrongOption \/ Finish \/ Ended

Spec == Init /\ [][Next]_vars
-----------------------------------------------------------------------------
(* set_frame_rate: an invalid_argument, or the fraction of VIDIOC_S_PARM. *)

\* llround(fps * scale)
Denominator(fps) == (fps * Scale + Unit \div 2) \div Unit

\* mistake: only one of the two is divided
FrameIntervalUnreduced(fps) ==
    IF fps > (U32Max * Unit) \div Scale THEN {}
    ELSE LET d == Denominator(fps)
             divisor == Max({k \in 1 .. Scale : Scale % k = 0 /\ d % k = 0})
         IN  {<<Scale, d \div divisor>>}

FrameInterval(fps) ==
    IF fps > (U32Max * Unit) \div Scale THEN {}
    ELSE LET d == Denominator(fps)
             divisor == Max({k \in 1 .. Scale : Scale % k = 0 /\ d % k = 0})
         IN  {<<Scale \div divisor, d \div divisor>>}
-----------------------------------------------------------------------------
\* Every variable ranges over its type, and every option over its C++ type's
\* values that the program may use.
OptionsInRange ==
    /\ options.width \in 1 .. U32Max /\ options.height \in 1 .. U32Max
    /\ options.timeoutMs \in 1 .. IntMax /\ options.buffers \in 2 .. 32
    /\ options.frames \in 0 .. U64Max /\ options.saveAt \in 1 .. U64Max
    /\ options.sensorMode \in 0 .. I64Max \cup {NoMode}
    /\ options.pixelFormat \in Fourccs
    /\ options.fps > 0 /\ options.reportInterval > 0 /\ options.duration >= 0
    /\ given \subseteq Flags \cup {"saveFrame"}
    /\ outcome \in {"none", "usage", "help", "run"}

Given(option) == {i \in 1 .. Len(argv) : argv[i][1] = option}

\* The capture runs with the last value of each option, and with the default
\* of one that was not given.
LastWins ==
    outcome = "run" =>
        \A option \in DOMAIN Default :
            options[option] \in IF Given(option) = {} THEN {Default[option]}
                                ELSE Meaning(option, argv[Max(Given(option))][2])

\* The frame to save lies beyond the frame limit, if there is one.
NeverSaved == "saveFrame" \in given /\ options.frames \in 1 .. options.saveAt - 1

\* A command line is refused for the argument that was read last, or, when all
\* of it has been read, for a frame to save beyond the limit, in whatever order
\* the two were given; never for a value that a later option may still replace.
\* What is left is what run_capture relies on (RawCapture's ValidOptions).
RefusedForCause ==
    /\ outcome = "run" => ~NeverSaved
    /\ outcome = "usage" =>
          \/ NeverSaved
          \/ LET last == argv[Len(argv)]
             IN  last[1] \notin DOMAIN Default \/ Meaning(last[1], last[2]) = {}

\* The rate the driver is asked for is the requested one, rounded to a
\* thousandth, as a fraction in lowest terms whose parts fit in 32 bits; it
\* becomes 0, an interval of 1/0, only below half a thousandth.
RateIsRequested ==
    outcome = "run" =>
        \A interval \in FrameInterval(options.fps) :
            LET n == interval[1]
                d == interval[2]
            IN  /\ n \in 1 .. U32Max /\ d \in 0 .. U32Max
                /\ \A k \in 2 .. n : n % k = 0 => d % k # 0
                /\ d * Scale = n * Denominator(options.fps)
                /\ d = 0 => 2 * options.fps * Scale < Unit
=============================================================================
