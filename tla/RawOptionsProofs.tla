-------------------------- MODULE RawOptionsProofs --------------------------
(***************************************************************************)
(* Proofs about RawOptions for any texts, command lines of any length and  *)
(* integer types of any width: what parse_options lets through, and the    *)
(* fraction set_frame_rate makes of the rate.                              *)
(***************************************************************************)
EXTENDS RawOptions, WellFoundedInduction, TLAPS

LastOf(S, m) == m \in S /\ \A x \in S : x <= m

Names == DOMAIN Default
TextSet == {""} \cup UNION {Texts[option] : option \in Names}
Words == (Names \cup Flags \cup {"?"}) \X TextSet

(* The options whose value is checked, and the values the checks let       *)
(* through.                                                                *)
Checked == Names \ {"device", "saveFrame"}
Allowed(option) ==
    CASE option \in {"width", "height"} -> 1 .. U32Max
      [] option = "pixelFormat" -> Fourccs
      [] option \in {"fps", "reportInterval"} -> Nat \ {0}
      [] option = "duration" -> Nat
      [] option = "frames" -> 0 .. U64Max
      [] option = "timeoutMs" -> 1 .. IntMax
      [] option = "buffers" -> 2 .. 32
      [] option = "sensorMode" -> 0 .. I64Max \cup {NoMode}
      [] option = "saveAt" -> 1 .. U64Max

GivenIn(q, option) == {i \in 1 .. Len(q) : q[i][1] = option}

(* The value of an option after the arguments q.                           *)
Says(q, option, v) ==
    \/ \E m \in GivenIn(q, option) :
          LastOf(GivenIn(q, option), m) /\ v \in Meaning(option, q[m][2])
    \/ GivenIn(q, option) = {} /\ v = Default[option]

WordInv == argv \in Seq(Words)
OptionsInv ==
    /\ DOMAIN options = Names
    /\ \A option \in Checked : options[option] \in Allowed(option)
OutcomeInv ==
    /\ given \subseteq Flags \cup {"saveFrame"}
    /\ outcome \in {"none", "usage", "help", "run"}
SaysInv ==
    outcome \in {"none", "run"} =>
        \A option \in Names : Says(argv, option, options[option])

IInv == WordInv /\ OptionsInv /\ OutcomeInv /\ SaysInv /\ RefusedForCause
-----------------------------------------------------------------------------
LEMMA MaxIsLast ==
    ASSUME NEW S, NEW m \in S, S \subseteq Int, LastOf(S, m) PROVE Max(S) = m
<1>1. \A y \in S : m >= y
  BY DEF LastOf
<1>2. Max(S) \in S /\ \A y \in S : Max(S) >= y
  BY <1>1, Zenon DEF Max
<1>3. Max(S) >= m /\ Max(S) <= m /\ Max(S) \in Int /\ m \in Int
  BY <1>2 DEF LastOf
<1> QED  BY <1>3

LEMMA AppendIndex ==
    ASSUME NEW S, NEW q \in Seq(S), NEW x \in S
    PROVE  /\ Append(q, x) \in Seq(S)
           /\ Len(q) \in Nat /\ Len(Append(q, x)) = Len(q) + 1
           /\ \A i \in 1 .. Len(q) : Append(q, x)[i] = q[i]
           /\ Append(q, x)[Len(q) + 1] = x
  OBVIOUS

LEMMA NamesAre ==
    Names = {"device", "width", "height", "pixelFormat", "fps", "frames", "duration",
             "timeoutMs", "buffers", "sensorMode", "saveFrame", "saveAt",
             "reportInterval"}
  BY SMT DEF Names, Default

LEMMA MeaningIs ==
    ASSUME NEW t
    PROVE  /\ Meaning("width", t) = Within(t, 1, U32Max)
           /\ Meaning("height", t) = Within(t, 1, U32Max)
           /\ Meaning("pixelFormat", t) = {t} \cap Fourccs
           /\ Meaning("fps", t) = PositiveDouble(t, FALSE)
           /\ Meaning("reportInterval", t) = PositiveDouble(t, FALSE)
           /\ Meaning("duration", t) = PositiveDouble(t, TRUE)
           /\ Meaning("frames", t) = Unsigned(t)
           /\ Meaning("timeoutMs", t) = Within(t, 1, IntMax)
           /\ Meaning("buffers", t) = Within(t, 2, 32)
           /\ Meaning("sensorMode", t) = IF t = "none" THEN {NoMode} ELSE Within(t, 0, I64Max)
           /\ Meaning("saveAt", t) = Within(t, 1, U64Max)
  BY DEF Meaning

LEMMA AllowedIs ==
    /\ Allowed("width") = 1 .. U32Max /\ Allowed("height") = 1 .. U32Max
    /\ Allowed("pixelFormat") = Fourccs
    /\ Allowed("fps") = Nat \ {0} /\ Allowed("reportInterval") = Nat \ {0}
    /\ Allowed("duration") = Nat
    /\ Allowed("frames") = 0 .. U64Max
    /\ Allowed("timeoutMs") = 1 .. IntMax
    /\ Allowed("buffers") = 2 .. 32
    /\ Allowed("sensorMode") = 0 .. I64Max \cup {NoMode}
    /\ Allowed("saveAt") = 1 .. U64Max
  BY DEF Allowed

LEMMA NumeralTyped ==
    ASSUME NEW text \in DOMAIN Numeral
    PROVE  /\ Numeral[text].whole \in Nat /\ Numeral[text].part \in Nat
           /\ Numeral[text].minus \in BOOLEAN
<1>1. Numeral[text] \in Numerals
  BY RawOptionsAssumption, Zenon
<1>2. /\ Numeral[text].whole \in Nat /\ Numeral[text].part \in 0 .. Unit - 1
      /\ Numeral[text].minus \in BOOLEAN
  BY <1>1, SMT DEF Numerals
<1>3. \A p \in 0 .. Unit - 1 : p \in Nat
  BY DEF Unit
<1> QED  BY <1>2, <1>3

(* What the conversions return.                                            *)
LEMMA UnsignedRange == ASSUME NEW text PROVE Unsigned(text) \subseteq 0 .. U64Max
<1> SUFFICES ASSUME NEW v \in Unsigned(text) PROVE v \in 0 .. U64Max
  OBVIOUS
<1> DEFINE n == Numeral[text].whole
           minus == Numeral[text].minus
<1>1. /\ text \in DOMAIN Numeral /\ ~(n > U64Max)
      /\ v = IF minus THEN (U64Max + 1 - n) % (U64Max + 1) ELSE n
  BY Zenon DEF Unsigned
<1>2. n \in Nat /\ U64Max \in Nat
  BY <1>1, NumeralTyped, RawOptionsAssumption
<1> HIDE DEF n, minus
<1>3. (U64Max + 1 - n) % (U64Max + 1) \in 0 .. U64Max
  BY <1>2
<1> QED  BY <1>1, <1>2, <1>3

LEMMA DoubleRange ==
    ASSUME NEW text, NEW allowZero \in BOOLEAN, NEW v \in PositiveDouble(text, allowZero)
    PROVE  v \in Nat /\ (~allowZero => v # 0)
<1> DEFINE n == Numeral[text].whole
           p == Numeral[text].part
           minus == Numeral[text].minus
           sign == IF minus THEN -1 ELSE 1
<1>1. /\ text \in DOMAIN Numeral /\ v = sign * (n * Unit + p)
      /\ ~(v < 0) /\ ~(v = 0 /\ ~allowZero)
  BY Zenon DEF PositiveDouble
<1>2. n \in Nat /\ p \in Nat
  BY <1>1, NumeralTyped
<1> HIDE DEF n, p, minus
<1>3. v \in Int
  BY <1>1, <1>2 DEF Unit
<1> QED  BY <1>1, <1>3

LEMMA WithinRange ==
    ASSUME NEW text, NEW low, NEW high PROVE Within(text, low, high) \subseteq low .. high
  BY Zenon DEF Within

(* No check lets a value through that its option does not allow.           *)
LEMMA MeaningAllowed ==
    ASSUME NEW option \in Checked, NEW text, NEW v \in Meaning(option, text)
    PROVE  v \in Allowed(option)
<1>1. CASE option \in {"width", "height"}
  <2>1. v \in Within(text, 1, U32Max)
    BY <1>1, MeaningIs
  <2>2. v \in 1 .. U32Max
    BY <2>1, WithinRange
  <2> QED  BY <1>1, <2>2, AllowedIs, Zenon
<1>2. CASE option = "pixelFormat"
  <2>1. v \in {text} \cap Fourccs
    BY <1>2, MeaningIs, Zenon
  <2>2. v \in Fourccs
    BY <2>1
  <2> QED  BY <1>2, <2>2, AllowedIs, Zenon
<1>3. CASE option \in {"fps", "reportInterval"}
  <2>1. v \in PositiveDouble(text, FALSE)
    BY <1>3, MeaningIs, Zenon
  <2>2. v \in Nat \ {0}
    BY <2>1, DoubleRange
  <2> QED  BY <1>3, <2>2, AllowedIs, Zenon
<1>4. CASE option = "duration"
  <2>1. v \in PositiveDouble(text, TRUE)
    BY <1>4, MeaningIs, Zenon
  <2>2. v \in Nat
    BY <2>1, DoubleRange
  <2> QED  BY <1>4, <2>2, AllowedIs, Zenon
<1>5. CASE option = "frames"
  <2>1. v \in Unsigned(text)
    BY <1>5, MeaningIs
  <2>2. v \in 0 .. U64Max
    BY <2>1, UnsignedRange
  <2> QED  BY <1>5, <2>2, AllowedIs, Zenon
<1>6. CASE option = "timeoutMs"
  <2>1. v \in Within(text, 1, IntMax)
    BY <1>6, MeaningIs
  <2>2. v \in 1 .. IntMax
    BY <2>1, WithinRange
  <2> QED  BY <1>6, <2>2, AllowedIs, Zenon
<1>7. CASE option = "buffers"
  <2>1. v \in Within(text, 2, 32)
    BY <1>7, MeaningIs
  <2>2. v \in 2 .. 32
    BY <2>1, WithinRange
  <2> QED  BY <1>7, <2>2, AllowedIs, Zenon
<1>8. CASE option = "sensorMode"
  <2>0. v = NoMode \/ v \in Within(text, 0, I64Max)
    BY <1>8, MeaningIs
  <2>1. v \in 0 .. I64Max \cup {NoMode}
    BY <2>0, WithinRange
  <2> QED  BY <1>8, <2>1, AllowedIs, Zenon
<1>9. CASE option = "saveAt"
  <2>1. v \in Within(text, 1, U64Max)
    BY <1>9, MeaningIs
  <2>2. v \in 1 .. U64Max
    BY <2>1, WithinRange
  <2> QED  BY <1>9, <2>2, AllowedIs, Zenon
<1> QED  BY <1>1, <1>2, <1>3, <1>4, <1>5, <1>6, <1>7, <1>8, <1>9, NamesAre DEF Checked
-----------------------------------------------------------------------------
(* One more argument on the command line.                                  *)
LEMMA SaysTaken ==
    ASSUME NEW q \in Seq(Words), NEW x \in Words, NEW v, v \in Meaning(x[1], x[2])
    PROVE  Says(Append(q, x), x[1], v)
<1> DEFINE r == Append(q, x)
           n == Len(q) + 1
<1>1. Len(q) \in Nat /\ Len(r) = n /\ r[n] = x
  BY AppendIndex
<1> HIDE DEF r
<1>2. n \in GivenIn(r, x[1]) /\ LastOf(GivenIn(r, x[1]), n)
  BY <1>1 DEF GivenIn, LastOf
<1> QED  BY <1>1, <1>2, Zenon DEF Says, r

LEMMA SaysKept ==
    ASSUME NEW q \in Seq(Words), NEW x \in Words, NEW option, x[1] # option,
           NEW v, Says(q, option, v)
    PROVE  Says(Append(q, x), option, v)
<1> DEFINE r == Append(q, x)
<1>1. /\ Len(q) \in Nat /\ Len(r) = Len(q) + 1 /\ r[Len(q) + 1] = x
      /\ \A i \in 1 .. Len(q) : r[i] = q[i]
  BY AppendIndex
<1> HIDE DEF r
<1>2. GivenIn(r, option) = GivenIn(q, option)
  BY <1>1 DEF GivenIn
<1>3. \A i \in GivenIn(q, option) : r[i] = q[i]
  BY <1>1 DEF GivenIn
<1> QED  BY <1>2, <1>3, Zenon DEF Says, r

LEMMA Widths ==
    /\ IntMax \in Nat /\ U32Max \in Nat /\ I64Max \in Nat /\ U64Max \in Nat
    /\ 2500 <= IntMax /\ IntMax < U32Max /\ U32Max < I64Max /\ I64Max < U64Max
<1>1. /\ IntMax \in Nat /\ U32Max \in Nat /\ I64Max \in Nat /\ U64Max \in Nat
      /\ Default.timeoutMs <= IntMax /\ IntMax < U32Max /\ U32Max < I64Max
      /\ I64Max < U64Max
  BY RawOptionsAssumption, Zenon
<1>2. Default.timeoutMs = 2500
  BY DEF Default
<1> QED  BY <1>1, <1>2

LEMMA DefaultAllowed == \A option \in Checked : Default[option] \in Allowed(option)
<1>2. /\ Default.width \in 1 .. U32Max /\ Default.height \in 1 .. U32Max
      /\ Default.timeoutMs \in 1 .. IntMax
  BY Widths, SMT DEF Default
<1>3. /\ Default.frames \in 0 .. U64Max /\ Default.saveAt \in 1 .. U64Max
      /\ Default.buffers \in 2 .. 32
      /\ Default.sensorMode \in 0 .. I64Max \cup {NoMode}
  BY Widths, SMT DEF Default
<1>4. /\ Default.fps \in Nat \ {0} /\ Default.reportInterval \in Nat \ {0}
      /\ Default.duration \in Nat
  BY SMT DEF Default, Unit
<1>5. Default.pixelFormat \in Fourccs
  BY RawOptionsAssumption, Zenon
<1>6. /\ Default.width \in Allowed("width") /\ Default.height \in Allowed("height")
      /\ Default.pixelFormat \in Allowed("pixelFormat")
      /\ Default.fps \in Allowed("fps")
      /\ Default.reportInterval \in Allowed("reportInterval")
      /\ Default.duration \in Allowed("duration")
      /\ Default.frames \in Allowed("frames")
      /\ Default.timeoutMs \in Allowed("timeoutMs")
      /\ Default.buffers \in Allowed("buffers")
      /\ Default.sensorMode \in Allowed("sensorMode")
      /\ Default.saveAt \in Allowed("saveAt")
  BY <1>2, <1>3, <1>4, <1>5, AllowedIs, Zenon
<1> QED  BY <1>6, NamesAre DEF Checked

(* What the invariant says of the options the program relies on.           *)
LEMMA OptionsTyped ==
    ASSUME OptionsInv
    PROVE  /\ options.width \in 1 .. U32Max /\ options.height \in 1 .. U32Max
           /\ options.pixelFormat \in Fourccs
           /\ options.fps \in Nat \ {0} /\ options.reportInterval \in Nat \ {0}
           /\ options.duration \in Nat
           /\ options.frames \in 0 .. U64Max
           /\ options.timeoutMs \in 1 .. IntMax
           /\ options.buffers \in 2 .. 32
           /\ options.sensorMode \in 0 .. I64Max \cup {NoMode}
           /\ options.saveAt \in 1 .. U64Max
<1>1. {"width", "height", "pixelFormat", "fps", "reportInterval", "duration", "frames",
       "timeoutMs", "buffers", "sensorMode", "saveAt"} \subseteq Checked
  BY NamesAre DEF Checked
<1> QED  BY <1>1, AllowedIs, Zenon DEF OptionsInv

LEMMA InitIInv == Init => IInv
<1> SUFFICES ASSUME Init PROVE IInv
  OBVIOUS
<1>1. WordInv
  BY DEF Init, WordInv
<1>2. OptionsInv
  BY DefaultAllowed, Zenon DEF Init, OptionsInv, Names
<1>3. OutcomeInv
  BY DEF Init, OutcomeInv
<1>4. SaysInv
  <2>1. \A option : GivenIn(<<>>, option) = {}
    BY DEF GivenIn
  <2> QED  BY <2>1, Zenon DEF Init, SaysInv, Says
<1>5. RefusedForCause
  BY DEF Init, RefusedForCause
<1> QED  BY <1>1, <1>2, <1>3, <1>4, <1>5 DEF IInv

(* Only an argument that is read changes argv, and only one that is taken  *)
(* changes an option.                                                      *)
LEMMA ValuedStep ==
    ASSUME IInv, ValuedOption PROVE IInv'
<1>0. PICK option \in Names : \E text \in Texts[option] :
         /\ argv' = Append(argv, <<option, text>>)
         /\ IF Meaning(option, text) = {} THEN Refuse ELSE Take(option, text)
  BY Zenon DEF ValuedOption, Names
<1>1. PICK text \in Texts[option] :
         /\ argv' = Append(argv, <<option, text>>)
         /\ IF Meaning(option, text) = {} THEN Refuse ELSE Take(option, text)
  BY <1>0
<1> DEFINE x == <<option, text>>
<1>2. outcome = "none" /\ argv \in Seq(Words) /\ x \in Words
  <2>1. text \in TextSet
    BY <1>1 DEF TextSet
  <2> QED  BY <1>1, <2>1 DEF ValuedOption, Reading, IInv, WordInv, Words
<1>3. x[1] = option /\ x[2] = text
  OBVIOUS
<1> HIDE DEF x
<1>4. /\ argv' \in Seq(Words) /\ Len(argv') = Len(argv) + 1 /\ Len(argv) \in Nat
      /\ argv'[Len(argv')] = x
  BY <1>1, <1>2, AppendIndex DEF x
<1>5. CASE Meaning(option, text) = {}
  <2>1. outcome' = "usage" /\ UNCHANGED <<options, given>>
    BY <1>1, <1>5, Zenon DEF Refuse
  <2>2. OptionsInv' /\ OutcomeInv'
    BY <2>1 DEF IInv, OptionsInv, OutcomeInv
  <2>3. SaysInv'
    BY <2>1 DEF SaysInv
  <2>4. RefusedForCause'
    BY <1>3, <1>4, <1>5, <2>1 DEF RefusedForCause
  <2> QED  BY <1>4, <2>2, <2>3, <2>4 DEF IInv, WordInv
<1>6. CASE Meaning(option, text) # {}
  <2>1. Take(option, text)
    BY <1>1, <1>6, Zenon
  <2>2. PICK v \in Meaning(option, text) : options' = [options EXCEPT ![option] = v]
    BY <2>1 DEF Take
  <2>3. outcome' = outcome /\ given' = given \cup ({option} \cap {"saveFrame"})
    BY <2>1 DEF Take
  <2>4. /\ DOMAIN options = Names /\ DOMAIN options' = Names
        /\ options'[option] = v
        /\ \A other \in Names : other # option => options'[other] = options[other]
    BY <2>2 DEF IInv, OptionsInv
  <2>5. OptionsInv'
    <3> SUFFICES ASSUME NEW other \in Checked PROVE options'[other] \in Allowed(other)
      BY <2>4 DEF OptionsInv
    <3>1. CASE other = option
      BY <2>2, <2>4, <3>1, MeaningAllowed
    <3>2. CASE other # option
      BY <2>4, <3>2 DEF IInv, OptionsInv, Checked
    <3> QED  BY <3>1, <3>2
  <2>6. OutcomeInv'
    BY <2>3 DEF IInv, OutcomeInv
  <2>7. SaysInv'
    <3> SUFFICES ASSUME NEW other \in Names PROVE Says(argv', other, options'[other])
      BY DEF SaysInv
    <3>1. CASE other = option
      BY <1>1, <1>2, <1>3, <2>2, <2>4, <3>1, SaysTaken DEF x
    <3>2. CASE other # option
      <4>1. Says(argv, other, options[other])
        BY <1>2 DEF IInv, SaysInv
      <4>2. Says(Append(argv, x), other, options[other])
        BY <1>2, <1>3, <3>2, <4>1, SaysKept
      <4> QED  BY <1>1, <2>4, <3>2, <4>2 DEF x
    <3> QED  BY <3>1, <3>2
  <2>8. RefusedForCause'
    BY <1>2, <2>3 DEF RefusedForCause
  <2> QED  BY <1>4, <2>5, <2>6, <2>7, <2>8 DEF IInv, WordInv
<1> QED  BY <1>5, <1>6

(* A flag, or a word that is none of the options.                          *)
LEMMA OtherWord ==
    ASSUME IInv, outcome = "none", NEW name \in Flags \cup {"?"},
           argv' = Append(argv, <<name, "">>), options' = options
    PROVE  /\ WordInv' /\ OptionsInv' /\ SaysInv'
           /\ argv'[Len(argv')][1] = name
           /\ name \notin Names
<1> DEFINE x == <<name, "">>
<1>1. name \notin Names
  BY NamesAre DEF Flags
<1>2. x \in Words /\ x[1] = name
  <2>1. "" \in TextSet
    BY DEF TextSet
  <2> QED  BY <2>1 DEF Words
<1> HIDE DEF x
<1>3. argv \in Seq(Words) /\ argv' = Append(argv, x)
  BY DEF IInv, WordInv, x
<1>4. WordInv' /\ argv'[Len(argv')][1] = name
  <2> DEFINE q == Append(argv, x)
  <2>1. q \in Seq(Words) /\ Len(q) = Len(argv) + 1 /\ q[Len(argv) + 1] = x
    BY <1>2, <1>3, AppendIndex, ZenonT(30)
  <2>2. q[Len(q)] = x
    BY <2>1, Zenon
  <2>3. argv' = q
    BY <1>3
  <2> HIDE DEF q
  <2> QED  BY <1>2, <2>1, <2>2, <2>3, Zenon DEF WordInv
<1>5. OptionsInv'
  BY DEF IInv, OptionsInv
<1>6. SaysInv'
  <2>1. \A option \in Names : Says(argv, option, options[option])
    BY DEF IInv, SaysInv
  <2>2. \A option \in Names : Says(Append(argv, x), option, options[option])
    BY <1>1, <1>2, <1>3, <2>1, SaysKept
  <2> QED  BY <1>3, <2>2, Zenon DEF SaysInv
<1> QED  BY <1>1, <1>4, <1>5, <1>6

LEMMA StepIInv == IInv /\ [Next]_vars => IInv'
<1> SUFFICES ASSUME IInv, [Next]_vars PROVE IInv'
  OBVIOUS
<1>1. CASE ValuedOption
  BY <1>1, ValuedStep
<1>2. CASE Flag
  <2>1. PICK flag \in Flags : given' = given \cup {flag} /\ argv' = Append(argv, <<flag, "">>)
    BY <1>2 DEF Flag
  <2>2. outcome = "none" /\ outcome' = "none" /\ options' = options
    BY <1>2 DEF Flag, Reading
  <2>3. WordInv' /\ OptionsInv' /\ SaysInv'
    BY <2>1, <2>2, OtherWord
  <2>4. OutcomeInv' /\ RefusedForCause'
    BY <2>1, <2>2 DEF IInv, OutcomeInv, RefusedForCause
  <2> QED  BY <2>3, <2>4 DEF IInv
<1>3. CASE Help
  <2>1. outcome' = "help" /\ UNCHANGED <<options, given, argv>>
    BY <1>3 DEF Help
  <2> QED  BY <2>1 DEF IInv, WordInv, OptionsInv, OutcomeInv, SaysInv, RefusedForCause
<1>4. CASE WrongOption
  <2>1. /\ argv' = Append(argv, <<"?", "">>) /\ outcome = "none" /\ outcome' = "usage"
        /\ UNCHANGED <<options, given>>
    BY <1>4 DEF WrongOption, Reading, Refuse
  <2>2. /\ WordInv' /\ OptionsInv' /\ SaysInv' /\ argv'[Len(argv')][1] \notin Names
    BY <2>1, OtherWord
  <2>3. OutcomeInv' /\ RefusedForCause'
    BY <2>1, <2>2 DEF IInv, OutcomeInv, RefusedForCause, Names
  <2> QED  BY <2>2, <2>3 DEF IInv
<1>5. CASE Finish
  <2>1. outcome = "none" /\ UNCHANGED <<options, given, argv>>
    BY <1>5 DEF Finish
  <2>2. WordInv' /\ OptionsInv' /\ SaysInv'
    BY <2>1 DEF IInv, WordInv, OptionsInv, SaysInv
  <2>3. outcome' = IF NeverSaved THEN "usage" ELSE "run"
    <3> DEFINE f == options.frames
               s == options.saveAt
    <3>1. f \in Nat /\ s \in Nat
      BY OptionsTyped, RawOptionsAssumption DEF IInv
    <3>2. outcome' = IF "saveFrame" \in given /\ f # 0 /\ s > f THEN "usage" ELSE "run"
      BY <1>5 DEF Finish
    <3>3. NeverSaved <=> "saveFrame" \in given /\ f \in 1 .. s - 1
      BY DEF NeverSaved
    <3> HIDE DEF f, s
    <3>4. f \in 1 .. s - 1 <=> f # 0 /\ s > f
      BY <3>1
    <3>5. NeverSaved <=> "saveFrame" \in given /\ f # 0 /\ s > f
      BY <3>3, <3>4
    <3> QED  BY <3>2, <3>5
  <2>4. OutcomeInv' /\ RefusedForCause'
    BY <2>1, <2>3 DEF IInv, OutcomeInv, RefusedForCause, NeverSaved
  <2> QED  BY <2>2, <2>4 DEF IInv
<1>6. CASE UNCHANGED vars
  <2>1. UNCHANGED <<options, given, argv, outcome>>
    BY <1>6 DEF vars
  <2> QED  BY <2>1 DEF IInv, WordInv, OptionsInv, OutcomeInv, SaysInv, RefusedForCause,
                       NeverSaved
<1>7. CASE Ended
  BY <1>6, <1>7 DEF Ended
<1> QED  BY <1>1, <1>2, <1>3, <1>4, <1>5, <1>6, <1>7 DEF Next

LEMMA OptionsInvariant == Spec => []IInv
  BY InitIInv, StepIInv, PTL DEF Spec

(* Every option stays within the values the program may use.               *)
THEOREM TypeCorrect == Spec => []OptionsInRange
<1>1. IInv => OptionsInRange
  <2> SUFFICES ASSUME IInv PROVE OptionsInRange
    OBVIOUS
  <2>1. /\ options.width \in 1 .. U32Max /\ options.height \in 1 .. U32Max
        /\ options.timeoutMs \in 1 .. IntMax /\ options.buffers \in 2 .. 32
        /\ options.frames \in 0 .. U64Max /\ options.saveAt \in 1 .. U64Max
        /\ options.sensorMode \in 0 .. I64Max \cup {NoMode}
        /\ options.pixelFormat \in Fourccs
    BY OptionsTyped, Zenon DEF IInv
  <2>2. options.fps > 0 /\ options.reportInterval > 0 /\ options.duration >= 0
    <3>1. /\ options.fps \in Nat \ {0} /\ options.reportInterval \in Nat \ {0}
          /\ options.duration \in Nat
      BY OptionsTyped, Zenon DEF IInv
    <3> QED  BY <3>1
  <2> QED  BY <2>1, <2>2, Zenon DEF IInv, OutcomeInv, OptionsInRange
<1> QED  BY <1>1, OptionsInvariant, PTL

(* The capture runs with the last value of each option, however long the   *)
(* command line and in whatever order its options come.                    *)
THEOREM LastWinsHolds == Spec => []LastWins
<1>1. IInv => LastWins
  <2> SUFFICES ASSUME IInv, outcome = "run", NEW option \in Names
               PROVE  options[option] \in IF Given(option) = {} THEN {Default[option]}
                                          ELSE Meaning(option, argv[Max(Given(option))][2])
    BY DEF LastWins, Names
  <2> DEFINE G == Given(option)
             v == options[option]
  <2>1. Says(argv, option, v) /\ GivenIn(argv, option) = G
    BY DEF IInv, SaysInv, Given, GivenIn
  <2>2. G \subseteq Int
    BY DEF Given
  <2> HIDE DEF G, v
  <2>3. CASE G = {} /\ v = Default[option]
    BY <2>3, Zenon DEF G, v
  <2>4. ASSUME NEW m \in G, LastOf(G, m), v \in Meaning(option, argv[m][2])
        PROVE  v \in Meaning(option, argv[Max(G)][2]) /\ G # {}
    BY <2>2, <2>4, MaxIsLast
  <2>5. v \in IF G = {} THEN {Default[option]} ELSE Meaning(option, argv[Max(G)][2])
    BY <2>1, <2>3, <2>4, Zenon DEF Says
  <2> QED  BY <2>5 DEF G, v
<1> QED  BY <1>1, OptionsInvariant, PTL

(* A command line is refused for a reason that no later option could       *)
(* remove, and a run that starts can reach the frame it is to save.        *)
THEOREM RefusedForCauseHolds == Spec => []RefusedForCause
  BY OptionsInvariant, PTL DEF IInv
-----------------------------------------------------------------------------
(* A set of naturals with a bound has a maximum.                           *)
LEMMA MaxExists ==
    ASSUME NEW n \in Nat, NEW S, S \subseteq 0 .. n, S # {}
    PROVE  Max(S) \in S /\ \A x \in S : x <= Max(S)
<1> DEFINE R == OpToRel(<, Nat)
           T == {n - x : x \in S}
<1>1. IsWellFoundedOn(R, Nat)
  BY NatLessThanWellFounded
<1>2. T \subseteq Nat /\ T # {}
  <2>1. PICK x \in S : TRUE
    OBVIOUS
  <2>2. n - x \in T
    BY <2>1
  <2>3. ASSUME NEW y \in S PROVE n - y \in Nat
    OBVIOUS
  <2> QED  BY <2>2, <2>3
<1> HIDE DEF R
<1>3. PICK t \in T : \A y \in T : ~(<<y, t>> \in R)
  BY <1>1, <1>2, WFMin
<1>4. \A y \in T : ~(y < t)
  <2> SUFFICES ASSUME NEW y \in T, y < t PROVE FALSE
    OBVIOUS
  <2>1. <<y, t>> \in R
    BY <1>2 DEF R, OpToRel
  <2> QED  BY <1>3, <2>1
<1>5. PICK m \in S : t = n - m
  OBVIOUS
<1>6. \A x \in S : x <= m
  <2> SUFFICES ASSUME NEW x \in S PROVE x <= m
    OBVIOUS
  <2>1. n - x \in T
    OBVIOUS
  <2>2. ~(n - x < t)
    BY <1>4, <2>1
  <2> QED  BY <1>5, <2>2
<1>7. LastOf(S, m) /\ S \subseteq Int
  BY <1>6 DEF LastOf
<1>8. Max(S) = m
  BY <1>7, MaxIsLast
<1> QED  BY <1>6, <1>8

LEMMA Division ==
    ASSUME NEW x \in Nat, NEW k \in Nat \ {0}
    PROVE  /\ x % k \in 0 .. k - 1 /\ x \div k \in Int
           /\ x = k * (x \div k) + (x % k)
<1>1. k \in Nat /\ k >= 1
  OBVIOUS
<1> QED  BY <1>1

LEMMA Divides ==
    ASSUME NEW x \in Nat, NEW k \in Nat \ {0}, x % k = 0
    PROVE  x \div k \in Nat /\ x = k * (x \div k)
<1> DEFINE q == x \div k
<1>1. q \in Int /\ x = k * q
  BY Division
<1> HIDE DEF q
<1>2. q >= 0
  <2> SUFFICES ASSUME q <= -1 PROVE FALSE
    BY <1>1
  <2>1. k * q <= k * (-1)
    BY <1>1
  <2> QED  BY <1>1, <2>1
<1> QED  BY <1>1, <1>2 DEF q

LEMMA MultipleDivides ==
    ASSUME NEW a \in Nat, NEW k \in Nat \ {0} PROVE (k * a) % k = 0
<1> DEFINE r == (k * a) % k
           q == (k * a) \div k
<1>1. r \in 0 .. k - 1 /\ q \in Int /\ k * a = k * q + r
  <2> DEFINE x == k * a
  <2>1. x \in Nat
    OBVIOUS
  <2> HIDE DEF x
  <2>2. x % k \in 0 .. k - 1 /\ x \div k \in Int /\ x = k * (x \div k) + (x % k)
    BY <2>1, Division
  <2> QED  BY <2>2 DEF x
<1> HIDE DEF r, q
<1>2. k * (a - q) = r
  BY <1>1
<1>3. a - q < 1
  <2> SUFFICES ASSUME a - q >= 1 PROVE FALSE
    BY <1>1
  <2>1. k * (a - q) >= k * 1
    BY <1>1
  <2> QED  BY <1>1, <1>2, <2>1
<1>4. a - q > -1
  <2> SUFFICES ASSUME a - q <= -1 PROVE FALSE
    BY <1>1
  <2>1. k * (a - q) <= k * (-1)
    BY <1>1
  <2> QED  BY <1>1, <1>2, <2>1
<1>5. a - q = 0
  BY <1>1, <1>3, <1>4
<1>6. r = 0
  BY <1>1, <1>2, <1>5
<1> QED  BY <1>6 DEF r

(* Two numbers divided by their greatest common divisor have none left.    *)
LEMMA LowestTerms ==
    ASSUME NEW s \in Nat \ {0}, NEW d \in Nat, NEW g \in 1 .. s,
           s % g = 0, d % g = 0,
           \A k \in 1 .. s : s % k = 0 /\ d % k = 0 => k <= g
    PROVE  /\ s \div g \in 1 .. s /\ d \div g \in 0 .. d
           /\ (d \div g) * s = (s \div g) * d
           /\ d \div g = 0 => d = 0
           /\ \A k \in 2 .. s \div g : (s \div g) % k = 0 => (d \div g) % k # 0
<1> DEFINE n == s \div g
           e == d \div g
<1>1. n \in Nat /\ e \in Nat /\ s = g * n /\ d = g * e /\ g \in Nat \ {0}
  BY Divides
<1> HIDE DEF n, e
<1>2. n # 0
  BY <1>1
<1>3. n <= g * n /\ e <= g * e
  <2>1. (g - 1) * n >= 0 /\ (g - 1) * e >= 0
    BY <1>1
  <2> QED  BY <1>1, <2>1
<1>4. e * s = n * d
  BY <1>1
<1>5. e = 0 => d = 0
  BY <1>1
<1>6. ASSUME NEW k \in 2 .. n, n % k = 0, e % k = 0 PROVE FALSE
  <2> DEFINE a == n \div k
             b == e \div k
  <2>1. k \in Nat \ {0} /\ a \in Nat /\ b \in Nat /\ n = k * a /\ e = k * b
    BY <1>1, <1>6, Divides
  <2> HIDE DEF a, b
  <2> DEFINE h == g * k
  <2>2. s = h * a /\ d = h * b /\ h \in Nat
    BY <1>1, <2>1
  <2>3. h > g
    <3>1. g * (k - 1) >= 1
      BY <1>1, <1>6, <2>1
    <3> QED  BY <1>1, <2>1, <3>1
  <2>4. a # 0
    BY <1>2, <2>1
  <2> HIDE DEF h
  <2>5. h <= s
    <3>1. h * (a - 1) >= 0
      BY <2>1, <2>2, <2>4
    <3> QED  BY <2>1, <2>2, <3>1
  <2>6. h \in 1 .. s /\ s % h = 0 /\ d % h = 0
    BY <1>1, <2>1, <2>2, <2>3, <2>5, MultipleDivides
  <2> QED  BY <1>1, <2>2, <2>3, <2>6
<1>7. n \in 1 .. s /\ e \in 0 .. d
  <2>1. n <= s /\ e <= d
    BY <1>1, <1>3
  <2> QED  BY <1>1, <1>2, <2>1
<1>8. \A k \in 2 .. n : n % k = 0 => e % k # 0
  BY <1>6
<1> QED  BY <1>4, <1>5, <1>7, <1>8 DEF n, e

(* The fraction the driver is asked for is the requested rate in lowest    *)
(* terms, for every rate that fits and every width of the integer types.   *)
THEOREM RateIsRequestedHolds == Spec => []RateIsRequested
<1>1. ASSUME IInv PROVE RateIsRequested
  <2> DEFINE fps == options.fps
             d == Denominator(fps)
             D == {k \in 1 .. Scale : Scale % k = 0 /\ d % k = 0}
             g == Max(D)
  <2> SUFFICES ASSUME NEW interval \in FrameInterval(fps)
               PROVE  LET n == interval[1]
                          e == interval[2]
                      IN  /\ n \in 1 .. U32Max /\ e \in 0 .. U32Max
                          /\ \A k \in 2 .. n : n % k = 0 => e % k # 0
                          /\ e * Scale = n * d
                          /\ e = 0 => 2 * fps * Scale < Unit
    BY DEF RateIsRequested
  <2>1. fps \in Nat
    BY <1>1, OptionsTyped DEF IInv
  <2> HIDE DEF fps
  <2>2. /\ ~(fps > (U32Max * Unit) \div Scale)
        /\ interval = <<Scale \div g, d \div g>>
    BY Zenon DEF FrameInterval
  <2>3. U32Max \in Nat /\ Scale <= U32Max
    BY Widths DEF Scale
  <2>4. d \in 0 .. U32Max /\ (d = 0 => 2 * fps * Scale < Unit)
    BY <2>1, <2>2, <2>3 DEF Denominator, Unit, Scale
  <2> HIDE DEF d
  <2>5. g \in D /\ \A k \in D : k <= g
    <3>1. D \subseteq 0 .. Scale /\ Scale \in Nat
      BY DEF Scale
    <3>2. 1 \in D
      BY <2>4 DEF Scale
    <3> HIDE DEF D
    <3> QED  BY <3>1, <3>2, MaxExists
  <2> HIDE DEF g
  <2>6. Scale \in Nat \ {0} /\ d \in Nat /\ g \in 1 .. Scale
    BY <2>4, <2>5 DEF Scale
  <2>7. /\ Scale \div g \in 1 .. Scale /\ d \div g \in 0 .. d
        /\ (d \div g) * Scale = (Scale \div g) * d
        /\ d \div g = 0 => d = 0
        /\ \A k \in 2 .. Scale \div g : (Scale \div g) % k = 0 => (d \div g) % k # 0
    BY <2>5, <2>6, LowestTerms
  <2>8. interval[1] = Scale \div g /\ interval[2] = d \div g
    BY <2>2
  <2>9. Scale \div g \in 1 .. U32Max /\ d \div g \in 0 .. U32Max
    BY <2>3, <2>4, <2>6, <2>7
  <2> QED  BY <2>4, <2>7, <2>8, <2>9
<1> QED  BY <1>1, OptionsInvariant, PTL
=============================================================================
