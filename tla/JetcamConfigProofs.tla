------------------------- MODULE JetcamConfigProofs -------------------------
(***************************************************************************)
(* Proofs about JetcamConfig for any files, any arguments and command      *)
(* lines of any length.  A maximum is stated by a witness, LastOf, so that *)
(* what holds of the last assignment can be followed as the list grows.    *)
(***************************************************************************)
EXTENDS JetcamConfig, TLAPS

LastOf(S, m) == m \in S /\ \A x \in S : x <= m

LinesUpTo(path, n, key) == LinesFor(path, key) \cap 1 .. n

(* The value of key after the first n lines of a file.                     *)
FileSaysUpTo(path, n, key, v) ==
    \/ \E m \in LinesUpTo(path, n, key) :
          LastOf(LinesUpTo(path, n, key), m) /\ v \in ValuesOf(Files[path][m])
    \/ LinesUpTo(path, n, key) = {} /\ v = Default[key]

(* The value of key after the arguments q, where open is the option for a  *)
(* file and set that for an assignment.                                    *)
Positions(q, option) == {i \in 1 .. Len(q) - 1 : q[i] = option}
Assigns(q, set, F, key) ==
    {i \in 1 .. Len(q) - 1 : q[i] = set /\ KeyOf(q[i + 1]) = key /\ \A j \in F : j < i}

SaidIn(q, F, A, key, v) ==
    \/ \E m \in A : LastOf(A, m) /\ v \in ValuesOf(q[m + 1])
    \/ /\ A = {}
       /\ \E f \in F :
             LastOf(F, f) /\ FileSaysUpTo(q[f + 1], Len(Files[q[f + 1]]), key, v)
    \/ A = {} /\ F = {} /\ v = Default[key]

SaidBy(q, open, set, key, v) ==
    SaidIn(q, Positions(q, open), Assigns(q, set, Positions(q, open), key), key, v)

RightAt(q, open, set, i) ==
    /\ q[i] = open => Good(q[i + 1])
    /\ q[i] = set => ValuesOf(q[i + 1]) # {}

(* No option that wants a value is the last of the list.                   *)
Closed(q, open, set) == q # <<>> => q[Len(q)] \notin {open, set}

Open == "--config"
Set == "--set"

(* The command line so far is complete: main has read it, or it has been   *)
(* accepted.                                                               *)
Complete == pc \in {"argument", "print"} \/ Accepted

Strings == Arguments \cup Options

Types == args \in Seq(Strings) /\ line \in Nat \ {0}

ValidInv ==
    /\ IsConfig(config) /\ IsConfig(loaded)
    /\ pc = "print" \/ Accepted => Valid(config)
    /\ pc \in {"argument", "line", "print"} => outcome = "none"

ClosedInv == Complete \/ pc = "line" => Closed(args, Open, Set)

(* The file that is read is that of the last argument.                     *)
LineInv ==
    pc = "line" =>
        /\ Len(args) >= 2 /\ args[Len(args) - 1] = Open /\ args[Len(args)] = file
        /\ file \in DOMAIN Files /\ line <= Len(Files[file]) + 1
        /\ \A key \in Keys : FileSaysUpTo(file, line - 1, key, loaded[key])
        /\ \A i \in 1 .. line - 1 :
              Files[file][i] \in Ignored \/ ValuesOf(Files[file][i]) # {}

SaidInv ==
    Complete => \A key \in Keys : SaidBy(args, Open, Set, key, config[key])

(* Nothing wrong has been read, up to the file that is being read.         *)
RightUpTo(n) == \A i \in 1 .. n : RightAt(args, Open, Set, i)

RightInv ==
    /\ Complete => RightUpTo(Len(args) - 1)
    /\ pc = "line" => RightUpTo(Len(args) - 2)

IInv == Types /\ ValidInv /\ ClosedInv /\ LineInv /\ SaidInv /\ RightInv
-----------------------------------------------------------------------------
LEMMA MaxIsLast ==
    ASSUME NEW S, NEW m \in S, S \subseteq Int, LastOf(S, m) PROVE Max(S) = m
<1>1. \A y \in S : m >= y
  BY DEF LastOf
<1>2. Max(S) \in S /\ \A y \in S : Max(S) >= y
  BY <1>1, Zenon DEF Max
<1>3. Max(S) >= m /\ Max(S) <= m /\ Max(S) \in Int /\ m \in Int
  BY <1>2 DEF LastOf
<1> QED  BY <1>3

LEMMA LastOfMore ==
    ASSUME NEW n \in Int, NEW S, \A x \in S : x \in Int /\ x <= n
    PROVE  LastOf(S \cup {n}, n)
  BY DEF LastOf

LEMMA AppendIndex ==
    ASSUME NEW S, NEW q \in Seq(S), NEW x \in S
    PROVE  /\ Append(q, x) \in Seq(S)
           /\ Len(q) \in Nat /\ Len(Append(q, x)) = Len(q) + 1
           /\ \A i \in 1 .. Len(q) : Append(q, x)[i] = q[i]
           /\ Append(q, x)[Len(q) + 1] = x
           /\ q # <<>> => Len(q) >= 1
  OBVIOUS

LEMMA PositionsKept ==
    ASSUME NEW S, NEW q \in Seq(S), NEW x \in S, NEW option,
           q # <<>> => q[Len(q)] # option
    PROVE  Positions(Append(q, x), option) = Positions(q, option)
  BY AppendIndex DEF Positions

LEMMA AssignsKept ==
    ASSUME NEW S, NEW q \in Seq(S), NEW x \in S, NEW option, NEW F, NEW key,
           q # <<>> => q[Len(q)] # option \/ KeyOf(x) # key
    PROVE  Assigns(Append(q, x), option, F, key) = Assigns(q, option, F, key)
  BY AppendIndex DEF Assigns

(* Both arguments of an option with a value.                               *)
LEMMA AppendTwo ==
    ASSUME NEW S, NEW q \in Seq(S), NEW x \in S, NEW y \in S
    PROVE  q \o <<x, y>> = Append(Append(q, x), y)
  OBVIOUS

IntNames == {"sensor_id", "width", "height", "framerate", "bitrate_kbps", "gop",
             "port", "rtsp_port"}

LEMMA IntKeysAre == IntKeys = IntNames
  BY SMT DEF IntKeys, IntRange, IntNames

LEMMA KeysApart ==
    /\ IntKeys \cap TextKeys = {}
    /\ "output" \notin IntKeys \cup TextKeys
    /\ "snapshot_on_start" \notin IntKeys \cup TextKeys
  BY IntKeysAre DEF IntNames, TextKeys

LEMMA ParsedIs ==
    ASSUME NEW t
    PROVE  /\ \A key \in IntKeys : Parsed(key, t) = ParseInt(key, t)
           /\ \A key \in TextKeys : Parsed(key, t) = {t}
           /\ Parsed("output", t) = {t.word} \cap {"udp", "rtsp"}
           /\ Parsed("snapshot_on_start", t) = ParseBool(t)
           /\ \A key : key \notin Keys => Parsed(key, t) = {}
<1>1. ASSUME NEW key \in IntKeys PROVE Parsed(key, t) = ParseInt(key, t)
  BY KeysApart DEF Parsed
<1>2. ASSUME NEW key \in TextKeys PROVE Parsed(key, t) = {t}
  BY KeysApart DEF Parsed
<1>3. Parsed("output", t) = {t.word} \cap {"udp", "rtsp"}
  BY KeysApart DEF Parsed
<1>4. Parsed("snapshot_on_start", t) = ParseBool(t)
  BY KeysApart DEF Parsed
<1>5. ASSUME NEW key, key \notin Keys PROVE Parsed(key, t) = {}
  BY <1>5 DEF Parsed, Keys
<1> QED  BY <1>1, <1>2, <1>3, <1>4, <1>5

LEMMA ValuesAre ==
    /\ \A key \in IntKeys : Values(key) = IntRange[key]
    /\ \A key \in TextKeys : Values(key) = Texts
    /\ Values("output") = {"udp", "rtsp"}
    /\ Values("snapshot_on_start") = BOOLEAN
  BY KeysApart DEF Values

LEMMA ValuesTyped ==
    ASSUME NEW s, NEW v \in ValuesOf(s)
    PROVE  s \in DOMAIN Split /\ KeyOf(s) \in Keys /\ v \in Values(KeyOf(s))
<1> DEFINE t == Trim(Split[s].value)
<1>1. s \in DOMAIN Split /\ v \in Parsed(KeyOf(s), t)
  BY DEF ValuesOf
<1>2. t \in Texts
  BY <1>1, Zenon DEF Texts
<1> HIDE DEF t
<1>3. KeyOf(s) \in Keys
  BY <1>1, ParsedIs
<1>4. CASE KeyOf(s) \in IntKeys
  BY <1>1, <1>4, ParsedIs, ValuesAre DEF ParseInt
<1>5. CASE KeyOf(s) \in TextKeys
  BY <1>1, <1>2, <1>5, ParsedIs, ValuesAre
<1>6. CASE KeyOf(s) = "output"
  BY <1>1, <1>6, ParsedIs, ValuesAre
<1>7. CASE KeyOf(s) = "snapshot_on_start"
  BY <1>1, <1>7, ParsedIs, ValuesAre DEF ParseBool
<1> QED  BY <1>1, <1>3, <1>4, <1>5, <1>6, <1>7 DEF Keys

LEMMA OneBool == ASSUME NEW t PROVE \A x, y \in ParseBool(t) : x = y
<1>1. /\ Word("true").word = "true" /\ Word("yes").word = "yes"
      /\ Word("false").word = "false" /\ Word("no").word = "no"
      /\ Number(0).word = "number" /\ Number(1).word = "number"
  BY DEF Word, Number, Text
<1>2. Number(0).n = 0 /\ Number(1).n = 1
  BY DEF Number, Text
<1>3. Number(0).n # Number(1).n
  BY <1>2
<1> HIDE DEF Word, Number
<1>4. ~(TRUE \in ParseBool(t) /\ FALSE \in ParseBool(t))
  BY <1>1, <1>3 DEF ParseBool
<1> QED  BY <1>4 DEF ParseBool

LEMMA OneValue ==
    ASSUME NEW s, NEW v \in ValuesOf(s), NEW w \in ValuesOf(s)
    PROVE  v = w
<1> DEFINE t == Trim(Split[s].value)
<1>1. {v, w} \subseteq Parsed(KeyOf(s), t)
  BY DEF ValuesOf
<1> HIDE DEF t
<1>2. CASE KeyOf(s) \in IntKeys
  BY <1>1, <1>2, ParsedIs DEF ParseInt
<1>3. CASE KeyOf(s) \in TextKeys
  BY <1>1, <1>3, ParsedIs
<1>4. CASE KeyOf(s) = "output"
  BY <1>1, <1>4, ParsedIs
<1>5. CASE KeyOf(s) = "snapshot_on_start"
  <2>1. v \in ParseBool(t) /\ w \in ParseBool(t)
    BY <1>1, <1>5, ParsedIs
  <2> QED  BY <2>1, OneBool, Zenon
<1>6. KeyOf(s) \in Keys
  BY <1>1, ParsedIs
<1> QED  BY <1>2, <1>3, <1>4, <1>5, <1>6 DEF Keys

LEMMA DefaultIsConfig == IsConfig(Default)
<1>1. DOMAIN Default = Keys
  BY IntKeysAre, SMT DEF Default, Keys, IntNames, TextKeys
<1>2. /\ Default.sensor_id \in IntRange.sensor_id /\ Default.width \in IntRange.width
      /\ Default.height \in IntRange.height /\ Default.framerate \in IntRange.framerate
      /\ Default.bitrate_kbps \in IntRange.bitrate_kbps
      /\ Default.gop \in IntRange.gop
      /\ Default.port \in IntRange.port /\ Default.rtsp_port \in IntRange.rtsp_port
  <2>1. Default.sensor_id \in IntRange.sensor_id /\ Default.width \in IntRange.width
    BY SMT DEF Default, IntRange
  <2>2. Default.height \in IntRange.height /\ Default.framerate \in IntRange.framerate
    BY SMT DEF Default, IntRange
  <2>3. Default.bitrate_kbps \in IntRange.bitrate_kbps /\ Default.gop \in IntRange.gop
    BY SMT DEF Default, IntRange
  <2>4. Default.port \in IntRange.port /\ Default.rtsp_port \in IntRange.rtsp_port
    BY SMT DEF Default, IntRange
  <2> QED  BY <2>1, <2>2, <2>3, <2>4, Zenon
<1>3. \A key \in IntKeys : Default[key] \in IntRange[key]
  BY <1>2, IntKeysAre DEF IntNames
<1>4. \A key \in TextKeys : Default[key] \in Texts
  BY Zenon DEF Texts
<1>5. Default.output \in {"udp", "rtsp"} /\ Default.snapshot_on_start \in BOOLEAN
  BY SMT DEF Default
<1>6. \A key \in Keys : Default[key] \in Values(key)
  BY <1>3, <1>4, <1>5, ValuesAre, Zenon DEF Keys
<1> QED  BY <1>1, <1>6, Zenon DEF IsConfig
-----------------------------------------------------------------------------
(* One more line of a file.                                                *)
LEMMA LinesGrow ==
    ASSUME NEW path \in DOMAIN Files, NEW n \in 1 .. Len(Files[path]), NEW key
    PROVE  LinesUpTo(path, n, key) =
               LinesUpTo(path, n - 1, key) \cup
                   (IF Files[path][n] \in DOMAIN Split \ Ignored /\ KeyOf(Files[path][n]) = key
                    THEN {n} ELSE {})
<1>1. Len(Files[path]) \in Nat
  BY JetcamConfigAssumption
<1> QED  BY <1>1 DEF LinesUpTo, LinesFor

LEMMA FileKeeps ==
    ASSUME NEW path \in DOMAIN Files, NEW n \in 1 .. Len(Files[path]), NEW key, NEW v,
           FileSaysUpTo(path, n - 1, key, v),
           Files[path][n] \notin DOMAIN Split \ Ignored \/ KeyOf(Files[path][n]) # key
    PROVE  FileSaysUpTo(path, n, key, v)
<1>1. ~(Files[path][n] \in DOMAIN Split \ Ignored /\ KeyOf(Files[path][n]) = key)
  OBVIOUS
<1>2. LinesUpTo(path, n, key) = LinesUpTo(path, n - 1, key) \cup {}
  BY <1>1, LinesGrow, Zenon
<1>3. LinesUpTo(path, n, key) = LinesUpTo(path, n - 1, key)
  BY <1>2
<1> QED  BY <1>3, Zenon DEF FileSaysUpTo

LEMMA FileTakes ==
    ASSUME NEW path \in DOMAIN Files, NEW n \in 1 .. Len(Files[path]), NEW key, NEW v,
           Files[path][n] \in DOMAIN Split \ Ignored, KeyOf(Files[path][n]) = key,
           v \in ValuesOf(Files[path][n])
    PROVE  FileSaysUpTo(path, n, key, v)
<1>1. LinesUpTo(path, n, key) = LinesUpTo(path, n - 1, key) \cup {n}
  BY LinesGrow
<1>2. n \in Int /\ \A x \in LinesUpTo(path, n - 1, key) : x \in Int /\ x <= n
  BY DEF LinesUpTo
<1>3. LastOf(LinesUpTo(path, n, key), n)
  BY <1>1, <1>2, LastOfMore, Zenon
<1> QED  BY <1>1, <1>3, Zenon DEF FileSaysUpTo, LastOf

LEMMA FileBegins ==
    ASSUME NEW path \in DOMAIN Files, NEW key
    PROVE  FileSaysUpTo(path, 0, key, Default[key])
<1>1. LinesUpTo(path, 0, key) = {}
  BY DEF LinesUpTo
<1> QED  BY <1>1, Zenon DEF FileSaysUpTo

LEMMA WholeFile ==
    ASSUME NEW path, NEW key
    PROVE  LinesUpTo(path, Len(Files[path]), key) = LinesFor(path, key)
  BY DEF LinesUpTo, LinesFor

(* What the whole of a file says is what FileSays holds.                   *)
LEMMA FileSaysIt ==
    ASSUME NEW path, NEW key, NEW v, FileSaysUpTo(path, Len(Files[path]), key, v)
    PROVE  v \in FileSays(path, key)
<1> DEFINE L == LinesFor(path, key)
<1>1. L \subseteq Int
  BY DEF LinesFor
<1>2. CASE L = {} /\ v = Default[key]
  BY <1>2, Zenon DEF FileSays
<1>3. ASSUME NEW m \in L, LastOf(L, m), v \in ValuesOf(Files[path][m])
      PROVE  v \in FileSays(path, key)
  <2>1. Max(L) = m /\ L # {}
    BY <1>1, <1>3, MaxIsLast
  <2> QED  BY <1>3, <2>1, Zenon DEF FileSays
<1> QED  BY <1>2, <1>3, WholeFile, Zenon DEF FileSaysUpTo

(* Arguments that are added leave what was said as it was, unless they are *)
(* an assignment to the key; the list they are added to is closed.         *)
LEMMA PositionsBound ==
    ASSUME NEW q, Len(q) \in Nat, NEW option, NEW F, NEW key
    PROVE  /\ Positions(q, option) \subseteq 1 .. Len(q) - 1
           /\ Assigns(q, option, F, key) \subseteq 1 .. Len(q) - 1
  BY DEF Positions, Assigns

LEMMA SaidKept ==
    ASSUME NEW S, NEW q \in Seq(S), NEW x \in S, NEW option, NEW set, NEW key, NEW v,
           NEW F, NEW A, F \subseteq 1 .. Len(q) - 1, A \subseteq 1 .. Len(q) - 1,
           SaidIn(q, F, A, key, v)
    PROVE  SaidIn(Append(q, x), F, A, key, v)
<1>1. \A i \in F \cup A : Append(q, x)[i + 1] = q[i + 1]
  BY AppendIndex
<1> QED  BY <1>1, Zenon DEF SaidIn

LEMMA FlagKeeps ==
    ASSUME NEW S, NEW q \in Seq(S), NEW x \in S, NEW open, NEW set, NEW key, NEW v,
           Closed(q, open, set), SaidBy(q, open, set, key, v)
    PROVE  SaidBy(Append(q, x), open, set, key, v)
<1> DEFINE F == Positions(q, open)
           A == Assigns(q, set, F, key)
<1>1. Positions(Append(q, x), open) = F /\ Assigns(Append(q, x), set, F, key) = A
  BY PositionsKept, AssignsKept DEF Closed
<1>2. F \subseteq 1 .. Len(q) - 1 /\ A \subseteq 1 .. Len(q) - 1
  BY AppendIndex, PositionsBound
<1>3. SaidIn(Append(q, x), F, A, key, v)
  BY <1>2, SaidKept DEF SaidBy
<1> QED  BY <1>1, <1>3, Zenon DEF SaidBy

LEMMA SetKeeps ==
    ASSUME NEW S, NEW q \in Seq(S), NEW open, NEW set \in S, open # set, NEW s \in S,
           NEW key, NEW v, Closed(q, open, set), SaidBy(q, open, set, key, v),
           KeyOf(s) # key
    PROVE  SaidBy(Append(Append(q, set), s), open, set, key, v)
<1> DEFINE p == Append(q, set)
           F == Positions(p, open)
           A == Assigns(p, set, F, key)
<1>1. p \in Seq(S) /\ p[Len(p)] = set /\ p # <<>>
  BY AppendIndex
<1>2. SaidIn(p, F, A, key, v)
  BY FlagKeeps, Zenon DEF SaidBy
<1> HIDE DEF p
<1>3. Positions(Append(p, s), open) = F
  BY <1>1, PositionsKept
<1>4. Assigns(Append(p, s), set, F, key) = A
  BY <1>1, AssignsKept
<1>5. F \subseteq 1 .. Len(p) - 1 /\ A \subseteq 1 .. Len(p) - 1
  BY <1>1, AppendIndex, PositionsBound
<1>6. SaidIn(Append(p, s), F, A, key, v)
  BY <1>1, <1>2, <1>5, SaidKept
<1> QED  BY <1>3, <1>4, <1>6, Zenon DEF SaidBy, p

LEMMA SetTakes ==
    ASSUME NEW S, NEW q \in Seq(S), NEW open, NEW set \in S, open # set, NEW s \in S,
           NEW key, NEW v, KeyOf(s) = key, v \in ValuesOf(s)
    PROVE  SaidBy(Append(Append(q, set), s), open, set, key, v)
<1> DEFINE p == Append(q, set)
           F == Positions(p, open)
           A == Assigns(p, set, F, key)
<1>1. p \in Seq(S) /\ p[Len(p)] = set /\ p # <<>>
  BY AppendIndex
<1> HIDE DEF p
<1>2. Positions(Append(p, s), open) = F
  BY <1>1, PositionsKept
<1>3. F \subseteq 1 .. Len(p) - 1 /\ A \subseteq 1 .. Len(p) - 1 /\ Len(p) \in Nat
  BY <1>1, AppendIndex, PositionsBound
<1>4. Assigns(Append(p, s), set, F, key) = A \cup {Len(p)}
  <2>1. \A j \in F : j < Len(p)
    BY <1>3
  <2> HIDE DEF F
  <2>2. /\ Len(Append(p, s)) = Len(p) + 1 /\ Len(p) \in Nat /\ Len(p) >= 1
        /\ \A i \in 1 .. Len(p) : Append(p, s)[i] = p[i]
        /\ Append(p, s)[Len(p) + 1] = s
    BY <1>1, AppendIndex
  <2> QED  BY <1>1, <2>1, <2>2 DEF Assigns
<1>5. LastOf(A \cup {Len(p)}, Len(p))
  <2>1. Len(p) \in Int /\ \A i \in A : i \in Int /\ i <= Len(p)
    BY <1>3
  <2> QED  BY <2>1, LastOfMore, Zenon
<1>6. Append(p, s)[Len(p) + 1] = s
  BY <1>1, AppendIndex
<1>7. SaidIn(Append(p, s), F, A \cup {Len(p)}, key, v)
  BY <1>5, <1>6, Zenon DEF SaidIn
<1> QED  BY <1>2, <1>4, <1>7, Zenon DEF SaidBy, p

(* After a file only the file has been heard.                              *)
LEMMA FileSaid ==
    ASSUME NEW S, NEW q \in Seq(S), NEW open, NEW set, NEW key, NEW v,
           Len(q) >= 2, q[Len(q) - 1] = open,
           FileSaysUpTo(q[Len(q)], Len(Files[q[Len(q)]]), key, v)
    PROVE  SaidBy(q, open, set, key, v)
<1> DEFINE F == Positions(q, open)
           A == Assigns(q, set, F, key)
           f == Len(q) - 1
<1>1. f \in F /\ LastOf(F, f) /\ f + 1 = Len(q)
  BY DEF Positions, LastOf
<1>2. A = {}
  BY <1>1 DEF Assigns
<1> QED  BY <1>1, <1>2, Zenon DEF SaidBy, SaidIn

(* What was right stays right.                                             *)
LEMMA FlagRight ==
    ASSUME NEW S, NEW q \in Seq(S), NEW x \in S, NEW open, NEW set, Closed(q, open, set),
           \A i \in 1 .. Len(q) - 1 : RightAt(q, open, set, i)
    PROVE  \A i \in 1 .. Len(Append(q, x)) - 1 : RightAt(Append(q, x), open, set, i)
<1> SUFFICES ASSUME NEW i \in 1 .. Len(Append(q, x)) - 1
             PROVE  RightAt(Append(q, x), open, set, i)
  OBVIOUS
<1>1. i \in 1 .. Len(q) /\ Append(q, x)[i] = q[i]
  BY AppendIndex
<1>2. CASE i = Len(q)
  BY <1>1, <1>2, AppendIndex DEF RightAt, Closed
<1>3. CASE i # Len(q)
  <2>1. i \in 1 .. Len(q) - 1 /\ Append(q, x)[i + 1] = q[i + 1]
    BY <1>1, <1>3, AppendIndex
  <2> QED  BY <1>1, <2>1, Zenon DEF RightAt
<1> QED  BY <1>2, <1>3

LEMMA AppendRight ==
    ASSUME NEW S, NEW q \in Seq(S), NEW x \in S, NEW open, NEW set,
           \A i \in 1 .. Len(q) - 1 : RightAt(q, open, set, i)
    PROVE  \A i \in 1 .. Len(q) - 1 : RightAt(Append(q, x), open, set, i)
<1> SUFFICES ASSUME NEW i \in 1 .. Len(q) - 1 PROVE RightAt(Append(q, x), open, set, i)
  OBVIOUS
<1>1. Append(q, x)[i] = q[i] /\ Append(q, x)[i + 1] = q[i + 1]
  BY AppendIndex
<1> QED  BY <1>1, Zenon DEF RightAt

(* A valid file of assignments, read to its end, is good.                  *)
LEMMA ValidAgrees ==
    ASSUME NEW c, NEW d, \A key \in Keys : c[key] = d[key], Valid(d) PROVE Valid(c)
<1>1. /\ c.width = d.width /\ c.height = d.height /\ c.framerate = d.framerate
      /\ c.host = d.host /\ c.rtsp_mount = d.rtsp_mount
      /\ c.snapshot_file = d.snapshot_file
  BY IntKeysAre DEF Keys, IntNames, TextKeys
<1> QED  BY <1>1, Zenon DEF Valid, Mode

LEMMA GoodFile ==
    ASSUME NEW path \in DOMAIN Files, NEW c, Valid(c),
           \A key \in Keys : FileSaysUpTo(path, Len(Files[path]), key, c[key]),
           \A i \in 1 .. Len(Files[path]) :
               Files[path][i] \in Ignored \/ ValuesOf(Files[path][i]) # {}
    PROVE  Good(path)
<1>1. ASSUME NEW key \in Keys PROVE (CHOOSE v \in FileSays(path, key) : TRUE) = c[key]
  <2>1. c[key] \in FileSays(path, key)
    BY FileSaysIt
  <2>2. \A v, w \in FileSays(path, key) : v = w
    BY OneValue, Zenon DEF FileSays
  <2>3. (CHOOSE v \in FileSays(path, key) : TRUE) \in FileSays(path, key)
    BY <2>1, Zenon
  <2> QED  BY <2>1, <2>2, <2>3, Zenon
<1> DEFINE d == [key \in Keys |-> CHOOSE v \in FileSays(path, key) : TRUE]
<1>2. \A key \in Keys : d[key] = c[key]
  BY <1>1, Zenon
<1>3. Valid(d)
  <2> HIDE DEF d
  <2> QED  BY <1>2, ValidAgrees
<1> QED  BY <1>3, Zenon DEF Good

(* An assignment keeps a configuration one.                                *)
LEMMA AssignedIsConfig ==
    ASSUME NEW c, IsConfig(c), NEW s, NEW v \in ValuesOf(s)
    PROVE  /\ IsConfig([c EXCEPT ![KeyOf(s)] = v])
           /\ [c EXCEPT ![KeyOf(s)] = v][KeyOf(s)] = v
           /\ \A key \in Keys : key # KeyOf(s) => [c EXCEPT ![KeyOf(s)] = v][key] = c[key]
<1>1. DOMAIN c = Keys /\ KeyOf(s) \in Keys /\ v \in Values(KeyOf(s))
  BY ValuesTyped DEF IsConfig
<1> DEFINE d == [c EXCEPT ![KeyOf(s)] = v]
<1>2. /\ DOMAIN d = Keys
      /\ \A key \in Keys : d[key] = IF key = KeyOf(s) THEN v ELSE c[key]
  BY <1>1
<1> HIDE DEF d
<1>3. IsConfig(d)
  BY <1>1, <1>2 DEF IsConfig
<1> QED  BY <1>1, <1>2, <1>3 DEF d
-----------------------------------------------------------------------------
LEMMA OptionFacts ==
    /\ Open # Set /\ Open \in Strings /\ Set \in Strings
    /\ "--print-pipeline" \in Strings /\ "--help" \in Strings
    /\ "--print-pipeline" \notin {Open, Set}
    /\ \A s : s \in DOMAIN Split \/ s \in DOMAIN Files => s \notin {Open, Set}
<1>1. \A s : s \in DOMAIN Split \/ s \in DOMAIN Files => s \notin Options
  BY JetcamConfigAssumption
<1> QED  BY <1>1 DEF Open, Set, Strings, Options

(* Where main still reads, nothing is accepted yet.                        *)
LEMMA Reading ==
    ASSUME ValidInv
    PROVE  /\ pc \in {"argument", "line", "print"} => outcome = "none" /\ ~Accepted
           /\ pc \in {"argument", "print"} => Complete
           /\ pc = "line" => ~Complete
  BY DEF ValidInv, Accepted, Complete

(* An error and --help keep nothing but the types.                         *)
LEMMA EndStep ==
    ASSUME IInv, NEW result \in {"error", "help"}, End(result), args' \in Seq(Strings)
    PROVE  IInv'
<1>1. /\ pc' = "ended" /\ outcome' = result
      /\ config' = config /\ loaded' = loaded /\ line' = line
  BY DEF End
<1>2. ~Accepted' /\ ~Complete' /\ pc' # "line"
  BY <1>1 DEF Accepted, Complete
<1>3. Types'
  BY <1>1, Zenon DEF IInv, Types
<1>4. ValidInv'
  <2>1. IsConfig(config)' /\ IsConfig(loaded)'
    BY <1>1, Zenon DEF IInv, ValidInv
  <2> QED  BY <1>1, <1>2, <2>1 DEF ValidInv
<1> QED
  BY <1>2, <1>3, <1>4, Zenon DEF IInv, ClosedInv, LineInv, SaidInv, RightInv

(* What is read after an option.                                           *)
LEMMA PairEffect ==
    ASSUME Types, NEW x \in Strings, NEW y \in Strings, args' = args \o <<x, y>>
    PROVE  /\ args' = Append(Append(args, x), y)
           /\ Append(args, x) \in Seq(Strings) /\ args' \in Seq(Strings)
           /\ Len(args') = Len(args) + 2 /\ Len(args) \in Nat
           /\ Len(Append(args, x)) = Len(args) + 1
           /\ args'[Len(args) + 1] = x /\ args'[Len(args')] = y
  BY DEF Types

LEMMA ConfigOptionStep == IInv /\ ConfigOption => IInv'
<1> SUFFICES ASSUME IInv, ConfigOption PROVE IInv'
  OBVIOUS
<1>1. pc = "argument" /\ Types /\ ValidInv
  BY Zenon DEF ConfigOption, Room, IInv
<1>2. PICK path \in Arguments :
        /\ args' = args \o <<Open, path>>
        /\ IF path \in DOMAIN Files
             THEN /\ pc' = "line" /\ file' = path /\ line' = 1 /\ loaded' = Default
                  /\ UNCHANGED <<config, printing, outcome>>
             ELSE End("error")
  BY Zenon DEF ConfigOption, Open
<1>3. path \in Strings /\ Open \in Strings
  BY OptionFacts DEF Strings
<1>4. args' \in Seq(Strings)
  BY <1>1, <1>2, <1>3, PairEffect
<1>5. CASE path \notin DOMAIN Files
  BY <1>2, <1>4, <1>5, EndStep, Zenon
<1>6. CASE path \in DOMAIN Files
  <2>1. /\ pc' = "line" /\ file' = path /\ line' = 1 /\ loaded' = Default
        /\ config' = config /\ outcome' = outcome
    BY <1>2, <1>6
  <2>2. outcome' = "none" /\ ~Accepted' /\ ~Complete'
    BY <1>1, <2>1 DEF ValidInv, Accepted, Complete
  <2>3. Types'
    BY <1>4, <2>1 DEF Types
  <2>4. ValidInv'
    <3>1. IsConfig(config') /\ IsConfig(loaded')
      BY <1>1, <2>1, DefaultIsConfig, Zenon DEF ValidInv
    <3> QED  BY <2>1, <2>2, <3>1 DEF ValidInv
  <2>5. ClosedInv'
    <3>1. args'[Len(args')] = path /\ path \notin {Open, Set}
      BY <1>1, <1>2, <1>3, <1>6, PairEffect, OptionFacts
    <3> QED  BY <3>1, Zenon DEF ClosedInv, Closed
  <2>6. LineInv'
    <3>1. /\ Len(args') >= 2 /\ args'[Len(args') - 1] = Open
          /\ args'[Len(args')] = path
      <4>1. /\ Len(args') = Len(args) + 2 /\ Len(args) \in Nat
            /\ args'[Len(args) + 1] = Open /\ args'[Len(args')] = path
        BY <1>1, <1>2, <1>3, PairEffect, Zenon
      <4>2. Len(args') >= 2 /\ Len(args') - 1 = Len(args) + 1
        BY <4>1
      <4> QED  BY <4>1, <4>2
    <3>2. 1 <= Len(Files[path]) + 1
      BY <1>6, JetcamConfigAssumption
    <3>3. \A key \in Keys : FileSaysUpTo(path, 1 - 1, key, Default[key])
      BY <1>6, FileBegins
    <3>4. 1 .. 1 - 1 = {}
      OBVIOUS
    <3> QED  BY <1>6, <2>1, <3>1, <3>2, <3>3, <3>4, Zenon DEF LineInv
  <2>7. SaidInv'
    BY <2>2, Zenon DEF SaidInv
  <2>8. RightInv'
    <3> DEFINE p == Append(args, Open)
    <3>1. Closed(args, Open, Set) /\ RightUpTo(Len(args) - 1)
      BY <1>1, Reading, Zenon DEF IInv, ClosedInv, RightInv, Complete
    <3>2. args \in Seq(Strings)
      BY <1>1 DEF Types
    <3>3. \A i \in 1 .. Len(p) - 1 : RightAt(p, Open, Set, i)
      BY <1>3, <3>1, <3>2, FlagRight, Zenon DEF RightUpTo
    <3>4. /\ args' = Append(p, path) /\ p \in Seq(Strings)
          /\ Len(args') - 2 = Len(p) - 1
      <4>1. /\ args' = Append(p, path) /\ p \in Seq(Strings)
            /\ Len(args') = Len(args) + 2 /\ Len(args) \in Nat
            /\ Len(p) = Len(args) + 1
        BY <1>1, <1>2, <1>3, PairEffect, Zenon
      <4> QED  BY <4>1
    <3> HIDE DEF p
    <3>5. \A i \in 1 .. Len(args') - 2 : RightAt(args', Open, Set, i)
      BY <1>3, <3>3, <3>4, AppendRight, Zenon
    <3> QED  BY <2>2, <3>5, Zenon DEF RightInv, RightUpTo
  <2> QED  BY <2>3, <2>4, <2>5, <2>6, <2>7, <2>8 DEF IInv
<1> QED  BY <1>5, <1>6

LEMMA SetOptionStep == IInv /\ SetOption => IInv'
<1> SUFFICES ASSUME IInv, SetOption PROVE IInv'
  OBVIOUS
<1>1. pc = "argument" /\ Types /\ ValidInv
  BY Zenon DEF SetOption, Room, IInv
<1>2. PICK s \in Arguments :
        /\ args' = args \o <<Set, s>>
        /\ IF ValuesOf(s) # {}
             THEN /\ ApplyAssignment(config, s, config')
                  /\ Stay /\ UNCHANGED <<pc, printing>>
             ELSE End("error")
  BY Zenon DEF SetOption, Set
<1>3. s \in Strings /\ Set \in Strings
  BY OptionFacts DEF Strings
<1>4. args' \in Seq(Strings)
  BY <1>1, <1>2, <1>3, PairEffect
<1>5. CASE ValuesOf(s) = {}
  BY <1>2, <1>4, <1>5, EndStep, Zenon
<1>6. CASE ValuesOf(s) # {}
  <2>1. /\ ApplyAssignment(config, s, config')
        /\ pc' = "argument" /\ line' = line /\ loaded' = loaded /\ outcome' = outcome
    BY <1>1, <1>2, <1>6 DEF Stay
  <2>2. PICK v \in ValuesOf(s) : config' = [config EXCEPT ![KeyOf(s)] = v]
    BY <2>1, Zenon DEF ApplyAssignment
  <2>3. /\ IsConfig(config') /\ config'[KeyOf(s)] = v
        /\ \A key \in Keys : key # KeyOf(s) => config'[key] = config[key]
    <3>1. IsConfig(config)
      BY <1>1, Zenon DEF ValidInv
    <3>2. /\ IsConfig([config EXCEPT ![KeyOf(s)] = v])
          /\ [config EXCEPT ![KeyOf(s)] = v][KeyOf(s)] = v
          /\ \A key \in Keys :
                key # KeyOf(s) => [config EXCEPT ![KeyOf(s)] = v][key] = config[key]
      BY <3>1, AssignedIsConfig
    <3> QED  BY <2>2, <3>2, Zenon
  <2>4. outcome' = "none" /\ ~Accepted' /\ Complete' /\ Complete
    BY <1>1, <2>1 DEF ValidInv, Accepted, Complete
  <2>5. Types'
    BY <1>1, <1>4, <2>1, Zenon DEF Types
  <2>6. ValidInv'
    <3>1. IsConfig(loaded')
      BY <1>1, <2>1, Zenon DEF ValidInv
    <3> QED  BY <2>1, <2>3, <2>4, <3>1 DEF ValidInv
  <2>7. ClosedInv'
    <3>1. args'[Len(args')] = s /\ s \notin {Open, Set}
      BY <1>1, <1>2, <1>3, <2>2, PairEffect, OptionFacts, ValuesTyped
    <3> QED  BY <3>1, Zenon DEF ClosedInv, Closed
  <2>8. LineInv'
    BY <2>1 DEF LineInv
  <2> DEFINE p == Append(args, Set)
  <2>9. /\ args' = Append(p, s) /\ p \in Seq(Strings) /\ args \in Seq(Strings)
        /\ Len(p) = Len(args) + 1 /\ Len(args') = Len(args) + 2 /\ Len(args) \in Nat
        /\ args'[Len(args) + 1] = Set /\ args'[Len(args) + 2] = s
    BY <1>1, <1>2, <1>3, PairEffect DEF Types
  <2>10. /\ Closed(args, Open, Set) /\ RightUpTo(Len(args) - 1)
         /\ \A key \in Keys : SaidBy(args, Open, Set, key, config[key])
    BY <2>4, Zenon DEF IInv, ClosedInv, RightInv, SaidInv
  <2>11. SaidInv'
    <3>1. ASSUME NEW key \in Keys PROVE SaidBy(args', Open, Set, key, config'[key])
      <4>1. CASE key = KeyOf(s)
        BY <1>3, <2>3, <2>9, <4>1, SetTakes, OptionFacts, Zenon
      <4>2. CASE key # KeyOf(s)
        BY <1>3, <2>3, <2>9, <2>10, <4>2, SetKeeps, OptionFacts, Zenon
      <4> QED  BY <4>1, <4>2
    <3> QED  BY <3>1, Zenon DEF SaidInv
  <2>12. RightInv'
    <3>1. \A i \in 1 .. Len(p) - 1 : RightAt(p, Open, Set, i)
      BY <1>3, <2>9, <2>10, FlagRight, Zenon DEF RightUpTo
    <3>2. \A i \in 1 .. Len(p) - 1 : RightAt(args', Open, Set, i)
      <4> HIDE DEF p
      <4> QED  BY <1>3, <2>9, <3>1, AppendRight, Zenon
    <3>3. RightAt(args', Open, Set, Len(args) + 1)
      <4>1. args'[Len(args) + 1 + 1] = s
        BY <2>9
      <4> QED  BY <1>6, <2>9, <4>1, OptionFacts, Zenon DEF RightAt
    <3>4. \A i \in 1 .. Len(args') - 1 : i \in 1 .. Len(p) - 1 \/ i = Len(args) + 1
      BY <2>9
    <3>5. RightUpTo(Len(args) - 1)'
      BY <3>2, <3>3, <3>4, Zenon DEF RightUpTo
    <3>6. pc' # "line"
      BY <2>1
    <3> QED  BY <3>5, <3>6, Zenon DEF RightInv
  <2> QED  BY <2>5, <2>6, <2>7, <2>8, <2>11, <2>12 DEF IInv
<1> QED  BY <1>5, <1>6

LEMMA PrintOptionStep == IInv /\ PrintOption => IInv'
<1> SUFFICES ASSUME IInv, PrintOption PROVE IInv'
  OBVIOUS
<1> DEFINE x == "--print-pipeline"
<1>1. /\ pc = "argument" /\ Types /\ ValidInv /\ args' = Append(args, x)
      /\ pc' = pc /\ config' = config /\ line' = line /\ loaded' = loaded
      /\ outcome' = outcome
  BY Zenon DEF PrintOption, Room, Stay, IInv
<1>2. x \in Strings /\ x \notin {Open, Set}
  BY OptionFacts, Zenon
<1> HIDE DEF x
<1>3. outcome' = "none" /\ ~Accepted' /\ Complete' /\ Complete /\ pc' # "line"
  BY <1>1 DEF ValidInv, Accepted, Complete
<1>4. args \in Seq(Strings) /\ args' \in Seq(Strings) /\ args'[Len(args')] = x
  BY <1>1, <1>2, AppendIndex DEF Types
<1>5. /\ Closed(args, Open, Set) /\ RightUpTo(Len(args) - 1)
      /\ \A key \in Keys : SaidBy(args, Open, Set, key, config[key])
  BY <1>3, Zenon DEF IInv, ClosedInv, RightInv, SaidInv
<1>6. Types'
  BY <1>1, <1>4, Zenon DEF Types
<1>7. ValidInv'
  BY <1>1, <1>3, Zenon DEF ValidInv
<1>8. ClosedInv'
  BY <1>2, <1>4, Zenon DEF ClosedInv, Closed
<1>9. LineInv'
  BY <1>3, Zenon DEF LineInv
<1>10. SaidInv'
  BY <1>1, <1>2, <1>4, <1>5, FlagKeeps, Zenon DEF SaidInv
<1>11. RightInv'
  <2>1. \A i \in 1 .. Len(args') - 1 : RightAt(args', Open, Set, i)
    BY <1>1, <1>2, <1>4, <1>5, FlagRight, Zenon DEF RightUpTo
  <2> QED  BY <1>3, <2>1, Zenon DEF RightInv, RightUpTo
<1> QED  BY <1>6, <1>7, <1>8, <1>9, <1>10, <1>11 DEF IInv

LEMMA ReadLineStep == IInv /\ ReadLine => IInv'
<1> SUFFICES ASSUME IInv, ReadLine PROVE IInv'
  OBVIOUS
<1> DEFINE s == Files[file][line]
<1>1. /\ pc = "line" /\ line <= Len(Files[file]) /\ args' = args
      /\ \/ /\ s \in Ignored /\ line' = line + 1 /\ loaded' = loaded
            /\ UNCHANGED <<pc, config, file, outcome>>
         \/ /\ s \notin Ignored /\ ValuesOf(s) # {}
            /\ ApplyAssignment(loaded, s, loaded')
            /\ line' = line + 1
            /\ UNCHANGED <<pc, config, file, outcome>>
         \/ End("error")
  BY DEF ReadLine
<1>2. Types /\ ValidInv /\ ClosedInv /\ LineInv /\ RightInv
  BY Zenon DEF IInv
<1>3. CASE End("error")
  BY <1>1, <1>2, <1>3, EndStep, Zenon DEF Types
<1>4. SUFFICES ASSUME /\ line' = line + 1 /\ pc' = pc /\ config' = config
                      /\ file' = file /\ outcome' = outcome,
                      \/ s \in Ignored /\ loaded' = loaded
                      \/ /\ s \notin Ignored /\ ValuesOf(s) # {}
                         /\ ApplyAssignment(loaded, s, loaded')
               PROVE  IInv'
  BY <1>1, <1>3
<1>5. /\ Len(args) >= 2 /\ args[Len(args) - 1] = Open /\ args[Len(args)] = file
      /\ file \in DOMAIN Files
      /\ \A key \in Keys : FileSaysUpTo(file, line - 1, key, loaded[key])
      /\ \A i \in 1 .. line - 1 :
            Files[file][i] \in Ignored \/ ValuesOf(Files[file][i]) # {}
  BY <1>1, <1>2, Zenon DEF LineInv
<1>6. outcome = "none" /\ ~Accepted /\ ~Complete /\ IsConfig(loaded)
  BY <1>1, <1>2 DEF ValidInv, Accepted, Complete
<1>7. ~Accepted' /\ ~Complete' /\ pc' = "line" /\ outcome' = "none"
  BY <1>1, <1>4, <1>6 DEF Accepted, Complete
<1>8. line \in 1 .. Len(Files[file]) /\ line' - 1 = line /\ line' <= Len(Files[file]) + 1
  BY <1>1, <1>2, <1>4, <1>5, JetcamConfigAssumption DEF Types
<1>9. /\ IsConfig(loaded')
      /\ \A key \in Keys : FileSaysUpTo(file, line, key, loaded'[key])
  <2>1. CASE s \in Ignored /\ loaded' = loaded
    <3>1. s \notin DOMAIN Split \ Ignored
      BY <2>1
    <3> HIDE DEF s
    <3>2. ASSUME NEW key \in Keys PROVE FileSaysUpTo(file, line, key, loaded[key])
      BY <1>5, <1>8, <3>1, FileKeeps, Zenon DEF s
    <3> QED  BY <1>6, <2>1, <3>2, Zenon
  <2>2. CASE s \notin Ignored /\ ApplyAssignment(loaded, s, loaded')
    <3>1. PICK v \in ValuesOf(s) : loaded' = [loaded EXCEPT ![KeyOf(s)] = v]
      BY <2>2, Zenon DEF ApplyAssignment
    <3>2. s \in DOMAIN Split \ Ignored
      BY <2>2, <3>1, ValuesTyped
    <3>3. /\ IsConfig([loaded EXCEPT ![KeyOf(s)] = v])
          /\ [loaded EXCEPT ![KeyOf(s)] = v][KeyOf(s)] = v
          /\ \A key \in Keys :
                key # KeyOf(s) => [loaded EXCEPT ![KeyOf(s)] = v][key] = loaded[key]
      BY <1>6, AssignedIsConfig
    <3>4. /\ IsConfig(loaded') /\ loaded'[KeyOf(s)] = v
          /\ \A key \in Keys : key # KeyOf(s) => loaded'[key] = loaded[key]
      BY <3>1, <3>3, Zenon
    <3>5. ASSUME NEW key \in Keys PROVE FileSaysUpTo(file, line, key, loaded'[key])
      <4>1. CASE key = KeyOf(s)
        BY <1>5, <1>8, <3>1, <3>2, <3>4, <4>1, FileTakes, Zenon
      <4>2. CASE key # KeyOf(s)
        BY <1>5, <1>8, <3>4, <4>2, FileKeeps, Zenon
      <4> QED  BY <4>1, <4>2
    <3> QED  BY <3>4, <3>5
  <2> QED  BY <1>4, <2>1, <2>2, Zenon
<1>10. ASSUME NEW i \in 1 .. line
       PROVE  Files[file][i] \in Ignored \/ ValuesOf(Files[file][i]) # {}
  <2>1. CASE i = line
    BY <1>4, <2>1, Zenon
  <2>2. CASE i # line
    <3>1. i \in 1 .. line - 1
      BY <1>2, <2>2 DEF Types
    <3> QED  BY <1>5, <3>1, Zenon
  <2> QED  BY <2>1, <2>2
<1> HIDE DEF s
<1>11. Types'
  BY <1>1, <1>2, <1>4 DEF Types
<1>12. ValidInv'
  <2>1. IsConfig(config')
    BY <1>2, <1>4, Zenon DEF ValidInv
  <2> QED  BY <1>7, <1>9, <2>1 DEF ValidInv
<1>13. ClosedInv'
  BY <1>1, <1>2, Zenon DEF ClosedInv
<1>14. LineInv'
  BY <1>1, <1>4, <1>5, <1>8, <1>9, <1>10, Zenon DEF LineInv
<1>15. SaidInv'
  BY <1>7, Zenon DEF SaidInv
<1>16. RightInv'
  BY <1>1, <1>2, <1>7, Zenon DEF RightInv, RightUpTo
<1> QED  BY <1>11, <1>12, <1>13, <1>14, <1>15, <1>16 DEF IInv

LEMMA CloseFileStep == IInv /\ CloseFile => IInv'
<1> SUFFICES ASSUME IInv, CloseFile PROVE IInv'
  OBVIOUS
<1>1. /\ pc = "line" /\ line > Len(Files[file]) /\ args' = args
      /\ IF Valid(loaded)
           THEN /\ pc' = "argument" /\ config' = loaded
                /\ file' = file /\ line' = line /\ loaded' = loaded
                /\ outcome' = outcome
           ELSE End("error")
  BY DEF CloseFile, Stay
<1>2. Types /\ ValidInv /\ ClosedInv /\ LineInv /\ RightInv
  BY Zenon DEF IInv
<1>3. CASE ~Valid(loaded)
  BY <1>1, <1>2, <1>3, EndStep, Zenon DEF Types
<1>4. SUFFICES ASSUME Valid(loaded) PROVE IInv'
  BY <1>3
<1>5. /\ pc' = "argument" /\ config' = loaded
      /\ file' = file /\ line' = line /\ loaded' = loaded /\ outcome' = outcome
  BY <1>1, <1>4
<1>6. /\ Len(args) >= 2 /\ args[Len(args) - 1] = Open /\ args[Len(args)] = file
      /\ file \in DOMAIN Files /\ line <= Len(Files[file]) + 1
      /\ \A key \in Keys : FileSaysUpTo(file, line - 1, key, loaded[key])
      /\ \A i \in 1 .. line - 1 :
            Files[file][i] \in Ignored \/ ValuesOf(Files[file][i]) # {}
  BY <1>1, <1>2, Zenon DEF LineInv
<1>7. line - 1 = Len(Files[file])
  BY <1>1, <1>2, <1>6, JetcamConfigAssumption DEF Types
<1>8. outcome = "none" /\ ~Accepted' /\ Complete' /\ pc' # "line" /\ outcome' = "none"
  BY <1>1, <1>2, <1>5 DEF ValidInv, Accepted, Complete
<1>9. Types' /\ ClosedInv' /\ LineInv'
  BY <1>1, <1>2, <1>5, <1>8, Zenon DEF Types, ClosedInv, LineInv
<1>10. ValidInv'
  <2>1. IsConfig(config') /\ IsConfig(loaded')
    BY <1>2, <1>5, Zenon DEF ValidInv
  <2> QED  BY <1>4, <1>5, <1>8, <2>1 DEF ValidInv
<1>11. SaidInv'
  <2>1. ASSUME NEW key \in Keys PROVE SaidBy(args, Open, Set, key, loaded[key])
    <3>1. FileSaysUpTo(args[Len(args)], Len(Files[args[Len(args)]]), key, loaded[key])
      BY <1>6, <1>7, Zenon
    <3> QED  BY <1>2, <1>6, <3>1, FileSaid, Zenon DEF Types
  <2> QED  BY <1>1, <1>5, <2>1, Zenon DEF SaidInv
<1>12. RightInv'
  <2>1. Good(file)
    BY <1>4, <1>6, <1>7, GoodFile, Zenon
  <2>2. RightAt(args, Open, Set, Len(args) - 1)
    <3>1. args[Len(args) - 1 + 1] = file
      BY <1>2, <1>6 DEF Types
    <3> QED  BY <1>6, <2>1, <3>1, OptionFacts, Zenon DEF RightAt
  <2>3. RightUpTo(Len(args) - 2)
    BY <1>1, <1>2, Zenon DEF RightInv
  <2>4. \A i \in 1 .. Len(args) - 1 : i \in 1 .. Len(args) - 2 \/ i = Len(args) - 1
    BY <1>2, <1>6 DEF Types
  <2>5. RightUpTo(Len(args) - 1)
    BY <2>2, <2>3, <2>4, Zenon DEF RightUpTo
  <2> QED  BY <1>1, <1>8, <2>5, Zenon DEF RightInv, RightUpTo
<1> QED  BY <1>9, <1>10, <1>11, <1>12 DEF IInv

LEMMA RefusedStep == IInv /\ (HelpOption \/ WrongArgument) => IInv'
<1> SUFFICES ASSUME IInv, HelpOption \/ WrongArgument PROVE IInv'
  OBVIOUS
<1>1. PICK s \in Strings : args' = Append(args, s)
  <2>1. CASE HelpOption
    BY <2>1, OptionFacts, Zenon DEF HelpOption
  <2>2. CASE WrongArgument
    <3>1. PICK s \in (Arguments \ Options) \cup {Open, Set} : args' = Append(args, s)
      BY <2>2, Zenon DEF WrongArgument, Open, Set
    <3>2. s \in Strings
      BY <3>1, OptionFacts DEF Strings
    <3> QED  BY <3>1, <3>2
  <2> QED  BY <2>1, <2>2
<1>2. args' \in Seq(Strings)
  BY <1>1, AppendIndex DEF IInv, Types
<1>3. End("error") \/ End("help")
  BY Zenon DEF HelpOption, WrongArgument
<1> QED  BY <1>2, <1>3, EndStep, Zenon

(* The last two steps change neither the arguments nor the configuration.  *)
LEMMA AcceptStep == IInv /\ (Validate \/ Announce) => IInv'
<1> SUFFICES ASSUME IInv, Validate \/ Announce PROVE IInv'
  OBVIOUS
<1>1. Types /\ ValidInv /\ ClosedInv /\ SaidInv /\ RightInv
  BY Zenon DEF IInv
<1>2. /\ pc \in {"argument", "print"} /\ args' = args /\ config' = config
      /\ line' = line /\ loaded' = loaded
      /\ \/ pc' = "print" /\ outcome' = outcome /\ Valid(config)
         \/ pc = "print" /\ pc' = "ended" /\ outcome' \in {"printed", "started"}
         \/ End("error")
  BY DEF Validate, Announce, End, Stay
<1>3. CASE End("error")
  BY <1>1, <1>2, <1>3, EndStep, Zenon DEF Types
<1>4. SUFFICES ASSUME ~End("error") PROVE IInv'
  BY <1>3
<1>5. Complete /\ Complete' /\ pc' # "line" /\ Valid(config)
  BY <1>1, <1>2, <1>4 DEF Complete, Accepted, ValidInv
<1>6. Types' /\ ClosedInv' /\ LineInv' /\ SaidInv'
  BY <1>1, <1>2, <1>5, Zenon DEF Types, ClosedInv, LineInv, SaidInv
<1>7. ValidInv'
  <2>1. IsConfig(config') /\ IsConfig(loaded') /\ Valid(config')
    BY <1>1, <1>2, <1>5, Zenon DEF ValidInv
  <2>2. pc' \in {"argument", "line", "print"} => outcome' = "none"
    BY <1>1, <1>2, <1>4 DEF ValidInv
  <2> QED  BY <2>1, <2>2, Zenon DEF ValidInv
<1>8. RightInv'
  BY <1>1, <1>2, <1>5, Zenon DEF RightInv, RightUpTo
<1> QED  BY <1>6, <1>7, <1>8 DEF IInv

LEMMA StutterStep == IInv /\ UNCHANGED vars => IInv'
<1> SUFFICES ASSUME IInv, UNCHANGED vars PROVE IInv'
  OBVIOUS
<1>1. /\ pc' = pc /\ args' = args /\ config' = config /\ file' = file /\ line' = line
      /\ loaded' = loaded /\ outcome' = outcome
  BY Zenon DEF vars
<1>2. (Complete' <=> Complete) /\ (Accepted' <=> Accepted)
  BY <1>1, Zenon DEF Complete, Accepted
<1>3. Types' /\ ClosedInv' /\ LineInv' /\ SaidInv' /\ RightInv'
  BY <1>1, <1>2, Zenon
  DEF IInv, Types, ClosedInv, LineInv, SaidInv, RightInv, RightUpTo
<1>4. ValidInv'
  BY <1>1, <1>2, Zenon DEF IInv, ValidInv
<1> QED  BY <1>3, <1>4 DEF IInv

(* The invariant, for any files, arguments and command lines.              *)
LEMMA ConfigInvariant == Spec => []IInv
<1>1. Init => IInv
  <2> SUFFICES ASSUME Init PROVE IInv
    OBVIOUS
  <2>1. /\ pc = "argument" /\ args = <<>> /\ config = Default /\ loaded = Default
        /\ line = 1 /\ outcome = "none"
    BY Zenon DEF Init
  <2>2. Types
    BY <2>1 DEF Types
  <2>3. ValidInv
    BY <2>1, DefaultIsConfig DEF ValidInv, Accepted
  <2>4. ClosedInv
    BY <2>1, Zenon DEF ClosedInv, Closed
  <2>5. pc # "line"
    BY <2>1
  <2>6. LineInv
    BY <2>5, Zenon DEF LineInv
  <2>7. SaidInv
    <3>1. Positions(<<>>, Open) = {}
      BY DEF Positions
    <3>2. ASSUME NEW key PROVE Assigns(<<>>, Set, Positions(<<>>, Open), key) = {}
      BY DEF Assigns
    <3>3. ASSUME NEW key \in Keys PROVE SaidBy(args, Open, Set, key, config[key])
      BY <2>1, <3>1, <3>2, Zenon DEF SaidBy, SaidIn
    <3> QED  BY <3>3, Zenon DEF SaidInv
  <2>8. RightInv
    <3>1. 1 .. Len(<<>>) - 1 = {}
      OBVIOUS
    <3> QED  BY <2>1, <2>5, <3>1, Zenon DEF RightInv, RightUpTo
  <2> QED  BY <2>2, <2>3, <2>4, <2>6, <2>7, <2>8 DEF IInv
<1>2. IInv /\ [Next]_vars => IInv'
  BY ConfigOptionStep, SetOptionStep, PrintOptionStep, RefusedStep, ReadLineStep,
     CloseFileStep, AcceptStep, StutterStep, Zenon
  DEF Next, Step, Finished
<1> QED  BY <1>1, <1>2, PTL DEF Spec

(* The camera is opened, and a pipeline shown, for a valid configuration   *)
(* whose values are all in the ranges of their keys.                       *)
THEOREM AcceptedIsValidHolds == Spec => []AcceptedIsValid
<1>1. IInv => AcceptedIsValid
  BY Zenon DEF IInv, ValidInv, AcceptedIsValid
<1> QED  BY <1>1, ConfigInvariant, PTL

(* Of the assignments to a key the last one behind the last file counts,   *)
(* else that file's last line for it, else the default.                    *)
THEOREM LastWinsHolds == Spec => []LastWins
<1>1. IInv => LastWins
  <2> SUFFICES ASSUME IInv, Accepted, NEW key \in Keys
               PROVE  config[key] \in Says(key)
    BY Zenon DEF LastWins
  <2> DEFINE F == Positions(args, Open)
             A == Assigns(args, Set, F, key)
             v == config[key]
  <2>1. F = FileOptions /\ A = SetOptions(key)
    BY Zenon DEF Positions, Assigns, FileOptions, SetOptions, Open, Set
  <2>2. SaidIn(args, F, A, key, v)
    BY Zenon DEF IInv, SaidInv, Complete, SaidBy
  <2>3. F \subseteq Int /\ A \subseteq Int
    BY DEF Positions, Assigns
  <2>4. ASSUME NEW m \in A, LastOf(A, m), v \in ValuesOf(args[m + 1])
        PROVE  v \in Says(key)
    <3>1. Max(A) = m
      BY <2>3, <2>4, MaxIsLast
    <3>2. A # {}
      OBVIOUS
    <3> QED  BY <2>1, <2>4, <3>1, <3>2, Zenon DEF Says
  <2>5. ASSUME A = {}, NEW f \in F, LastOf(F, f),
               FileSaysUpTo(args[f + 1], Len(Files[args[f + 1]]), key, v)
        PROVE  v \in Says(key)
    <3>1. Max(F) = f
      BY <2>3, <2>5, MaxIsLast
    <3>2. F # {}
      OBVIOUS
    <3>3. v \in FileSays(args[f + 1], key)
      BY <2>5, FileSaysIt
    <3> QED  BY <2>1, <2>5, <3>1, <3>2, <3>3, Zenon DEF Says
  <2>6. CASE A = {} /\ F = {} /\ v = Default[key]
    BY <2>1, <2>6, Zenon DEF Says
  <2> QED  BY <2>2, <2>4, <2>5, <2>6, Zenon DEF SaidIn
<1> QED  BY <1>1, ConfigInvariant, PTL

(* Nothing wrong on an accepted command line is made up for by what        *)
(* follows it.                                                             *)
THEOREM NothingWrongIgnoredHolds == Spec => []NothingWrongIgnored
<1>1. IInv => NothingWrongIgnored
  BY Zenon
  DEF IInv, RightInv, RightUpTo, RightAt, Complete, Open, Set, NothingWrongIgnored
<1> QED  BY <1>1, ConfigInvariant, PTL
=============================================================================
