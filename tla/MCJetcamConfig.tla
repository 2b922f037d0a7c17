--------------------------- MODULE MCJetcamConfig ---------------------------
(* Files and arguments for JetcamConfig: both modes, files that are complete *)
(* and one that is not, a directory, and values at and beyond the ends of    *)
(* their ranges.                                                             *)
EXTENDS JetcamConfig, TLC

Assign(key, value) == [key |-> Word(key), value |-> value]
Padded(key, value) == [key |-> Text(TRUE, key, 0), value |-> Text(TRUE, value.word, value.n)]

MCSplit ==
    ("width=1920" :> Assign("width", Number(1920))) @@
    ("height=1080" :> Assign("height", Number(1080))) @@
    ("framerate=30" :> Assign("framerate", Number(30))) @@
    (" gop = 15 " :> Padded("gop", Number(15))) @@
    ("gop=10000" :> Assign("gop", Number(10000))) @@
    ("gop=10001" :> Assign("gop", Number(10001))) @@
    ("port=0" :> Assign("port", Number(0))) @@
    ("rtsp_port=65535" :> Assign("rtsp_port", Number(65535))) @@
    ("sensor_id=1x" :> Assign("sensor_id", Text(FALSE, "number tail", 1))) @@
    ("host=a b" :> Assign("host", Word("a blank b"))) @@
    ("host=1x" :> Assign("host", Text(FALSE, "number tail", 1))) @@
    ("host=token" :> Assign("host", Word("token"))) @@
    ("rtsp_mount=/" :> Assign("rtsp_mount", Word("/"))) @@
    ("snapshot_file=" :> Assign("snapshot_file", Word(""))) @@
    ("output= rtsp" :> [key |-> Word("output"), value |-> Text(TRUE, "rtsp", 0)]) @@
    ("snapshot_on_start=YES" :> Assign("snapshot_on_start", Word("yes"))) @@
    ("codec=h265" :> Assign("codec", Word("h265"))) @@
    ("#gop=1" :> Assign("#gop", Number(1)))

MCIgnored == {"", "# jetcamd", "#gop=1"}

MCFiles ==
    ("hd.conf" :> <<"# jetcamd", "width=1920", "gop=10000", "height=1080", "",
                    "framerate=30", " gop = 15 ", "#gop=1">>) @@
    ("rtsp.conf" :> <<"output= rtsp", "snapshot_on_start=YES", "rtsp_port=65535">>) @@
    ("half.conf" :> <<"width=1920", "height=1080">>) @@
    ("bad.conf" :> <<"gop=10000", "gop">>) @@
    ("range.conf" :> <<"gop=10001">>) @@
    ("directory" :> <<>>)

MCArguments ==
    (DOMAIN MCSplit \ {"#gop=1", "snapshot_on_start=YES"}) \cup DOMAIN MCFiles
        \cup {"none.conf", "--help"}
=============================================================================
