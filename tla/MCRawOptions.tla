---------------------------- MODULE MCRawOptions ----------------------------
(* Values for RawOptions: integers at the ends of the ranges, with a sign,  *)
(* with blanks and with a tail; decimals around the smallest rate.          *)
EXTENDS RawOptions, TLC

Integer(n) == [blank |-> FALSE, minus |-> FALSE, whole |-> n, part |-> 0,
               integer |-> TRUE, tail |-> FALSE]
Decimal(n, part) == [Integer(n) EXCEPT !.part = part, !.integer = FALSE]

MCNumeral ==
    ("0" :> Integer(0)) @@ ("2" :> Integer(2)) @@ ("33" :> Integer(33)) @@
    ("65537" :> Integer(65537)) @@ ("65538" :> Integer(65538)) @@
    ("131072" :> Integer(131072)) @@
    ("-1" :> [Integer(1) EXCEPT !.minus = TRUE]) @@
    (" -131070" :> [Integer(131070) EXCEPT !.blank = TRUE, !.minus = TRUE]) @@
    ("7ms" :> [Integer(7) EXCEPT !.tail = TRUE]) @@
    ("29.97" :> Decimal(29, 9700)) @@ ("0.0004" :> Decimal(0, 4))

MCTexts ==
    [device |-> {"/dev/video1"}, width |-> {"0", "33", " -131070"},
     height |-> {"33", "65537", "7ms"}, pixelFormat |-> {"none", "7ms"},
     fps |-> {"0", "0.0004", "29.97", "131072"}, frames |-> {"0", "2", "-1", ""},
     duration |-> {"0", "29.97", "-1"}, timeoutMs |-> {"0", "2", "65537"},
     buffers |-> {"2", "33", "65538"}, sensorMode |-> {"none", "0", "131072", "29.97"},
     saveFrame |-> {"", "none"}, saveAt |-> {"0", "2", "33", "131072"},
     reportInterval |-> {"0", "33"}]
MCFourccs == {"none", "RG10"}
=============================================================================
