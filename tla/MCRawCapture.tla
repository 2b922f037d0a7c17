---------------------------- MODULE MCRawCapture ----------------------------
(***************************************************************************)
(* Small instances of RawCapture.  The command lines are chosen so that    *)
(* every option meets the limits that matter to it: a save on the first    *)
(* frame, on the last one, and with only a deadline to end the run.        *)
(***************************************************************************)
EXTENDS RawCapture

Plain == [list |-> FALSE, mode |-> FALSE, timed |-> FALSE,
          allowDrops |-> FALSE, frames |-> 0, saveAt |-> 0]

MCCommandLines ==
    { [Plain EXCEPT !.list = TRUE],
      [Plain EXCEPT !.mode = TRUE, !.frames = 2, !.saveAt = 1],
      [Plain EXCEPT !.frames = 2, !.saveAt = 2],
      [Plain EXCEPT !.timed = TRUE, !.saveAt = 2],
      [Plain EXCEPT !.timed = TRUE, !.frames = 2, !.allowDrops = TRUE] }

\* runs that only a signal, the deadline or the poll timeout can end
MCEndless == { Plain, [Plain EXCEPT !.timed = TRUE, !.saveAt = 1] }

MCOneFrame == { [Plain EXCEPT !.frames = 1] }
=============================================================================
