-------------------------------- MODULE Pipe --------------------------------
(***************************************************************************)
(* What the client promises of each of its two streams, the commands on    *)
(* their way to the broker and the broker's messages on their way to the   *)
(* user: the items, numbered as they enter, come out in that order, each   *)
(* once and none left out, until the connection ends.  Items inside are    *)
(* lost when it ends.                                                      *)
(***************************************************************************)
EXTENDS Naturals

VARIABLES
  entered,         \* the number of the last item that entered
  left             \* the number of the last item that came out

pipeVars == <<entered, left>>

PipeInit ==
  /\ entered = 0
  /\ left = 0

Enter ==
  /\ entered' = entered + 1
  /\ UNCHANGED left

Leave ==
  /\ left < entered
  /\ left' = left + 1
  /\ UNCHANGED entered

PipeSpec == PipeInit /\ [][Enter \/ Leave]_pipeVars
=============================================================================
