--------------------------- MODULE CaptureService ---------------------------
(***************************************************************************)
(* What the capture promises: the events of the binlogs at least once, in  *)
(* the order of the binlogs, and none left out but for one each time the   *)
(* capture is cut off.                                                     *)
(*                                                                         *)
(* published are the events the server has logged since the capture was    *)
(* created, captured those that can be read in the capture, confirmed      *)
(* those a restarted capture will not read again, and cut those that were  *)
(* confirmed and not captured when the capture was cut off.  Confirmation  *)
(* may fall back (events are then captured once more); it runs ahead of    *)
(* the capture by one event at most, and never leaves a gap.               *)
(***************************************************************************)
EXTENDS Naturals

VARIABLES published, captured, confirmed, cut

vars == <<published, captured, confirmed, cut>>

(* The order of the binlogs: by file, then by place in the file.           *)
Earlier(d, e) == d[1] < e[1] \/ (d[1] = e[1] /\ d[2] < e[2])

(* A set of events with everything that was published before them.         *)
Gapless(S) ==
  S \subseteq published /\
  \A e \in S, d \in published : Earlier(d, e) => d \in S

Init == published = {} /\ captured = {} /\ confirmed = {} /\ cut = {}

(* The server logs a group of events behind those it has logged.           *)
Publish ==
  /\ published \subseteq published'
  /\ \A d \in published, e \in published' \ published : Earlier(d, e)
  /\ UNCHANGED <<captured, confirmed, cut>>

(* An event is captured when no event before it is still to come.          *)
Capture ==
  /\ \E e \in published : captured' = captured \cup {e}
  /\ Gapless(captured' \cup cut)
  /\ UNCHANGED <<published, confirmed, cut>>

(* What is confirmed is captured, was cut off, or is the one event to be   *)
(* captured next.                                                          *)
Confirm ==
  /\ Gapless(confirmed')
  /\ \A d, e \in confirmed' \ (captured \cup cut) : d = e
  /\ UNCHANGED <<published, captured, cut>>

(* The capture ends and is taken up again behind what is confirmed.        *)
CutOff ==
  /\ cut' = cut \cup (confirmed \ captured)
  /\ UNCHANGED <<published, captured, confirmed>>

Next == Publish \/ Capture \/ Confirm \/ CutOff

Spec == Init /\ [][Next]_vars

=============================================================================
