---------------------------- MODULE CaptureFile ----------------------------
(***************************************************************************)
(* What the capture promises its reader: one endless file of lines.        *)
(*                                                                         *)
(* A line is a number and lines are written in increasing order; stable is *)
(* the part that has left the buffers of the process.  A line is added     *)
(* behind the others, stable only grows, and a crash cuts lines off the    *)
(* end that were not stable.  CaptureJournal implements this file with a   *)
(* chain of numbered files; cap and flushed of BinlogCapture are such a    *)
(* file.                                                                   *)
(***************************************************************************)
EXTENDS Naturals

VARIABLES lines, stable

vars == <<lines, stable>>

(* Every number of S lies before every number of T.                        *)
Precedes(S, T) == \A m \in S, n \in T : m < n

Init == lines = {} /\ stable = {}

(* stable may grow with any step, by lines from the front.                 *)
Settle ==
  /\ stable \subseteq stable'
  /\ stable' \subseteq lines'
  /\ Precedes(stable', lines' \ stable')

AppendLine ==
  /\ \E n \in lines' : lines' = lines \cup {n} /\ Precedes(lines, {n})
  /\ Settle

Flush == lines' = lines /\ Settle

Crash ==
  /\ lines' \subseteq lines
  /\ Precedes(lines', lines \ lines')
  /\ Settle

Next == AppendLine \/ Flush \/ Crash

Spec == Init /\ [][Next]_vars

=============================================================================
