--------------------------- MODULE MCBinlogCapture ---------------------------
(***************************************************************************)
(* Instances of the capture pipeline for TLC.                              *)
(***************************************************************************)
EXTENDS BinlogCaptureInv

(* A row transaction and a stand-alone statement (DDL).                    *)
RowTransaction == <<"begin", "rows", "xid">>
Statement == <<"begin", "query">>
(* Rows of a non-transactional table: the group ends with a COMMIT query.  *)
TableTransaction == <<"begin", "rows", "query">>
(* A row transaction in which a savepoint is logged.                       *)
SavepointTransaction == <<"begin", "query", "rows", "xid">>

PlainGroups == {RowTransaction, Statement}
RowGroups == {RowTransaction, TableTransaction}
StatementGroups == {Statement}
XidGroups == {RowTransaction}
SavepointGroups == {SavepointTransaction}

(* The hypotheses the theorems make on Groups hold of the groups above     *)
(* without a savepoint (GroupsDelimited and GroupsClosed).                 *)
ASSUME InstanceGroups ==
  \A g \in PlainGroups \cup RowGroups \cup StatementGroups :
    Delimited(g) /\ Closed(g)

=============================================================================
