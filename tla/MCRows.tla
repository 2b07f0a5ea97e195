------------------------------- MODULE MCRows -------------------------------
(* Two models of rows, in one run: those of the database through its         *)
(* migrations, and those of the message lists of a tab.  They share no       *)
(* state: a behaviour is one of SchemaMigrations or one of WebStore, as part *)
(* says from the start, while the other stands still.  The functions of      *)
(* Retention are evaluated as well.                                          *)
(*                                                                           *)
(* Two processes, and builds of three releases: before the migrations that   *)
(* move rows, between them, and the latest.  Two messages received and one   *)
(* the user sends.                                                           *)
EXTENDS SchemaMigrations, WebStore, MCRetention, TLC

Symmetry   == Permutations(Processes)
MCBuilds   == {4, 11, 18}
MCMessages == 1..3
MCSends    == {2}

VARIABLE part
all == <<part, vars, webVars>>

RowsInit == part \in {"database", "tab"} /\ Init /\ WebInit

RowsNext ==
  \/ part = "database" /\ Next /\ UNCHANGED <<part, webVars>>
  \/ part = "tab" /\ WebNext /\ UNCHANGED <<part, vars>>

RowsSpec == RowsInit /\ [][RowsNext]_all
=============================================================================
