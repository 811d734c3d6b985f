------------------------------ MODULE MCShell ------------------------------
(***************************************************************************)
(* The frame and the NOC, for TLC.                                         *)
(***************************************************************************)
EXTENDS Shell, TLC

\* The tables of the migrations, as far as the stream is concerned.
Migrated == {"alerting.alert", "monitoring.monitoring_source"}

AsMigrated == {Migrated}

\* With the table the stream asks for as well.
AsExpected == {Migrated \cup {"monitoring.source"}}

\* A member of every tenant; a membership may be lost to a grant later on.
Members == {[t \in Tenants |-> "member"]}

\* A count that is answered for the wrong tenant matters when its own tenant
\* is chosen again.
ThereAndBack == [count |-> 2, noc |-> 1]

NoSwitch == [count |-> 0, noc |-> 0]
=============================================================================
