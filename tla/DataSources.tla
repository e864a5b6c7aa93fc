---------------------------- MODULE DataSources ----------------------------
(***************************************************************************)
(* The two data sources behind dataSource(), of which a visit uses one:    *)
(* agents whose addresses are known, or the sample data.                   *)
(***************************************************************************)
EXTENDS Fleet, SampleData

VARIABLE mode   \* the data source of the visit

\* The source is not switched while calls are under way. No agent is asked while
\* no address is known (getDataSourceMode; Ask); to the sample data it is all one
\* which agents there are, so of its visits those without any stand for all.
SourceInit ==
  /\ Init /\ SampleInit
  /\ mode \in {"api", "mock"}
  /\ mode = "mock" => global = NoAgent /\ stored = <<>>

\* dataSource().
SourceNext ==
  \/ mode = "api" /\ Next /\ UNCHANGED <<mode, sample>>
  \/ mode = "mock" /\ SampleNext /\ UNCHANGED <<mode, vars>>

SourceSpec     == SourceInit /\ [][SourceNext]_<<mode, vars, sample>>
SourceFairSpec == SourceSpec /\ Fairness

-----------------------------------------------------------------------------
\* The card of a sample server and its panels, which are built apart, say the
\* same in every tab (buildServer, and snapshotToServer of buildSnapshot); its
\* processes are sorted by load and have a pid each; its charts end now. The
\* fixtures do not depend on the state: they are looked at before the first call.
SampleAgrees == mode = "mock" => (asked[1].op = "none" => FixturesAgree) /\ CardsAgree
=============================================================================
