------------------------ MODULE MCMeasurementMatrix -------------------------
(***************************************************************************)
(* Instance of MeasurementMatrix: a directory of every family of scripts.  *)
(***************************************************************************)
EXTENDS MeasurementMatrix

Point(backend, work, level, rank) == [backend |-> backend, work |-> work, level |-> level, rank |-> rank]
MCPointTable ==
  [l1 |-> Point("llm-d", "long", 1, 1), l4 |-> Point("llm-d", "long", 4, 2),
   d1 |-> Point("dynamo", "long", 1, 3), d4 |-> Point("dynamo", "long", 4, 4),
   c1 |-> Point("api", "chat", 1, 5), c4 |-> Point("api", "chat", 4, 6),
   t1 |-> Point("api", "tool", 1, 7), t4 |-> Point("api", "tool", 4, 8)]
MCPrimary == {"chat", "tool"}
MCFigures == {[total |-> 2, user |-> 1, late |-> FALSE], [total |-> 2, user |-> 2, late |-> TRUE]}

Setting(script, arm, minimum, waves, backends, work, levels) ==
  [script |-> script, arm |-> arm, minimum |-> minimum, waves |-> waves,
   backends |-> backends, work |-> work, levels |-> levels]
Both == {"llm-d", "dynamo"}

MCSettingTable ==
  [config   |-> Setting("aiperf", "A", 4, 2, Both, {"long"}, {4}),
   edited   |-> Setting("aiperf", "B", 4, 2, {"llm-d"}, {"long"}, {4}),
   arms     |-> Setting("qwen3", "A", 4, 2, Both, {"long"}, {1, 4}),
   suite    |-> Setting("public", "A", 3, 0, {"api"}, MCPrimary, {1, 4}),
   lenient  |-> Setting("public", "B", 2, 0, {"api"}, {"chat"}, {4}),
   ladder   |-> Setting("sweep", "A", 20, 10, Both, {"long"}, {4}),
   prefill  |-> Setting("islosl", "A", 4, 1, Both, {"long"}, {4}),
   first    |-> Setting("pareto1", "A", 3, 2, {"llm-d"}, {"long"}, {1, 4}),
   second   |-> Setting("pareto2", "B", 2, 1, {"llm-d"}, {"long"}, {1, 4}),
   uniform  |-> Setting("baseline", "A", 0, 1, {"llm-d"}, {"long"}, {1, 4}),
   exact    |-> Setting("exact", "B", 0, 1, {"llm-d"}, {"long"}, {1, 4}),
   hetero   |-> Setting("hetero", "C", 0, 1, {"llm-d"}, {"long"}, {1, 4}),
   pod      |-> Setting("pod", "A", 5, 3, {"llm-d"}, {"long"}, {1, 4}),
   llmd     |-> Setting("llmd", "A", 5, 3, {"llm-d"}, {"long"}, {1, 4}),
   nemotron |-> Setting("nemotron", "A", 20, 0, {"llm-d"}, {"long"}, {1, 4}),
   variant  |-> Setting("variant", "A", 9, 0, {"llm-d"}, {"long"}, {1})]

MCFamilies == {{"config", "edited"}, {"arms"}, {"suite", "lenient"}, {"ladder"},
               {"prefill"}, {"first", "second"}, {"uniform"}, {"exact"}, {"hetero"},
               {"pod"}, {"llmd"}, {"nemotron"}, {"variant"}}

\* TLC evaluates a definition the .cfg names at every use, and what that names once.
PointTableDef == MCPointTable
PrimaryDef == MCPrimary
FiguresDef == MCFigures
SettingTableDef == MCSettingTable
FamiliesDef == MCFamilies
=============================================================================
