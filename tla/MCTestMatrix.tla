---------------------------- MODULE MCTestMatrix ----------------------------
(* Instance of TestMatrix: one job per lane of phase A, techniques that share *)
(* a pod with a job of phase A or a remaining one, one production pod.       *)
EXTENDS TestMatrix

J(pod, node, technique, set) == [pod |-> pod, node |-> node, technique |-> technique, set |-> set]

MCJobs == [v  |-> J("vllm", "spark-01", "baseline", "random"),
           vk |-> J("vllm", "spark-01", "kv-fp8", "random"),
           vs |-> J("sglang1", "spark-01", "kv-fp8", "sharegpt"),
           s  |-> J("sglang", "spark-02", "baseline", "random"),
           sk |-> J("sglang", "spark-02", "kv-fp8", "random"),
           t1 |-> J("trtllm1", "spark-01", "baseline", "random"),
           s1 |-> J("sglang1", "spark-01", "baseline", "random")]
MCFileFlags == [p \in BenchPods |-> "baseline"]
MCFirst == <<"v">>
MCSecond == <<"s">>
MCSweep == [n \in Nodes |-> IF n = "spark-01" THEN <<"vk">> ELSE <<"sk">>]
MCShare == [n \in Nodes |-> IF n = "spark-01" THEN <<"vs">> ELSE <<>>]
MCRemaining == <<"t1", "s1">>
MCLevels == [random |-> {1}, sharegpt |-> {1, 8}]
=============================================================================
