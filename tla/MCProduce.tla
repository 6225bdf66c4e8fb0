------------------------------ MODULE MCProduce ------------------------------
(* Three calls through the batcher, or fewer of them beside keyed calls and  *)
(* a transaction of the caller's.                                            *)
EXTENDS Produce, TLC

CONSTANTS o1, o2, o3, c1, c2, t1

Good(S) == [c \in S |-> "good"]

MCScenarios ==
    {[Good({o1, o2, o3}) EXCEPT ![o2] = "rejected", ![o3] = "unencodable"],
     [Good({o1, o2, o3}) EXCEPT ![o2] = "rejected"],
     Good({o1, o2, o3}), Good({o1, o2, c1}), Good({o1, c1, t1}), Good({c1, c2, t1})}

(* Workers are told apart by nothing but their names.                        *)
WorkerSymmetry == Permutations(Worker)
=============================================================================
