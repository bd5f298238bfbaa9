---------------------------- MODULE MCFlowLink ----------------------------
(* Instances of FlowLink for TLC: the target infos there can be.           *)
EXTENDS FlowLink

MCInfos   == [inc : 1..MaxInc, state : {"partial", "full"}]
MCAnswers == 0..(MaxIds + MaxFaults + 1)
=============================================================================
