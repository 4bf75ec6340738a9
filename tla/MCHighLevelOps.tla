--------------------------- MODULE MCHighLevelOps ---------------------------
(* Instances of HighLevelOps: one caller makes any call, another only sends  *)
(* from or receives into bytevectors, which is where callers can meet.       *)
EXTENDS HighLevelOps, TLC

CONSTANTS c1, c2, a1, a2

AnyCall == (c1 :> Prog) @@ (c2 :> {"send", "receive"})
OnlyOutput == c1 :> {"output"}
OnlyWriteFile == c1 :> {"write_file"}
=============================================================================
