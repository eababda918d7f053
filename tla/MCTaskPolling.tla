--------------------------- MODULE MCTaskPolling ---------------------------
(* Instances of TaskPolling for TLC. *)
EXTENDS TaskPolling, TLC

CONSTANTS p1, p2

AllVideo == [t \in Tasks |-> "video"]
AllGemini == [t \in Tasks |-> "gemini"]
OneOfEach == [t \in Tasks |-> CASE t = 1 -> "suno" [] t = 2 -> "gemini"
                                  [] OTHER -> "video"]

PollersAlike == Permutations({p1, p2})
=============================================================================
