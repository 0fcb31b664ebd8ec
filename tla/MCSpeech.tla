------------------------------ MODULE MCSpeech ------------------------------
(***************************************************************************)
(* SpeechOutput for TLC: two replies of the coordinator, a long and a      *)
(* short one, and two texts of mischief, whose loop is shared.             *)
(***************************************************************************)
EXTENDS SpeechOutput

MCReplies == {"long", "short"}
MCMischief == {"tease", "dare"}
MCChunks == [t \in MCReplies \cup MCMischief |-> IF t = "long" THEN 4 ELSE 1]
MCFaulty == {"long", "short"}
MCUnplayable == {"long", "short"}
=============================================================================
