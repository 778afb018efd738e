------------------------- MODULE MCMessageAnalysis -------------------------
(* Constant values for the runs of MessageAnalysis. *)
EXTENDS MessageAnalysis, TLC

CONSTANT MaxChars \* up to this length, every message

\* And some longer ones, for the thresholds on characters and bytes.
MCContents ==
    BoundedSeq(Chars, MaxChars)
    \cup UNION {[1..n -> {"o", "hira_o"}] : n \in MaxChars + 1..MaxChars + 2}

\* The sample configuration's, and those of an operator who wants another sequence.
MCDefaultPatterns == <<<<"hira_o", "hira_o">>, <<"kata_o", "kata_o">>, <<"o", "o">>>>
MCOtherPatterns == <<<<"x", "x">>>>
=============================================================================
