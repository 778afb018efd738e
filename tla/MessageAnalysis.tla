-------------------------- MODULE MessageAnalysis --------------------------
(***************************************************************************)
(* How one message becomes an action: the detector counts it              *)
(* (src/domain/detector.rs), the sandboxed guest counts it again, byte by  *)
(* byte and under a fuel limit, and makes a proposal                       *)
(* (src/sandbox/host.rs), the proposal crosses the wire                    *)
(* (src/sandbox/abi.rs), and ResponseCompiler turns it into an action.     *)
(* src/app/analyze_message.rs is the same decision without the sandbox,    *)
(* which the replay harness holds the governed one to.                     *)
(*                                                                         *)
(* Characters are members of the six classes below; the tokens that the    *)
(* morphological dictionary matches, the special phrase, and whether the   *)
(* text has a bidi control or doubles under NFKC are inputs.  Fuel is      *)
(* counted in passes of the guest's loop.                                  *)
(***************************************************************************)
EXTENDS ResponseCompiler, SequencesExt

CONSTANTS Contents,          \* the messages: sequences of characters
          TokenHits,         \* how many tokens may match a target reading
          Patterns,          \* detector.literal_sequence_patterns
          SoftChars, HardChars, MaxRepetition, \* the thresholds of suspicion
          MemoryLimit,       \* sandbox.memory_limit_bytes
          ExtremeBytes,      \* 32768: the guest refuses longer messages
          MaxStamps,         \* 255: the guest proposes no more stamps
          FuelLimit,         \* sandbox.fuel_limit
          FittingStamps      \* how many stamps fit in max_send_chars

Chars == {"o", "O", "x", "hira_o", "kata_o", "hira_a"}

ASSUME MessageAnalysisAssumption ==
    /\ Contents \subseteq Seq(Chars)
    /\ TokenHits \subseteq Nat
    /\ Patterns \in Seq(Seq(Chars))
    /\ {SoftChars, HardChars, MemoryLimit, ExtremeBytes, FuelLimit, FittingStamps} \subseteq Nat
    /\ {MaxRepetition, MaxStamps} \subseteq Nat \ {0}

VARIABLES content, tokenHits, phraseHit, odd, \* the message and what the dictionary says of it
          suspicion,                          \* what classify_suspicious_input made of it
          i, count, fuel,                     \* locals of the guest
          reply                               \* what the analyzer, or the core for it, answered

analysisVars == <<content, tokenHits, phraseHit, odd, suspicion, i, count, fuel, reply>>
message == <<content, tokenHits, phraseHit, odd>>

-----------------------------------------------------------------------------
\* UTF-8
Utf8 == [o |-> <<111>>, O |-> <<79>>, x |-> <<120>>,
         hira_o |-> <<227, 129, 138>>, kata_o |-> <<227, 130, 170>>, hira_a |-> <<227, 129, 130>>]

Bytes(text) == FlattenSeq([p \in DOMAIN text |-> Utf8[text[p]]])

LowerCase(text) == [p \in DOMAIN text |-> IF text[p] = "O" THEN "o" ELSE text[p]]

\* What str::find finds, each match after the end of the one before.
MatchesIn(hay, needle) ==
    LET from[p \in 1..Len(hay) + Len(needle)] ==
            IF p > Len(hay) THEN 0
            ELSE IF IsPrefix(needle, SubSeq(hay, p, Len(hay)))
                 THEN 1 + from[p + Len(needle)]
                 ELSE from[p + 1]
    IN  from[1]

\* count_non_overlapping: patterns of ASCII characters are found in either case.
CountNonOverlapping(text, pattern) ==
    IF ToSet(pattern) \subseteq {"o", "O", "x"}
    THEN MatchesIn(LowerCase(text), LowerCase(pattern)) ELSE MatchesIn(text, pattern)

\* count_literal_patterns
SequenceHits(text) ==
    LET hits[n \in 0..Len(Patterns)] ==
            IF n = 0 THEN 0
            ELSE IF Patterns[n] = <<>> THEN hits[n - 1]
            ELSE hits[n - 1] + CountNonOverlapping(text, Patterns[n])
    IN  hits[Len(Patterns)]

\* DetectionReport::total_count
Total(text, tokens) == SequenceHits(text) + tokens

\* count_oo_sequences
SameO(a, b) == <<a, b>> \in {<<"hira_o", "hira_o">>, <<"kata_o", "kata_o">>} \cup {"o", "O"} \X {"o", "O"}

OoSequences(text) ==
    LET from[p \in 1..Len(text) + 1] ==
            IF p >= Len(text) THEN 0
            ELSE IF SameO(text[p], text[p + 1]) THEN 1 + from[p + 2] ELSE from[p + 1]
    IN  from[1]

\* classify_suspicious_input
Repetitive(text) ==
    \E p \in 1..Len(text) :
        /\ p + MaxRepetition - 1 <= Len(text)
        /\ \A q \in p..p + MaxRepetition - 1 : text[q] = text[p]

Suspicion(text, isOdd) ==
    CASE Len(text) >= HardChars -> "Hard"
      [] Len(text) < HardChars /\ (Len(text) >= SoftChars \/ isOdd \/ Repetitive(text)) -> "Soft"
      [] OTHER -> "None"

-----------------------------------------------------------------------------
\* ActionProposal::decode_wire: the wire is kind * 2^32 + aux, here the pair of the two.
Kinds == <<"Noop", "ReactOnce", "SendStamped", "SpecialPhrase", "SuspiciousInput", "Defer", "Reject">>

DecodeWire(kind, aux) ==
    [kind |-> Kinds[kind + 1],
     count |-> IF kind = 2 THEN AtMost(AtLeast(aux, 1), MaxStamps) ELSE 0]

\* Before the core has looked at the message, and while the guest counts.
Received == [kind |-> "received", count |-> 0]
Running == [kind |-> "running", count |-> 0]
Answered(answer) == answer \notin {Received, Running}

Failed(error) == [kind |-> error, count |-> 0]
Failures == {Failed("Timeout"), Failed("ResourceLimit")}

\* An analyzer error becomes the proposal Defer.
ProposalOf(answer) == IF answer \in Failures THEN DecodeWire(5, 0) ELSE answer

AnalysisInit ==
    /\ content \in Contents
    /\ tokenHits \in TokenHits
    /\ phraseHit \in BOOLEAN
    /\ odd \in BOOLEAN
    /\ suspicion = "None"
    /\ i = 0 /\ count = 0 /\ fuel = 0
    /\ reply = Received

\* The core answers for the analyzer when the input is too suspicious.
RefuseSuspicious ==
    /\ reply = Received
    /\ Suspicion(content, odd) = "Hard"
    /\ suspicion' = "Hard"
    /\ reply' = DecodeWire(4, 0)
    /\ UNCHANGED <<message, i, count, fuel>>

\* A fresh store and instance for every message, with the whole of the fuel.
CallGuest ==
    /\ reply = Received
    /\ Suspicion(content, odd) # "Hard"
    /\ suspicion' = Suspicion(content, odd)
    /\ IF Len(Bytes(content)) > MemoryLimit
       THEN reply' = Failed("ResourceLimit") /\ UNCHANGED fuel
       ELSE IF Len(Bytes(content)) > ExtremeBytes
       THEN reply' = DecodeWire(4, 0) /\ UNCHANGED fuel
       ELSE fuel' = FuelLimit /\ reply' = Running
    /\ UNCHANGED <<message, i, count>>

\* The guest's memory, zero beyond the message.
Byte(addr) == LET bytes == Bytes(content) IN IF addr < Len(bytes) THEN bytes[addr + 1] ELSE 0

AsciiO(byte) == byte \in {111, 79}

AsciiPairAt(at) == AsciiO(Byte(at)) /\ AsciiO(Byte(at + 1))

\* Mutation: the last byte of the second kana is not compared.
KanaPairAtFiveBytes(at) ==
    /\ at + 5 < Len(Bytes(content))
    /\ \E kana \in {"hira_o", "kata_o"} :
          \A k \in 0..4 : Byte(at + k) = (Utf8[kana] \o Utf8[kana])[k + 1]

KanaPairAt(at) ==
    /\ at + 5 < Len(Bytes(content))
    /\ \E kana \in {"hira_o", "kata_o"} :
          \A k \in 0..5 : Byte(at + k) = (Utf8[kana] \o Utf8[kana])[k + 1]

\* Mutation: the store is given no fuel limit.
ScanningUnmetered == reply = Running /\ i < Len(Bytes(content)) - 1

Scanning == reply = Running /\ fuel > 0 /\ i < Len(Bytes(content)) - 1

\* Mutation: the loop goes on without a step to the next byte.
AdvanceOnHits(width, hits) ==
    /\ i' = IF hits = 0 THEN i ELSE i + width
    /\ count' = count + hits
    /\ fuel' = fuel - 1
    /\ UNCHANGED <<message, suspicion, reply>>

Advance(width, hits) ==
    /\ i' = i + width
    /\ count' = count + hits
    /\ fuel' = fuel - 1
    /\ UNCHANGED <<message, suspicion, reply>>

CountAsciiPair == Scanning /\ AsciiPairAt(i) /\ Advance(2, 1)
CountKanaPair == Scanning /\ ~AsciiPairAt(i) /\ KanaPairAt(i) /\ Advance(6, 1)
SkipByte == Scanning /\ ~AsciiPairAt(i) /\ ~KanaPairAt(i) /\ Advance(1, 0)

\* The fuel ends before the message does.
OutOfFuel ==
    /\ reply = Running
    /\ fuel = 0
    /\ i < Len(Bytes(content)) - 1
    /\ reply' = Failed("Timeout")
    /\ UNCHANGED <<message, suspicion, i, count, fuel>>

\* Mutation: an empty count is looked at before the special phrase.
WireCountFirst(total) ==
    CASE total <= 0 -> DecodeWire(0, 0)
      [] total > 0 /\ phraseHit -> DecodeWire(3, 1)
      [] total = 1 /\ ~phraseHit -> DecodeWire(1, 1)
      [] total > 1 /\ ~phraseHit -> DecodeWire(2, AtMost(total, MaxStamps))

\* The end of `analyze`, after its loop.
Wire(total) ==
    CASE phraseHit -> DecodeWire(3, 1)
      [] ~phraseHit /\ total <= 0 -> DecodeWire(0, 0)
      [] ~phraseHit /\ total = 1 -> DecodeWire(1, 1)
      [] ~phraseHit /\ total > 1 -> DecodeWire(2, AtMost(total, MaxStamps))

Propose ==
    /\ reply = Running
    /\ i >= Len(Bytes(content)) - 1
    /\ count' = count + tokenHits
    /\ reply' = Wire(count')
    /\ UNCHANGED <<message, suspicion, i, fuel>>

AnalysisNext ==
    \/ RefuseSuspicious \/ CallGuest
    \/ CountAsciiPair \/ CountKanaPair \/ SkipByte \/ OutOfFuel
    \/ Propose

AnalysisSpec == AnalysisInit /\ [][AnalysisNext]_analysisVars

-----------------------------------------------------------------------------
\* analyze_message: its own action for a message, with how many stamps it is made of.
PlainAction(text, tokens, isPhrase) ==
    LET capped == AtMost(Total(text, tokens), AtLeast(MaxCountCap, 1))
        one(action) == [action |-> action, stamps |-> 1]
    IN  CASE isPhrase -> one("SendPhrase")
          [] ~isPhrase /\ capped = 0 -> [action |-> "Noop", stamps |-> 0]
          [] ~isPhrase /\ capped = 1 -> one("React")
          [] ~isPhrase /\ capped > 1 ->
                LET policed == PolicyGate("SendTemplate")
                IN  [action |-> policed,
                     stamps |-> IF policed = "SendTemplate"
                                THEN AtMost(capped, AtLeast(FittingStamps, 1)) ELSE 1]

\* What the governed path makes of the answer, in mode Normal.
GovernedAction ==
    LET proposal == ProposalOf(reply)
        total == Total(content, tokenHits)
        action == CompileResponse(proposal, "Normal", suspicion, total)
    IN  [action |-> action,
         stamps |-> CASE action = "SendTemplate" -> Repeats(proposal, total)
                      [] action = "Noop" -> 0
                      [] OTHER -> 1]

\* A suspicious message gets less than analyze_message gives.
Tempered(plain) ==
    IF suspicion = "Soft" /\ plain.action \in Sends
    THEN [action |-> "React", stamps |-> 1] ELSE plain

-----------------------------------------------------------------------------
(* Type invariant: the locals of the guest stay in range, and the answer is a *)
(* proposal decode_wire can return, or one of the analyzer's errors.          *)
AnalysisTypeOK ==
    /\ content \in Contents /\ tokenHits \in TokenHits
    /\ phraseHit \in BOOLEAN /\ odd \in BOOLEAN
    /\ suspicion \in SuspicionLevels
    /\ i \in 0..Len(Bytes(content)) + 1
    /\ count \in 0..Len(content) + tokenHits
    /\ fuel \in 0..FuelLimit
    /\ reply \in {Received, Running} \cup Failures \cup Proposals(1..MaxStamps)

(* The loop of the guest has counted exactly the sequences that          *)
(* count_oo_sequences finds in the characters that lie behind its index,  *)
(* although it steps through bytes and can stand inside a character.      *)
CountsWholeSequences ==
    LET passed == {n \in 0..Len(content) : Len(Bytes(SubSeq(content, 1, n))) <= i}
    IN  reply = Running => count = OoSequences(SubSeq(content, 1, Max(passed)))

(* The proposal of the guest, decoded, compiled and capped, is the action *)
(* that analyze_message decides on from the text alone (the replay        *)
(* harness runs a fixture through both), tempered by the suspicion; and a  *)
(* message the guest could not finish, or the core did not send to it,     *)
(* gets no action at all.                                                  *)
DecidesLikePlainAnalysis ==
    Answered(reply) =>
        GovernedAction =
            IF \/ reply \in Failures
               \/ reply.kind = "SuspiciousInput"
            THEN [action |-> "Noop", stamps |-> 0]
            ELSE Tempered(PlainAction(content, tokenHits, phraseHit))

(* The fuel of the guest ends only on a message of more bytes than the loop *)
(* has passes: no pass of its three branches leaves the index where it was, *)
(* so no short message is ever counted as a failure of the sandbox.         *)
TimeoutsAreLong ==
    reply = Failed("Timeout") => Len(Bytes(content)) > FuelLimit + 1

(* What the comment in the sample configuration says of the patterns: the *)
(* detector's patterns decide what is found in the text, so a message with *)
(* none of them, no token and no phrase is left alone.                      *)
PatternsDecide ==
    Answered(reply) /\ Total(content, tokenHits) = 0 /\ ~phraseHit
        => GovernedAction.action = "Noop"
=============================================================================
