-------------------------- MODULE DocumentPreparation --------------------------
(***************************************************************************)
(* What one ingestion job does between its claim and its publication: the  *)
(* cleaned text of a source unit is cut into chunks, the chunks are        *)
(* embedded in batches, and a transient error restarts the job after a     *)
(* delay taken from a budget.  Offsets count characters from 0, as in the  *)
(* code; text[i + 1] is the character at offset i.                         *)
(***************************************************************************)
EXTENDS Integers, Sequences, FiniteSets, SequencesExt

CONSTANTS
    Texts,              \* cleaned texts of the unit
    TargetChars, MaxChars, OverlapChars,
    BatchSize, MaxBatchTokens, MaxInputTokens,
    MaxRetries,         \* celery_max_retries
    RetryBudget,        \* MAX_TOTAL_RETRY_DELAY_SECONDS
    MaxBase,            \* the cap of the exponential delay
    RetryAfters,        \* Retry-After values the provider may send
    NoHint              \* no Retry-After, and no delay

ASSUME PreparationAssumption ==
    /\ {TargetChars, MaxChars, BatchSize, MaxBatchTokens, MaxInputTokens} \subseteq Nat \ {0}
    /\ OverlapChars \in Nat /\ OverlapChars < TargetChars /\ TargetChars <= MaxChars
    /\ {MaxRetries, RetryBudget, MaxBase} \subseteq Nat
    /\ Texts \subseteq Seq(STRING)
    /\ RetryAfters \subseteq Nat /\ NoHint \notin Nat

VARIABLES
    text,       \* normalized_text of the unit
    phase,      \* which step of the job is next
    start,      \* where the next chunk begins
    chunks,     \* [from, to) offsets of the chunks cut so far
    batches,    \* token batches still to be requested
    vectors,    \* the chunks whose vectors have arrived
    hint,       \* Retry-After of the error being handled
    retries,    \* request.retries of the Celery message
    waited,     \* seconds of delay so far
    hinted      \* some delay followed a Retry-After

preparationVars == <<text, phase, start, chunks, batches, vectors, hint, retries, waited, hinted>>
prepared == <<start, chunks, batches, vectors>>
budget == <<retries, waited, hinted>>

PreparationInit(texts) ==
    /\ text \in texts
    /\ phase = "chunk" /\ start = 0 /\ chunks = <<>> /\ batches = <<>> /\ vectors = <<>>
    /\ hint = NoHint /\ retries = 0 /\ waited = 0 /\ hinted = FALSE

-----------------------------------------------------------------------------
Blank(i) == text[i] \in {" ", "newline"}

(* Offsets after a full stop and all the white space that follows it,      *)
(* within the window from s to h.                                          *)
SentenceEnds(s, h) ==
    {e \in s + 1 .. h :
        /\ Blank(e)
        /\ e = h \/ ~Blank(e + 1)
        /\ \E p \in s + 1 .. e - 1 : text[p] = "." /\ \A q \in p + 1 .. e : Blank(q)}

(* The first sentence end past the target, else the last one before it,    *)
(* else the last space, else the hard maximum.                             *)
PreferredEnd(s) ==
    LET hard == Min({Len(text), s + MaxChars})
        target == Min({hard, s + TargetChars})
        ends == SentenceEnds(s, hard)
        after == {e \in ends : e >= target}
        spaces == {i \in s + 1 .. hard : text[i + 1] = " "}
    IN  CASE hard = Len(text) -> hard
          [] hard # Len(text) /\ after # {} -> Min(after)
          [] hard # Len(text) /\ after = {} /\ ends # {} -> Max(ends)
          [] hard # Len(text) /\ ends = {} /\ spaces # {} -> Max(spaces)
          [] OTHER -> hard

(* The overlap, moved to the next word, and at least one character on.     *)
NextStartOverlapped(s, e) == e - OverlapChars   \* mutant: may not advance
NextStart(s, e) ==
    LET next == Max({s + 1, e - OverlapChars})
        spaces == {i \in next .. e - 1 : text[i + 1] = " "}
    IN  IF spaces # {} THEN Min(spaces) + 1 ELSE next

Cut ==
    /\ phase = "chunk" /\ text # <<>>
    /\ LET e == PreferredEnd(start)
       IN  /\ chunks' = Append(chunks, [from |-> start, to |-> e])
           /\ start' = IF e >= Len(text) THEN start ELSE NextStart(start, e)
           /\ phase' = IF e >= Len(text) THEN "batch" ELSE "chunk"
    /\ UNCHANGED <<text, batches, vectors, hint, budget>>

Fail == phase' = "failed" /\ UNCHANGED <<text, prepared, hint, budget>>

NothingToCut == phase = "chunk" /\ text = <<>> /\ Fail

-----------------------------------------------------------------------------
(* A chunk counts as many tokens as characters.                            *)
Tokens(c) == c.to - c.from

(* token_batches: a batch is closed when the next text would exceed one of *)
(* its two limits.                                                         *)
AddChunk(acc, c) ==
    IF /\ acc.batch # <<>>
       /\ \/ Len(acc.batch) >= BatchSize
          \/ acc.tokens + Tokens(c) > MaxBatchTokens
    THEN [full |-> Append(acc.full, acc.batch), batch |-> <<c>>, tokens |-> Tokens(c)]
    ELSE [full |-> acc.full, batch |-> Append(acc.batch, c), tokens |-> acc.tokens + Tokens(c)]

Placed[i \in 0 .. Len(chunks)] ==
    IF i = 0 THEN [full |-> <<>>, batch |-> <<>>, tokens |-> 0]
    ELSE AddChunk(Placed[i - 1], chunks[i])

TokenBatches ==
    LET all == Placed[Len(chunks)]
    IN  IF all.batch = <<>> THEN all.full ELSE Append(all.full, all.batch)

TooLong(c) == Tokens(c) > MaxInputTokens

Split ==
    /\ phase = "batch"
    /\ ~\E i \in DOMAIN chunks : TooLong(chunks[i])
    /\ batches' = TokenBatches
    /\ phase' = "embed"
    /\ UNCHANGED <<text, start, chunks, vectors, hint, budget>>

InputTooLong ==
    /\ phase = "batch"
    /\ \E i \in DOMAIN chunks : TooLong(chunks[i])
    /\ Fail

(* One request per batch: vectors in the order of its texts, ...           *)
EmbedBatch ==
    /\ phase = "embed" /\ batches # <<>>
    /\ vectors' = vectors \o Head(batches)
    /\ batches' = Tail(batches)
    /\ UNCHANGED <<text, phase, start, chunks, hint, budget>>

(* ... an invalid or refused one, or a transient error.                    *)
EmbeddingRejected == phase = "embed" /\ batches # <<>> /\ Fail

EmbeddingUnavailable ==
    /\ phase = "embed" /\ batches # <<>>
    /\ hint' \in RetryAfters \cup {NoHint}
    /\ phase' = "raised"
    /\ UNCHANGED <<text, prepared, budget>>

CountVectors ==
    /\ phase = "embed" /\ batches = <<>>
    /\ phase' = IF Len(vectors) = Len(chunks) THEN "publish" ELSE "failed"
    /\ UNCHANGED <<text, prepared, hint, budget>>

(* The source cannot be read.                                              *)
StorageFails ==
    /\ phase = "chunk" /\ chunks = <<>>
    /\ hint' = NoHint
    /\ phase' = "raised"
    /\ UNCHANGED <<text, prepared, budget>>

-----------------------------------------------------------------------------
PowerOfTwo[n \in Nat] == IF n = 0 THEN 1 ELSE 2 * PowerOfTwo[n - 1]

(* A delay at its greatest, and the sum of those before this retry.        *)
WithJitter(delay) == delay + delay \div 2
PriorMaximum[n \in Nat] ==
    IF n = 0 THEN 0 ELSE PriorMaximum[n - 1] + WithJitter(PowerOfTwo[n])
Remaining(n) == RetryBudget - PriorMaximum[n]

Base(n) == Min({MaxBase, PowerOfTwo[n + 1]})

UnboundedDelay(n, jitter) ==            \* mutant: not cut to what remains
    LET delay == Base(n) + jitter
    IN  IF hint = NoHint THEN delay ELSE Max({delay, hint})
BoundedDelay(n, jitter) ==
    LET delay == Base(n) + jitter
    IN  Min({IF hint = NoHint THEN delay ELSE Max({delay, hint}), Remaining(n)})

BudgetSpent ==
    \/ Remaining(retries) <= 0
    \/ hint # NoHint /\ hint > Remaining(retries)

(* self.retry publishes the message again: the job starts over.            *)
Retry ==
    /\ phase = "raised"
    /\ retries < MaxRetries
    /\ ~BudgetSpent
    /\ \E jitter \in 0 .. Base(retries) \div 2 :
        waited' = waited + BoundedDelay(retries, jitter)
    /\ retries' = retries + 1
    /\ hinted' = (hinted \/ hint # NoHint)
    /\ hint' = NoHint
    /\ phase' = "chunk" /\ start' = 0
    /\ chunks' = <<>> /\ batches' = <<>> /\ vectors' = <<>>
    /\ UNCHANGED text

GiveUp ==
    /\ phase = "raised"
    /\ retries >= MaxRetries \/ BudgetSpent
    /\ Fail

PreparationNext ==
    \/ Cut \/ NothingToCut \/ Split \/ InputTooLong
    \/ EmbedBatch \/ EmbeddingRejected \/ EmbeddingUnavailable \/ CountVectors
    \/ StorageFails \/ Retry \/ GiveUp

-----------------------------------------------------------------------------
(* A set that is published is whole: every character of the unit is in a   *)
(* chunk, no chunk exceeds the maximum, and vector n is that of chunk n,   *)
(* however the chunks were batched; and cutting always moves forward, so   *)
(* that it ends.                                                           *)
PreparedWhole ==
    /\ \A i, j \in DOMAIN chunks : i < j => chunks[i].from < chunks[j].from
    /\ phase = "publish" =>
        /\ \A o \in 0 .. Len(text) - 1 :
            \E i \in DOMAIN chunks : chunks[i].from <= o /\ o < chunks[i].to
        /\ \A i \in DOMAIN chunks : Tokens(chunks[i]) \in 1 .. MaxChars
        /\ vectors = chunks

(* Without a Retry-After the delays of a job add up to no more than the    *)
(* budget, at its boundary too.                                            *)
WaitsWithinBudget == ~hinted => waited <= RetryBudget

(* What makes the set whole: what is cut covers the text up to the next    *)
(* start; the batches are consecutive pieces of the chunks, the first one  *)
(* after those that have their vectors.                                    *)
Piece == [from : 0 .. Len(text), to : 0 .. Len(text)]

CutSoFar ==
    /\ chunks \in Seq(Piece)
    /\ \A i \in DOMAIN chunks : Tokens(chunks[i]) \in 1 .. MaxChars
    /\ \A i, j \in DOMAIN chunks : i < j => chunks[i].from < chunks[j].from
    /\ phase = "chunk" =>
        /\ batches = <<>> /\ vectors = <<>>
        /\ start \in 0 .. Len(text) /\ (text # <<>> => start < Len(text))
        /\ \A i \in DOMAIN chunks : chunks[i].from < start
        /\ \A o \in 0 .. start - 1 :
            \E i \in DOMAIN chunks : chunks[i].from <= o /\ o < chunks[i].to
    /\ phase \in {"batch", "embed", "publish"} =>
        \A o \in 0 .. Len(text) - 1 :
            \E i \in DOMAIN chunks : chunks[i].from <= o /\ o < chunks[i].to

BatchesFollow(cuts) ==
    /\ vectors = SubSeq(chunks, 1, cuts[1])
    /\ \A b \in DOMAIN batches :
        /\ cuts[b] <= cuts[b + 1]
        /\ batches[b] = SubSeq(chunks, cuts[b] + 1, cuts[b + 1])
    /\ cuts[Len(batches) + 1] = Len(chunks)

PreparationInv ==
    /\ text \in Seq(STRING)
    /\ CutSoFar
    /\ phase = "batch" => batches = <<>> /\ vectors = <<>>
    /\ phase = "embed" =>
        /\ batches \in Seq(Seq(Piece))
        /\ \E cuts \in [1 .. Len(batches) + 1 -> 0 .. Len(chunks)] : BatchesFollow(cuts)
    /\ phase = "publish" => vectors = chunks

BudgetInv ==
    /\ retries \in Nat /\ waited \in Nat /\ hinted \in BOOLEAN
    /\ hint \in Nat \cup {NoHint}
    /\ ~hinted => waited <= PriorMaximum[retries] /\ waited <= RetryBudget

(* tasks.py:59, MAX_TOTAL_RETRY_DELAY_SECONDS: the budget bounds every     *)
(* job.                                                                    *)
TotalWithinBudget == waited <= RetryBudget
=================================================================================
