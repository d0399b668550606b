---------------------------- MODULE AnswerEvidence ----------------------------
(***************************************************************************)
(* One retrieval request, from the queries to the cited answer, while      *)
(* documents are published and withdrawn.  Every SELECT is a snapshot of   *)
(* its own (READ COMMITTED), so the lists of one request may be of         *)
(* different editions of a document; only the validation of an answer      *)
(* reads everything it relies on at once.                                  *)
(***************************************************************************)
EXTENDS Retrieval

CONSTANTS
    Documents,              \* available documents of the collection that pass the filters
    EditionOf,              \* chunk -> the edition of its document it belongs to
    Editions,               \* document -> how many editions it is given
    FileOrder,              \* chunk -> position by filename, page, offset, id
    Questions,              \* what the question names: sequences of sets of chunks
    TopK,                   \* top_k, or retrieval_count of an ask
    CandidateMultiplier, MaxCandidatesPerBranch, MaxIdentifierCandidates,
    RerankerCandidateLimit, Scores,
    Unknown,                \* a source id the model invents
    None                    \* no active version

ASSUME EvidenceAssumption ==
    /\ EditionOf \in [Chunks -> Nat] /\ Editions \in [Documents -> Nat]
    /\ FileOrder \in [Chunks -> Nat] /\ Scores \subseteq Int
    /\ \A c, d \in Chunks : FileOrder[c] = FileOrder[d] => c = d
    /\ \A q \in Questions : q \in Seq(SUBSET Chunks)
    /\ {CandidateMultiplier, MaxCandidatesPerBranch, MaxIdentifierCandidates,
        RerankerCandidateLimit} \subseteq Nat \ {0}
    /\ TopK \in 1 .. RerankerCandidateLimit
    /\ Unknown \notin Chunks

VARIABLES
    served,     \* document -> edition its active pointers lead to
    stage,      \* which step of the request is next
    mode, mentions,
    comparison, \* the question asks for a comparison
    lists,      \* candidates of the three queries
    ranking,    \* the pool, then the reranked pool, then the context, or the results
    attempt,    \* generation attempts
    cited,      \* source ids of the generated claims
    outcome

evidenceVars == <<served, stage, mode, mentions, comparison, lists, ranking, attempt, cited, outcome>>
request == <<mode, mentions, comparison>>

Modes == {"semantic", "keyword", "hybrid", "reranked", "ask"}
NoLists == [semantic |-> <<>>, keyword |-> <<>>, exact |-> <<>>]

EvidenceInit ==
    /\ served = [d \in Documents |-> 1]
    /\ stage = "idle" /\ mode = "semantic" /\ mentions = <<>> /\ comparison = FALSE
    /\ lists = NoLists /\ ranking = <<>>
    /\ attempt = 0 /\ cited = {} /\ outcome = "none"

-----------------------------------------------------------------------------
(* The joins every query repeats: the chunk is of the active generation.   *)
Searchable == {c \in Chunks : served[DocumentOf[c]] = EditionOf[c]}

CandidateDepth(k) == Min({MaxCandidatesPerBranch, k * CandidateMultiplier})
PoolSize == IF mode = "hybrid" THEN TopK ELSE RerankerCandidateLimit
Depth == IF mode \in {"semantic", "keyword"} THEN TopK ELSE CandidateDepth(PoolSize)

Finish(list, kind) ==
    /\ stage' = "done" /\ outcome' = kind /\ ranking' = list /\ lists' = NoLists

Unchanged(step) == stage' = step /\ UNCHANGED <<ranking, outcome>>

BeginRequest ==
    /\ stage = "idle"
    /\ \E m \in Modes, q \in Questions, b \in BOOLEAN :
        /\ b => m = "ask"
        /\ mode' = m /\ mentions' = q /\ comparison' = b
        /\ stage' = IF m = "keyword" THEN "keyword" ELSE "embed"
    /\ UNCHANGED <<served, lists, ranking, attempt, cited, outcome>>

(* _embed_query; its errors are the response.                              *)
EmbedQuery ==
    /\ stage = "embed"
    /\ \/ Unchanged("scan") /\ UNCHANGED lists
       \/ Finish(<<>>, "unavailable")
    /\ UNCHANGED <<served, request, attempt, cited>>

(* The index scan is approximate: it may miss rows.                        *)
ScanSemantic ==
    /\ stage = "scan"
    /\ \E S \in SUBSET Searchable : \E found \in SetToSeqs(S) :
        lists' = [lists EXCEPT !.semantic = Top(found, Depth)]
    /\ Unchanged("count")
    /\ UNCHANGED <<served, request, attempt, cited>>

(* Too few rows for the count taken after: an exact scan repeats it.       *)
CountScoped ==
    /\ stage = "count"
    /\ IF Len(lists.semantic) < Min({Depth, Cardinality(Searchable)})
       THEN /\ Unchanged("exact")
            /\ UNCHANGED lists
       ELSE IF mode = "semantic" THEN Finish(lists.semantic, "results")
       ELSE Unchanged("keyword") /\ UNCHANGED lists
    /\ UNCHANGED <<served, request, attempt, cited>>

ScanExactly ==
    /\ stage = "exact"
    /\ \E found \in SetToSeqs(Searchable) :
        IF mode = "semantic" THEN Finish(Top(found, Depth), "results")
        ELSE /\ lists' = [lists EXCEPT !.semantic = Top(found, Depth)]
             /\ Unchanged("keyword")
    /\ UNCHANGED <<served, request, attempt, cited>>

SearchKeyword ==
    /\ stage = "keyword"
    /\ \E S \in SUBSET Searchable : \E found \in SetToSeqs(S) :
        LET keyword == Top(found, Depth)
        IN  CASE mode = "keyword" -> Finish(keyword, "results")
              [] mode = "hybrid" ->
                    Finish(ReciprocalRankFusion(lists.semantic, keyword, TopK), "results")
              [] OTHER -> /\ lists' = [lists EXCEPT !.keyword = keyword]
                          /\ Unchanged("identify")
    /\ UNCHANGED <<served, request, attempt, cited>>

(* identifier_candidates: all chunks of at most so many units that name an *)
(* identifier; then fusion and injection.                                  *)
IdentifierCandidates(units) ==
    LET members == {c \in Searchable : UnitOf[c] \in units}
        found == Top(InOrder(members, By(members, [c \in members |-> FileOrder[c]])),
                     MaxIdentifierCandidates)
    IN  OrderedByIdentifier(found, mentions)

SearchIdentifiers ==
    LET named == {UnitOf[c] : c \in Searchable \cap UNION ToSet(mentions)}
    IN  /\ stage = "identify"
        /\ \E units \in SUBSET named :
            LET exact == IdentifierCandidates(units)
            IN  /\ Cardinality(units) = Min({MaxIdentifierCandidates, Cardinality(named)})
                /\ lists' = [lists EXCEPT !.exact = exact]
                /\ ranking' = InjectIdentifierCandidates(
                        ReciprocalRankFusion(lists.semantic, lists.keyword,
                                             RerankerCandidateLimit),
                        exact, RerankerCandidateLimit)
        /\ stage' = "pooled"
        /\ UNCHANGED <<served, request, attempt, cited, outcome>>

(* Scores for exactly the pool, or a timeout, an error or an invalid set   *)
(* of scores, which keeps the fused order.                                 *)
Rerank ==
    /\ stage = "pooled"
    /\ \E ranked \in {ranking} \cup
            {Reranked(ranking, score) : score \in [ToSet(ranking) -> Scores]} :
        IF mode = "reranked" THEN Finish(Top(ranked, TopK), "results")
        ELSE /\ ranking' = AnswerContext(
                    SelectAnswerCandidates(ranked, mentions, comparison, TopK))
             /\ stage' = "evidence" /\ lists' = NoLists /\ UNCHANGED outcome
    /\ UNCHANGED <<served, request, attempt, cited>>

(* Without meaningful evidence, or for a question that must be refused,    *)
(* the context is emptied; an identifier counts as evidence.  With evidence *)
(* and no generator configured the answer is an error.                     *)
JudgeEvidence ==
    /\ stage = "evidence"
    /\ \/ ranking # <<>> /\ Unchanged("generate") /\ UNCHANGED lists
       \/ ranking # <<>> /\ Finish(<<>>, "unavailable")
       \/ Finish(<<>>, "insufficient")
    /\ UNCHANGED <<served, request, attempt, cited>>

LastAttempt == attempt >= 2

(* The model cites what it likes, or the provider fails for good.          *)
Generate ==
    /\ stage = "generate"
    /\ attempt' = attempt + 1
    /\ \/ \E ids \in SUBSET (ToSet(ranking) \cup {Unknown}) : cited' = ids
          /\ Unchanged("validate") /\ UNCHANGED lists
       \/ Finish(<<>>, "unavailable") /\ UNCHANGED cited
    /\ UNCHANGED <<served, request>>

(* _validate_combinations: an answer has claims, a refusal has none, and a *)
(* conflict takes two sources.                                             *)
WellFormed(kind, ids) ==
    /\ kind = "insufficient" <=> ids = {}
    /\ kind = "conflicting" => Cardinality(ids) >= 2

(* validate_and_resolve_answer: every cited id is of the context and all   *)
(* the chunks are of active generations in one snapshot.                   *)
ValidIfKnown(ids) ==                    \* mutant: the pointers are not read again
    ids \subseteq ToSet(ranking)
Valid(ids) == ids \subseteq ToSet(ranking) /\ ids \subseteq Searchable

Validate ==
    /\ stage = "validate"
    /\ \/ /\ Valid(cited)
          /\ \E kind \in {"answered", "conflicting", "insufficient"} :
                WellFormed(kind, cited) /\ Finish(ranking, kind)
          /\ UNCHANGED cited
       \/ \* rejected, also for its form
          /\ IF LastAttempt THEN Finish(<<>>, "insufficient") /\ cited' = {}
             ELSE Unchanged("generate") /\ UNCHANGED <<lists, cited>>
    /\ UNCHANGED <<served, request, attempt>>

(* The environment: a newer edition is activated, or the document goes.    *)
Publish(d) ==
    /\ served[d] # None /\ served[d] < Editions[d]
    /\ served' = [served EXCEPT ![d] = served[d] + 1]
    /\ UNCHANGED <<stage, request, lists, ranking, attempt, cited, outcome>>
Withdraw(d) ==
    /\ served[d] # None
    /\ served' = [served EXCEPT ![d] = None]
    /\ UNCHANGED <<stage, request, lists, ranking, attempt, cited, outcome>>

EvidenceNext ==
    \/ BeginRequest \/ EmbedQuery \/ ScanSemantic \/ CountScoped \/ ScanExactly
    \/ SearchKeyword \/ SearchIdentifiers \/ Rerank \/ JudgeEvidence
    \/ Generate \/ Validate
    \/ \E d \in Documents : Publish(d) \/ Withdraw(d)

-----------------------------------------------------------------------------
Distinct(list) == IsInjective(list)
Ahead(list, c, d) == In(list, c) /\ (In(list, d) => RankIn(list, c) < RankIn(list, d))

(* The pool holds a chunk once and keeps its size; no exact match is left  *)
(* out for another chunk; a chunk that no query ranks behind another and   *)
(* one ranks ahead of it is ahead of it in the pool; a pool that is not    *)
(* full lost nothing.                                                      *)
PoolIsSound ==
    LET others == ToSet(ranking) \ ToSet(lists.exact)
        found == ToSet(lists.semantic) \cup ToSet(lists.keyword) \cup ToSet(lists.exact)
    IN  /\ Distinct(ranking)
        /\ Len(ranking) = Min({RerankerCandidateLimit, Cardinality(found)})
        /\ others # {} => ToSet(lists.exact) \subseteq ToSet(ranking)
        /\ \A c \in others, d \in found \ ToSet(lists.exact) :
            /\ Ahead(lists.semantic, d, c)
            /\ Ahead(lists.keyword, d, c)
            => In(ranking, d) /\ RankIn(ranking, d) < RankIn(ranking, c)

(* The context of an answer fits its bounds, holds a chunk once, and no    *)
(* chunk that names an identifier of the question follows one of a unit    *)
(* that names none.                                                        *)
ContextIsSound ==
    LET named == UNION ToSet(mentions)
    IN  /\ Distinct(ranking)
        /\ Len(ranking) <= Min({TopK, MaxContextChunks})
        /\ TokensOf(ranking) <= MaxContextTokens /\ CharactersOf(ranking) <= MaxContextChars
        /\ \A i, j \in DOMAIN ranking :
            ranking[j] \in named /\ i < j =>
                \E c \in named : UnitOf[c] = UnitOf[ranking[i]]

(* What reaches the reranker and the answer generator is sound, whatever   *)
(* the queries found and however the reranker failed.                      *)
EvidenceIsSound ==
    /\ stage = "pooled" => PoolIsSound
    /\ stage \in {"evidence", "generate", "validate"} => ContextIsSound

(* Why it is: every list of the request is a ranking, of chunks and without *)
(* repetitions, whatever a query returned.                                 *)
IsRanking(list) == list \in Seq(Chunks) /\ Distinct(list)

EvidenceInv ==
    /\ mentions \in Seq(SUBSET Chunks)
    /\ lists \in [semantic : Seq(Chunks), keyword : Seq(Chunks), exact : Seq(Chunks)]
    /\ IsRanking(lists.semantic) /\ IsRanking(lists.keyword) /\ IsRanking(lists.exact)
    /\ IsRanking(ranking)
    /\ EvidenceIsSound

(* An answer never cites two editions of one document, though its context  *)
(* may hold both: what it cites was served at one moment.                  *)
OneEditionPerAnswer ==
    outcome \in {"answered", "conflicting"} =>
        /\ cited \subseteq ToSet(ranking)
        /\ \A c, d \in cited : DocumentOf[c] = DocumentOf[d] => EditionOf[c] = EditionOf[d]

(* docs/ROADMAP.md:75 of document versions: "stale versions do not appear  *)
(* in retrieval".  A search never shows an edition beside a newer one.     *)
OneEditionPerResult ==
    outcome = "results" =>
        \A c, d \in ToSet(ranking) : DocumentOf[c] = DocumentOf[d] => EditionOf[c] = EditionOf[d]

(* docs/RERANKING.md:92 of exact matches: "the complete evidence group is  *)
(* preserved in answer context".  It is not when the group outgrows the    *)
(* pool of the reranker, the candidates or the bounds of the context.      *)
EvidenceGroupKept ==
    [][mode = "ask" /\ stage = "pooled" /\ stage' = "evidence" =>
            ToSet(lists.exact) \subseteq ToSet(ranking')]_evidenceVars
=================================================================================
