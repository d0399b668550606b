------------------------------- MODULE Retrieval -------------------------------
(***************************************************************************)
(* The rankings of one question: reciprocal rank fusion, the injection of  *)
(* exact identifier matches, reranking, the selection of answer candidates *)
(* and the context they fit.  A ranking is a sequence of chunk ids; what   *)
(* the code carries beside an id follows from the id.                      *)
(***************************************************************************)
EXTENDS Ordering, SequencesExt

CONSTANTS
    Chunks,         \* chunk ids
    IdRank,         \* their order as text, the tie-breaker of the rankings
    DocumentOf,     \* chunk -> document
    UnitOf,         \* chunk -> source unit
    StartOf,        \* chunk -> start_offset in its unit
    SizeOf,         \* chunk -> tokens of its source block
    LengthOf,       \* chunk -> characters of its source block
    RrfK,           \* RRF_K
    MaxContextChunks, MaxContextTokens, MaxContextChars

ASSUME RetrievalAssumption ==
    /\ IsFiniteSet(Chunks)
    /\ IdRank \in [Chunks -> Nat]
    /\ \A c, d \in Chunks : IdRank[c] = IdRank[d] => c = d
    /\ StartOf \in [Chunks -> Nat]
    /\ SizeOf \in [Chunks -> Nat \ {0}] /\ LengthOf \in [Chunks -> Nat \ {0}]
    /\ {RrfK, MaxContextChunks, MaxContextTokens, MaxContextChars} \subseteq Nat \ {0}

-----------------------------------------------------------------------------
Top(list, n) == SubSeq(list, 1, IF n < Len(list) THEN n ELSE Len(list))
In(list, c) == \E i \in DOMAIN list : list[i] = c
RankIn(list, c) == CHOOSE i \in DOMAIN list : list[i] = c

(* The members of S in the order they have in the list.                    *)
ListOrder(list, S) == By(S, [c \in S |-> RankIn(list, c)])
Kept(list, S) == InOrder(S, ListOrder(list, S))

(* The score of a chunk as a fraction: 1/(k + rank) for each list that has *)
(* it.                                                                     *)
RrfScore(semantic, keyword, c) ==
    LET s == RrfK + RankIn(semantic, c)
        k == RrfK + RankIn(keyword, c)
    IN  CASE In(semantic, c) /\ In(keyword, c) -> [num |-> s + k, den |-> s * k]
          [] In(semantic, c) /\ ~In(keyword, c) -> [num |-> 1, den |-> s]
          [] OTHER -> [num |-> 1, den |-> k]

(* Chunks of either list, once, by descending score and then by id.        *)
ByScore(semantic, keyword) ==
    LET found == ToSet(semantic) \cup ToSet(keyword)
        score == [c \in found |-> RrfScore(semantic, keyword, c)]
        Left(p) == score[p[1]].num * score[p[2]].den
        Right(p) == score[p[2]].num * score[p[1]].den
    IN  {p \in found \X found :
            \/ Left(p) > Right(p)
            \/ Left(p) = Right(p) /\ IdRank[p[1]] < IdRank[p[2]]}

ReciprocalRankFusion(semantic, keyword, topK) ==
    Top(InOrder(ToSet(semantic) \cup ToSet(keyword), ByScore(semantic, keyword)), topK)

(* Exact matches come first and the pool keeps its size.                   *)
InjectedTwice(fused, exact, limit) ==   \* mutant: duplicates are kept
    Top(exact \o fused, limit)
InjectIdentifierCandidates(fused, exact, limit) ==
    Top(exact \o Kept(fused, ToSet(fused) \ ToSet(exact)), limit)

(* Chunks of a unit that names an identifier, in the order of the first    *)
(* identifier of the question that any chunk of the unit names; mentions   *)
(* are the chunks whose text holds each identifier.                        *)
NamedAt(S, mentions, c) ==
    {i \in DOMAIN mentions : \E d \in S \cap mentions[i] : UnitOf[d] = UnitOf[c]}
Named(S, mentions) == {c \in S : NamedAt(S, mentions, c) # {}}
ByIdentifier(S, mentions, order) ==
    InOrder(Named(S, mentions),
            ThenBy(Named(S, mentions),
                   [c \in Named(S, mentions) |-> Min(NamedAt(S, mentions, c))], order))

(* Within one identifier, the bounded query's result keeps its order.      *)
OrderedByIdentifier(found, mentions) ==
    ByIdentifier(ToSet(found), mentions, ListOrder(found, ToSet(found)))

-----------------------------------------------------------------------------
(* Reranking: by descending score, then by the rank in the pool.           *)
Reranked(pool, score) ==
    InOrder(ToSet(pool), ThenBy(ToSet(pool), [c \in ToSet(pool) |-> -score[c]],
                                ListOrder(pool, ToSet(pool))))

(* select_answer_candidates: units that name an identifier in full and in  *)
(* text order, then for a comparison one chunk of each further document,   *)
(* then the rest.                                                          *)
InText(S) == ThenBy(S, [c \in S |-> StartOf[c]], By(S, [c \in S |-> IdRank[c]]))

Pinned(ranked, mentions) == ByIdentifier(ToSet(ranked), mentions, InText(ToSet(ranked)))

Diversified(ranked, selected) ==
    LET Alike(c) == {d \in ToSet(ranked) : DocumentOf[d] = DocumentOf[c]}
        further == {c \in ToSet(ranked) :
                       /\ Alike(c) \cap ToSet(selected) = {}
                       /\ \A d \in Alike(c) : RankIn(ranked, c) <= RankIn(ranked, d)}
    IN  selected \o Kept(ranked, further)

SelectAnswerCandidates(ranked, mentions, comparison, topK) ==
    LET pinned == Pinned(ranked, mentions)
        chosen == IF comparison THEN Diversified(ranked, pinned) ELSE pinned
    IN  Top(chosen \o Kept(ranked, ToSet(ranked) \ ToSet(chosen)), topK)

(* build_answer_context: a block that does not fit is passed over and a    *)
(* later, smaller one may still be taken.                                  *)
FitsInTokens(context, c) ==             \* mutant: the characters are not counted
    /\ Len(context.sources) < MaxContextChunks
    /\ context.tokens + SizeOf[c] <= MaxContextTokens
Fits(context, c) ==
    /\ Len(context.sources) < MaxContextChunks
    /\ context.tokens + SizeOf[c] <= MaxContextTokens
    /\ context.characters + LengthOf[c] <= MaxContextChars

AddSource(context, c) ==
    IF In(context.sources, c) \/ ~Fits(context, c) THEN context
    ELSE [sources |-> Append(context.sources, c),
          tokens |-> context.tokens + SizeOf[c],
          characters |-> context.characters + LengthOf[c]]

NoSources == [sources |-> <<>>, tokens |-> 0, characters |-> 0]

AnswerContext(candidates) ==
    LET context[i \in 0 .. Len(candidates)] ==
            IF i = 0 THEN NoSources ELSE AddSource(context[i - 1], candidates[i])
    IN  context[Len(candidates)].sources

(* What the blocks of a list take.                                         *)
Total(list, weight) ==
    LET sum[i \in 0 .. Len(list)] == IF i = 0 THEN 0 ELSE sum[i - 1] + weight[list[i]]
    IN  sum[Len(list)]
TokensOf(list) == Total(list, SizeOf)
CharactersOf(list) == Total(list, LengthOf)
=================================================================================
