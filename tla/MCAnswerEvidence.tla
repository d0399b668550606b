-------------------------- MODULE MCAnswerEvidence --------------------------
(***************************************************************************)
(* A document with two editions, the first of two chunks in one unit, and  *)
(* a document of one chunk.                                                *)
(***************************************************************************)
EXTENDS AnswerEvidence

CONSTANTS a1, a2, b1, x1, first, second

ByChunk(va1, va2, vb1, vx1) ==
    [c \in Chunks |-> CASE c = a1 -> va1 [] c = a2 -> va2 [] c = b1 -> vb1 [] c = x1 -> vx1]

MCIdRank == ByChunk(2, 1, 4, 3)
MCDocumentOf == ByChunk(first, first, first, second)
MCUnitOf == ByChunk("u1", "u1", "u2", "u3")
MCStartOf == ByChunk(0, 5, 0, 0)
MCSizeOf == ByChunk(2, 1, 2, 1)
MCLengthOf == ByChunk(3, 1, 2, 2)
MCEditionOf == ByChunk(1, 1, 2, 1)
MCFileOrder == ByChunk(1, 2, 3, 4)
MCEditions == [d \in Documents |-> IF d = first THEN 2 ELSE 1]

Plain == <<>>
OneControl == <<{a2, b1}>>
TwoControls == <<{x1}, {a1}>>
MCQuestions == {Plain, OneControl, TwoControls}
=================================================================================
