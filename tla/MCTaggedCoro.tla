---------------------------- MODULE MCTaggedCoro ----------------------------
\* TLC instances of TaggedCoro, its queries and its refinement of NestedCoro.
EXTENDS NestedCoroRefinement, TLC
CONSTANTS x, a, b
OnePayload == {<<x>>}
TwoPayloads == {<<>>, <<x>>}
\* The coroutines a and b, and the tags, are interchangeable: no definition of the
\* model chooses between them.
Interchangeable == Permutations({a, b}) \cup Permutations(Tag)
=============================================================================
