----------------------------- MODULE MCSkipList -----------------------------
EXTENDS SkipList

\* [InfMin, 1, 3], [4]: a full node and a node with one entry.
MCLoaded == <<EntryOf(3, 0), EntryOf(4, 0), EntryOf(1, 0)>>
MCRanges == {<<InfMin, InfMax>>, <<3, 4>>}

=============================================================================
