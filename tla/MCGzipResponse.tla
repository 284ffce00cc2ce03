--------------------------- MODULE MCGzipResponse ---------------------------
\* Two requests whose handlers make up to four calls each around a buffer of two
\* units: below it, at it, past it.
EXTENDS GzipResponse

MCCodes == {200, 404}
MCTags == {"events", "length"}
Symmetry == Permutations(Requests) \cup Permutations(GzipWriters)
=============================================================================
