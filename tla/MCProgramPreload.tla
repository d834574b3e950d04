------------------------- MODULE MCProgramPreload -------------------------
\* Small manifests for ProgramPreload.
EXTENDS ProgramPreload

Ranked(ranks) == [rank : ranks, whole : {TRUE}, piece : Piece]
SomeRows == Ranked({0, 1, 2}) \cup [rank : {1}, whole : {FALSE}, piece : Piece]
=============================================================================
