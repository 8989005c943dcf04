----------------------------- MODULE MCPrograms -----------------------------
(* An instance of Programs for TLC: three letters for 26, one `a' for ten, *)
(* blocks of two bytes for 4096.                                           *)
EXTENDS Programs

MCNames   == {NoName, MyFile, File}
MCBytes   == {0, 1}
MCCounts  == {1}
MCLetters == <<1, 0, 1>>
MCAs      == <<1>>
MCBuffers == {<<1, 1>>}
=============================================================================
