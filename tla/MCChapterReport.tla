-------------------------- MODULE MCChapterReport --------------------------
(* A chapter of three images, which the site does not list in the order of   *)
(* their positions.                                                          *)
EXTENDS ChapterReport

MCIndexes == {<<2, 3, 1>>, <<1, 1, 1>>}
=============================================================================
