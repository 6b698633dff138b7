------------------------------- MODULE MCRom -------------------------------
(***************************************************************************)
(* Images, files and stray commands for model checking Rom.                *)
(***************************************************************************)
EXTENDS Rom

\* old and new are signed; fix is new with another minor version and a word
\* of ones; bad is not signed.
MCImages == {"old", "new", "fix", "bad"}
MCSecVersion == [img \in MCImages |-> CASE img = "old" -> 1 [] img = "bad" -> 3 [] OTHER -> 2]
MCVersion == [img \in MCImages |-> IF img = "fix" THEN 1 ELSE 0]
MCGaps == {<< "fix", 3 >>}

MCSetups ==
  {[handler |-> TRUE, disabled |-> FALSE], [handler |-> FALSE, disabled |-> FALSE],
   [handler |-> TRUE, disabled |-> TRUE]}

File_(a, b) == [slot \in Slots |-> IF slot = "A" THEN a ELSE b]
MCFiles == {File_("new", "-"), File_("-", "fix"), File_("old", "new")}

MCStrays ==
  {Cmd("sectorErase", 1, << >>), Cmd("sectorErase", 4, << >>), Cmd("sectorErase", 8, << >>),
   Cmd("pageProgram", 3, << << "new", 1 >>, << "new", 2 >> >>),
   Cmd("pageProgram", 0, << << "new", 1 >> >>), Cmd("pageProgram", 8, << << "new", 1 >> >>),
   Cmd("reset", 0, << >>), Cmd("other", 0, << >>), Cmd("overflow", 0, << >>)}
=============================================================================
