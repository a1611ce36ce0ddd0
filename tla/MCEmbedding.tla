---------------------------- MODULE MCEmbedding ----------------------------
(***************************************************************************)
(* All files of up to six characters.  A buffer of three holds two of them *)
(* and its NUL, so that lines end before, at and after the end of it.      *)
(***************************************************************************)
EXTENDS Embedding

MCPrintable == {"x", " ", "1"}
MCNamed     == {"\""}

FilesOf(chars, n) == UNION {[1 .. m -> chars] : m \in 0 .. n}

\* Lines with indentation; lines with a quote or a NUL; lines with bytes that
\* are written in hexadecimal, and a digit.
MixedFiles ==
  FilesOf({"x", " ", NL}, 6) \cup FilesOf({"\"", NL, NUL}, 4)
    \cup FilesOf({"SOH", "xFF", "1", NL}, 4)

\* Complete files of two lines.
LineFiles == {<<"x", NL>> \o t \o <<NL>> : t \in FilesOf({"x", " "}, 2)}

UnterminatedFiles == FilesOf({"x", NL}, 3)

=============================================================================
