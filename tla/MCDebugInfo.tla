----------------------------- MODULE MCDebugInfo -----------------------------
(* Tables of seven entries after the header: a file of two functions with a    *)
(* parameter; functions of two lines, one from an included file; two files,    *)
(* the second in assembly, or the first; a directory's entry before a file's;  *)
(* lines before any function, functions without lines, lines without a file.   *)
EXTENDS DebugInfo, Sequences

Header == 0

Shape(s) == [i \in Index |-> (<<Header>> \o s)[i + 1]]

MCShapes == {Shape(s) : s \in {
  <<N_SO, N_FUN, N_PSYM, N_SLINE, N_FUN, N_SLINE, N_SLINE>>,
  <<N_SO, N_FUN, N_SLINE, N_SOL, N_SLINE, N_SOL, N_SLINE>>,
  <<N_SO, N_FUN, N_PSYM, N_PSYM, N_SLINE, N_SO, N_SLINE>>,
  <<N_SO, N_SLINE, N_SLINE, N_SO, N_SO, N_FUN, N_SLINE>>,
  <<N_SO, N_SLINE, N_FUN, N_FUN, N_SO, N_FUN, N_SLINE>>,
  <<N_FUN, N_SLINE, N_SO, N_SO, N_PSYM, N_SO, N_FUN>>}}

MCTypes == {Header, N_FUN, N_SLINE, N_SO, N_SOL, N_PSYM}

=============================================================================
