--------------------------- MODULE MCWholeRunPool ---------------------------
EXTENDS WholeRunPool
CONSTANTS c1, c2
(* a batch that fits, one with a repeated position, one larger than the pool *)
MCBeam == {<<c1, c2>>, <<c1, c1, c2>>}
(* one choice established, three of them on two workers, and continuations, *)
(* one of which only looks at the choice again                              *)
MCDirect ==
    {<<Item(c1, "sub_branch", FALSE)>>,
     <<Item(c2, "sub_branch", FALSE), Item(c2, "sub_branch", FALSE), Item(c1, "sub_branch", FALSE)>>,
     <<Item(c1, "continuation", FALSE)>>, <<Item(c1, "continuation", TRUE)>>,
     <<Item(c2, "continuation", TRUE)>>}
(* an attempt and the start of another; two batches; three single calls *)
MCCalls == [u \in Users |-> CASE u = "choice_runner" -> 4 [] u = "beam" -> 2 [] OTHER -> 3]
=============================================================================
