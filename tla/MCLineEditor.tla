---------------------------- MODULE MCLineEditor ----------------------------
(* Two terminals of three rows of four columns, with lines of at most four  *)
(* characters and outputs that end inside, at and past the right edge.      *)
EXTENDS LineEditor

SomeTexts ==
    {<<"char">>, <<"newline">>, <<"char", "char", "char", "char">>,
     <<"char", "char", "char", "char", "char">>}
=============================================================================
