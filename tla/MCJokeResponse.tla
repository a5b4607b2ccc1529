--------------------------- MODULE MCJokeResponse ---------------------------
(***************************************************************************)
(* Instances of JokeResponse for TLC.  A token has two letters, which, as  *)
(* those of the program's tokens, neither overlap nor are each other's.    *)
(***************************************************************************)
EXTENDS JokeResponse, SequencesExt

CONSTANT MaxJoke    \* bound: the length of a joke

MCNameToken == <<"e", "d">>
MCSurnameToken == <<"p", "t">>

MCJokes == BoundedSeq(Letter \ {"x"}, MaxJoke)
MCNames == {<<>>, <<"e">>, <<"p">>, <<"t", "x">>, <<"x", "p", "e">>, <<"p", "t">>, <<"e", "d">>}
MCSurnames == {<<>>, <<"p">>, <<"p", "t">>, <<"t", "e", "d">>}

=============================================================================
