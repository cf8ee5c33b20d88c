----------------------------- MODULE MCStreams -----------------------------
(***************************************************************************)
(* Streams with two calls in the first turn, one in the second, and a      *)
(* third request that carries both back.                                   *)
(***************************************************************************)
EXTENDS Streams, TLC

Form(reversed, named, note) == [reversed |-> reversed, named |-> named, note |-> note]

MCForms == <<{Form(FALSE, FALSE, FALSE), Form(TRUE, TRUE, FALSE), Form(TRUE, FALSE, TRUE)},
             {Form(FALSE, FALSE, FALSE)}>>
MCMaxText == <<1, 0>>
MCMaxCalls == <<2, 1>>
MCMaxParts == <<1, 0>>
MCCounts == {[fresh |-> 1, cached |-> 2, out |-> 4]}
=============================================================================
