----------------------------- MODULE MCTextField -----------------------------
(* A letter, an emoji of four bytes and two units, and a placeholder. *)
EXTENDS TextField, TLC

MCUtf8 == "a" :> 1 @@ "smile" :> 4
MCUtf16 == "a" :> 1 @@ "smile" :> 2
MCPieces == {<<"a">>, <<"smile">>}
MCPlaceholder == <<"a">>
=============================================================================
