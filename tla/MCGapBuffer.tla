------------------------------ MODULE MCGapBuffer ------------------------------
(***************************************************************************)
(* One behaviour looks at one thing: the markers (and bytes), the undo     *)
(* list, the newline cache or what redisplay is told.                      *)
(***************************************************************************)
EXTENDS GapBuffer, TLC

CONSTANTS nl, a, b, e, m1, m2

MCCharLen == [c \in {nl, a, b, e} |-> IF c = e THEN 3 ELSE 1]
MCUpcase == (nl :> <<nl>>) @@ (a :> <<b>>) @@ (b :> <<b>>) @@ (e :> <<b, b>>)
MCAdvancing == {m2}

Setup(looks, chars, pieces, max) ==
  [looks |-> looks, chars |-> chars, pieces |-> pieces, max |-> max]

MCMarkers == Setup("markers", <<a, e>>, {<<nl, e>>}, 2)
MCUndo    == Setup("undo", <<a>>, {<<nl>>}, 3)
MCCache   == Setup("cache", <<nl, a>>, {<<nl, a>>}, 4)
MCDisplay == Setup("display", <<a, nl>>, {<<b, nl>>}, 4)

MCSetups == {MCMarkers, MCUndo, MCCache, MCDisplay}
=============================================================================
