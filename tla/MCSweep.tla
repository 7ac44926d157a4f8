------------------------------ MODULE MCSweep ------------------------------
(***************************************************************************)
(* Small instances of Sweep for TLC.                                       *)
(***************************************************************************)
EXTENDS Sweep

\* One class with two pages.
MCIdsOf == [c \in Class |-> {1, 2}]

\* Nothing, one chunk, and another text whose second chunk is the first one's.
MCTwoTexts == {<<>>, <<1>>, <<2, 1>>}

MCFirstText == <<1>>
=============================================================================
