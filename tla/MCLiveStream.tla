---------------------------- MODULE MCLiveStream ----------------------------
(* The texts for model checking LiveStream.                                *)
EXTENDS LiveStream

TestPayloads == {<<>>, <<Return>>, <<Newline, 8>>, <<7, 8, 9>>}
=============================================================================
