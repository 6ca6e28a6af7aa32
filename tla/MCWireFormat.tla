---------------------------- MODULE MCWireFormat ----------------------------
(* Bytes in base 4, sizes up to 16: NUL, the space and two more, which are  *)
(* also the bytes of ids.                                                   *)
EXTENDS WireFormat

MCLetters == {3}
MCIds == {<<1, 0, 3, 1>>, <<0, 0, 0, 0>>, <<2, 3, 3, 3>>, <<3, 3, 3, 3>>}
MCCommands == {<<3>>, <<3, 3>>}
=============================================================================
