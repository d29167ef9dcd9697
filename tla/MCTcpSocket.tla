---------------------------- MODULE MCTcpSocket ----------------------------
(* Messages of two bytes and of one, a frame with nothing in it and a frame  *)
(* with one byte.                                                            *)
EXTENDS TcpSocket

MCMessages == {<<1, 2>>, <<3>>}
MCFrames   == <<<<0, 0>>, <<0, 1, 7>>>>
=============================================================================
