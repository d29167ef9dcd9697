---------------------------- MODULE MCUdpSocket ----------------------------
(* Instances of UdpSocket: the .cfg files give its constants. *)
EXTENDS UdpSocket
=============================================================================
