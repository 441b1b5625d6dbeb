---------------------------- MODULE MCHostProxy ----------------------------
(***************************************************************************)
(* Instances of HostProxy for TLC.                                         *)
(***************************************************************************)
EXTENDS HostProxy

(* More than the ring holds from the client, little back. *)
UploadBytes == [s \in Sides |-> IF s = "h" THEN 3 ELSE 1]

(* Two bytes from the server need a ring of one byte twice, while one byte *)
(* comes from the client.                                                  *)
DownloadBytes == [s \in Sides |-> IF s = "h" THEN 1 ELSE 2]

(* One byte each way. *)
PingBytes == [s \in Sides |-> 1]
=============================================================================
