------------------------------- MODULE Programs -------------------------------
(* The command line programs side by side: what every one of them owes when   *)
(* it ends.                                                                   *)
EXTENDS Servers, FuseFs

\* Whatever way a program ends it leaves behind no session, no mount of a
\* session's and no running kernel: the servers take down what they set up
\* (nfsd_main.c, ksmbd_main.c; not the binds of nfsd, see ServersUnwound), the
\* FUSE program unmounts and closes what it opened (fuse_main.c).
LeavesNothing == CleanExit /\ ServersUnwound /\ FuseUnwound
=============================================================================
