---------------------------- MODULE MCSyncArchive ----------------------------
(* A small instance of SyncArchive: plain syncs beside archives.            *)
EXTENDS SyncArchive

PlainSync == {NoOptions}
=============================================================================
