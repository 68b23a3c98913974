---------------------------- MODULE MCUploadWorker ----------------------------
(* UploadWorker with one upload of two chunks, or two uploads of one chunk. *)
EXTENDS UploadWorker

MCOneSize == [u \in Uploads |-> 2]
MCSize == [u \in Uploads |-> 1]
=============================================================================
