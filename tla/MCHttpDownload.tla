--------------------------- MODULE MCHttpDownload ---------------------------
(* Small instances of HttpDownload. *)
EXTENDS HttpDownload
=============================================================================
