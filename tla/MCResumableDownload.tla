------------------------ MODULE MCResumableDownload ------------------------
(* An object of two bytes that is replaced by one of three, and that by an *)
(* empty one.                                                              *)
EXTENDS ResumableDownload

MCSize == <<2, 3, 0>>
=============================================================================
