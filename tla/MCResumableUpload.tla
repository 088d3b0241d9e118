------------------------- MODULE MCResumableUpload -------------------------
(* Files of up to four bytes, sent in buffers of two.                      *)
EXTENDS ResumableUpload

CONSTANTS a, b, c

MCContents == {<<>>, <<a>>, <<b, c>>, <<a, b, c>>, <<a, c, b, b>>}
=============================================================================
