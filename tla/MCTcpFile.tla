----------------------------- MODULE MCTcpFile -------------------------------
(* The instance of TcpFile that TLC checks: bytes of four values, 3 being the *)
(* char -1, and a trailer of two bytes.                                      *)
EXTENDS TcpFile

\* No file, the empty file, and files with zeros, a negative sum, a sum that
\* fills both bytes of the trailer, and one that wraps.
MCContents == {NoFile, <<>>, <<0, 0>>, <<3>>, <<1, 1, 1, 1, 1>>, <<2, 2, 2, 2, 2>>}

MCOthers == {NoFile, <<1>>}
=============================================================================
