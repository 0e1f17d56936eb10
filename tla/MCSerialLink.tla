---------------------------- MODULE MCSerialLink ----------------------------
(* Small instances of SerialLink: two images of different lengths.             *)
EXTENDS SerialLink

MCImages == { <<1, 2>>, <<3, 4, 5, 6>> }
=============================================================================
