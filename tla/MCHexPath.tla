----------------------------- MODULE MCHexPath -----------------------------
(* Bounded instance of HexPath: slices of up to five bytes.  Read as hex *)
(* they hold nibbles, terminators in every place and bytes that are no     *)
(* nibble; read as compact paths, every known flag nibble, zero and        *)
(* nonzero padding, and an unknown flag.                                   *)
EXTENDS HexPath
MCBytes == {0, 1, 7, 15, 16, 31, 32, 47, 50, 240}
=============================================================================
