------------------------------- MODULE Memory -------------------------------
(***************************************************************************)
(* The bytes of a buffer or a connection.  A byte is an integer; a number  *)
(* of w bytes is its value followed by w - 1 times Pad, so that bytes read *)
(* at the wrong place are no numbers.  Stale is a byte that nobody has     *)
(* written: left over in the buffer or fresh from malloc.                  *)
(***************************************************************************)
EXTENDS Integers

Pad == -1
Stale == -2
=============================================================================
