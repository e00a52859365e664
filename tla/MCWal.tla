------------------------------- MODULE MCWal --------------------------------
(***************************************************************************)
(* A small instance of Wal: one-byte lengths, short keys and values.       *)
(***************************************************************************)
EXTENDS Wal

MCKeys   == {<<7>>}
MCValues == {<<>>, <<0, 1>>}
=============================================================================
