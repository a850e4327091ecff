---------------------------- MODULE MCBytesField ----------------------------
(***************************************************************************)
(* BytesField over bytes 0 to 2.                                           *)
(***************************************************************************)
EXTENDS BytesField

MCInitials == {<<2, 1>>}

\* Every field but byte vectors that are copied, and those.
MCFields == {f \in BytesFields(Types, MCInitials) : ~(f.type = "bytes" /\ f.op = "Copy")}
MCCopiedVectors == {f \in BytesFields({"bytes"}, MCInitials) : f.op = "Copy"}

\* NULL or the empty string, an empty nullable string, an overlong one, a
\* string that begins with a NUL in both encodings, and one without NUL.
MCEntities ==
  {<<0>>, <<0, 0>>, <<0, 1>>, <<0, 0, 1>>, <<0, 0, 0, 1>>, <<2, 1, 2>>}

MCVectors == {<<>>, <<2, 0>>}

\* Two bytes at either end, and nothing, or NULL where it may be; and a number
\* that is too wide.
MCSubtractions == {-3, 0, 2, 8}
=============================================================================
