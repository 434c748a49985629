--------------------------- MODULE MCLengthPrefix ---------------------------
EXTENDS LengthPrefix

\* Data of 2 bytes; of 2^31 - 10 bytes (fits its own i32 field, but not the
\* frame's); of 2^31 bytes (the i32 turns negative); of 2^32 + 2 bytes (the
\* i32 reads as 2).
MCDataLens == {<<0, 0, 0, 2>>, <<0, 0, 32767, 65526>>, <<0, 0, 32768, 0>>,
               <<0, 1, 0, 2>>}
=============================================================================
