------------------------------- MODULE MCPack -------------------------------
EXTENDS Pack

MCNames == {<<>>, <<7>>}
MCStrings == {<<>>, <<8, 9>>, <<8, 0>>}

\* Each makes hcore_pack_read refuse: no elements, more elements than the
\* limit, an unknown type, an element without values.
MCForeign == {
  <<0, 0>>,
  <<3, 0, 0, 0>>,
  <<1, 0, 0, 0, 3, 0, 1, 0>>,
  <<1, 0, 0, 0, 0, 0, 0, 0>>}
=============================================================================
