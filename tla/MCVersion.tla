----------------------------- MODULE MCVersion -----------------------------
EXTENDS Version

\* The examples of hcore_string.h, each with the NUL that ends the text.
MCLines ==
  {[text |-> <<"v", "1", ".", "0", ".", "0", "NUL">>, len |-> 6, numbers |-> <<1, 0, 0>>],
   [text |-> <<"1", ".", "0", ".", "0", "NUL">>, len |-> 5, numbers |-> <<1, 0, 0>>]}
=============================================================================
