------------------------------ MODULE MCMessBuf ------------------------------
(* MessBuf for TLC: how messPut() and setMessBufLen() are called.           *)
EXTENDS MessBuf

\* TMess::put() names the buffer; the user API may name nothing.
BufferOnly == {"buffer"}
BufferAndAll == {"buffer", "all"}

NoLens == {}
SomeLens == DefMessBufSize-1..MaxMessBufSize+1
=============================================================================
