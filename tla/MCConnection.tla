---------------------------- MODULE MCConnection ----------------------------
EXTENDS Connection

Area(p, l) == [pos |-> p, last |-> l]

\* No flat buffer, and one that the socket cannot hold.
MCBuffers == {Area(1, 1), Area(1, 6)}

MCNoBuffers == {Area(1, 1)}

\* Adjacent buffers and more of them than iovecs; empty buffers at the front,
\* in the middle and at the end; buffers adjacent in the wrong order; nothing.
MCChains == {
  <<Area(10, 12), Area(12, 13), Area(20, 22), Area(30, 31)>>,
  <<Area(10, 10), Area(10, 12), Area(12, 12), Area(20, 20)>>,
  <<Area(12, 14), Area(10, 12), Area(14, 15), Area(15, 16)>>,
  <<Area(10, 10)>>}

\* A message that fits the socket.
MCShortChains == {<<Area(10, 12), Area(20, 21)>>}
=============================================================================
