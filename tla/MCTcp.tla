------------------------------- MODULE MCTcp -------------------------------
EXTENDS TcpSocket

MCStreams == {<<1, 1>>, <<2, 0>>, <<0, 4>>}
=============================================================================
