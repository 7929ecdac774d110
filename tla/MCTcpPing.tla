------------------------------ MODULE MCTcpPing ------------------------------
EXTENDS TcpPing

MCGreeting == <<"H", "i">>
MCQUIT == <<"Q", "T">>
=============================================================================
