--------------------------- MODULE MCTcpConnection ---------------------------
(* Programs for TcpConnection: what they call and where from.              *)
EXTENDS TcpConnection

Program(loopOps, threadOps, destroyServer) ==
    [loopOps |-> loopOps, threadOps |-> threadOps, destroyServer |-> destroyServer]

\* Everything from callbacks; a server that is destroyed; sends from threads.
OrderlyUsages ==
    {Program({"send", "sendFile", "shutdown", "forceClose"}, {}, FALSE),
     Program({"send", "sendFile"}, {}, TRUE),
     Program({"send", "shutdown"}, {"send"}, FALSE)}

\* Programs that end their connection themselves, from callbacks and from
\* another thread, and that hold back and resume reading.
EndingUsages ==
    {Program({"send", "shutdown"}, {"forceClose"}, FALSE),
     Program({"shutdown"}, {"stopRead", "startRead"}, FALSE)}

\* A connection that has stopped reading is closed by force.
StopReadAndClose == {Program({"stopRead", "forceClose"}, {}, FALSE)}

=============================================================================
