----------------------------- MODULE MCTcpClient -----------------------------
(* Programs for TcpClient.                                                 *)
EXTENDS TcpClient

\* From the loop's thread with reconnecting; from another thread without,
\* where a stop() that races removeConnection could be overruled by restart.
OrderlyPrograms ==
    {[calls |-> {"connect", "stop", "disconnect", "destroy"}, onLoop |-> TRUE, retry |-> TRUE],
     [calls |-> {"connect", "stop", "disconnect"}, onLoop |-> FALSE, retry |-> FALSE]}

=============================================================================
