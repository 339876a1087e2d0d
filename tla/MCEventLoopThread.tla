-------------------------- MODULE MCEventLoopThread --------------------------
(* Values for the constants of EventLoop that a cfg cannot write down.     *)
EXTENDS EventLoopThread

MCElements == Producers \X (1 .. MaxTasks)

=============================================================================
