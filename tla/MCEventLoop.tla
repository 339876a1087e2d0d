---------------------------- MODULE MCEventLoop ----------------------------
(* Values for the constants of EventLoop that a cfg cannot write down.     *)
EXTENDS EventLoop

MCElements == Producers \X (1 .. MaxTasks)

=============================================================================
