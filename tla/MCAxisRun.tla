------------------------------ MODULE MCAxisRun ------------------------------
\* The environments for TLC: every fault and ids made by MES, and ids of the host with
\* the faults the code recovers from.
EXTENDS AxisRun
Environments ==
    {[ids |-> "generated",
      faults |-> {"redelivery", "loss", "crash", "publish_failure", "publish_timeout"}],
     [ids |-> "payload", faults |-> {"redelivery", "publish_failure", "publish_timeout"}]}
=============================================================================
