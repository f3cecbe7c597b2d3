-------------------------- MODULE MCDcpuVmHistory --------------------------
\* The programs of MCDcpuVm, run with the history variables.
EXTENDS MCDcpuVm, DcpuVmHistory
=============================================================================
