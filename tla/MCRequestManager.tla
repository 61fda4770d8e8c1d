-------------------------- MODULE MCRequestManager --------------------------
\* Three callers and a cap of two executions: there can be a request more than
\* may run.
EXTENDS RequestManager
=============================================================================
