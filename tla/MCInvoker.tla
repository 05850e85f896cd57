------------------------------ MODULE MCInvoker ------------------------------
\* Invoker on small instances.
EXTENDS Invoker
=============================================================================
