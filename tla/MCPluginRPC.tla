----------------------------- MODULE MCPluginRPC -----------------------------
\* PluginRPC on small instances.
EXTENDS PluginRPC
=============================================================================
