----------------------------- MODULE MCWebClient -----------------------------
\* WebClient on small instances.
EXTENDS WebClient

=============================================================================
