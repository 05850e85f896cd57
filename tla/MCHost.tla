-------------------------------- MODULE MCHost --------------------------------
\* Host on small instances.
EXTENDS Host

CONSTANTS this, other
=============================================================================
