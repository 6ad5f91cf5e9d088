----------------------------- MODULE MCBrowser ------------------------------
\* One network that comes and goes; a clock of seconds, the back-off cut at 6 s.
EXTENDS Browser
=============================================================================
