---------------------------- MODULE MCPrivContext ----------------------------
EXTENDS PrivContext

\* Two or three threads that call an entrypoint, one that starts the context and
\* one that stops it.
CONSTANTS t1, t2, t3, a1, s1
=============================================================================
