----------------------------- MODULE MCAnyClient -----------------------------
EXTENDS AnyClient

\* Calls differ only by membership in NoFunction, Fatal, Hanging and Logging.
CONSTANTS c1, c2, x1, w1, w2
=============================================================================
