------------------------------ MODULE MCAnyPeer ------------------------------
EXTENDS AnyPeer

\* Calls differ only by membership in Timed, Unserializable and Logging.
CONSTANTS t1, u1, u2, b1
=============================================================================
