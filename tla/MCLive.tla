------------------------------- MODULE MCLive -------------------------------
(* Live for TLC.                                                              *)
EXTENDS Live

\* "ab" is one gate's text and "a" another's, so that a read may show one of them,
\* or both, or half of the first; "bb" says that remote control is up, and the
\* other "b" are ordinary output.
Patterns == [trust |-> {<<"a", "b">>}, chrome |-> {<<"a">>}, done |-> {<<"b", "b">>}]

\* Past the gate window nothing looks at what a byte is: "b" stands for all.
PastIsOne == \A i \in DOMAIN out : i > GateWindowBytes => out[i] = "b"

OneGate == [trust |-> {<<"a", "b">>}, done |-> {<<"b", "b">>}]

=============================================================================
