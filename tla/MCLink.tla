------------------------------- MODULE MCLink -------------------------------
(***************************************************************************)
(* The messages of the Link runs.                                          *)
(***************************************************************************)
EXTENDS LinkInvariant

Message(name, from, qos) == [name |-> name, from |-> from, qos |-> qos]

ThreeMessages == {Message("a", "client", 2), Message("b", "client", 1), Message("c", "server", 2)}
=============================================================================
