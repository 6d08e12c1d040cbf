------------------------------ MODULE MCPyPeer ------------------------------
(* A Python peer that two others talk to, for TLC.                         *)
EXTENDS PyPeer, TLC

MCRequest(cmd, addr, sig, about, name) ==
    [cmd |-> cmd, addr |-> addr, sig |-> sig, about |-> about, name |-> name]

\* A peer registers, possibly twice at once, and retrieves; another, unknown
\* one makes it known by an INFORM or sends a request without an address.
MCRequests ==
    {MCRequest("register", "a", "s", "a", "f"), MCRequest("retrieve", "a", "s", "a", "f"),
     MCRequest("retrieve", "a", "t", "a", "f"), MCRequest("inform", "b", "s", "a", "f"),
     MCRequest("register", "none", "s", "a", "f"), MCRequest("garbage", "none", "s", "a", "f")}

\* Our REGISTER is answered with the other peer and ourselves.
MCLists == {<<[addr |-> "b", sig |-> "s"], [addr |-> "me", sig |-> "s"]>>}

Symmetry == Permutations(Handlers)
=============================================================================
