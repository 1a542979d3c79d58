------------------------------ MODULE MCTools ------------------------------
(* A bounded instance of Tools for TLC: two paths, and the calls of clients. *)
EXTENDS Tools, TLC

d == <<"d">>
f == <<"d", "f">>
MCPaths == {d, f}

Ask(action, path, text, append, limit) ==
  [action |-> action, path |-> path, text |-> text, append |-> append, limit |-> limit]

\* Each of the tools and resources, the texts that tell two writers apart, and
\* every kind of argument that is refused.
MCRequests ==
  {Ask("write_text", f, <<1, 1>>, FALSE, 0), Ask("write_binary", f, <<2>>, FALSE, 0),
   Ask("write_text", f, <<2>>, TRUE, 0), Ask("write_binary", f, Garbled, FALSE, 0),
   Ask("write_text", f, NoText, FALSE, 0), Ask("nonsense", f, NoText, FALSE, 0),
   Ask("stat", Unsafe, NoText, FALSE, 0),
   Ask("read_text", f, NoText, FALSE, 2), Ask("resource", f, NoText, FALSE, 1)}
  \cup {Ask("delete", p, NoText, FALSE, 0) : p \in MCPaths}
  \cup {Ask(a, d, NoText, FALSE, 0) : a \in {"list", "resource", "stat", "mkdir", "cur_frame", "screen", "status"}}

Symmetry == Permutations(Workers)
=============================================================================
