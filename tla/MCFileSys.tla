----------------------------- MODULE MCFileSys -----------------------------
EXTENDS FileSys

Call(op, path) == [op |-> op, path |-> path, to |-> <<>>]

\* A directory a that comes and goes in the root, and what processes do in it.
SmallCalls ==
  { Call("dir", <<"/", "a">>), Call("unlink", <<"/", "a">>), Call("chdir", <<"/", "a">>),
    Call("file", <<"b">>), Call("open", <<"b">>), Call("unlink", <<"a", ".">>),
    [op |-> "link", path |-> <<"b">>, to |-> <<"/", "a">>] }

\* a and b in the root and in a directory.
SmallNames == {"a", "b"}
=============================================================================
